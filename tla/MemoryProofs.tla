-------------------------- MODULE MemoryProofs --------------------------
(***************************************************************************)
(* What happens to memory: the blocks of the allocator, shared pointers,   *)
(* and the stacks that coroutines share.                                   *)
(*                                                                         *)
(* The bitmaps of a block are exact and its objects do not overlap, for    *)
(* any size of the block and of the words of its bitmaps, any sizes and    *)
(* alignments, and whenever other threads free.  BitsExact is nearly       *)
(* inductive: it lacks that an object takes at least what was asked for,   *)
(* that try_hard_alloc() allocates for a request, and that what it has     *)
(* loaded is forgotten when it is done.                                    *)
(***************************************************************************)
EXTENDS SmallBlock, Shared, SharedStack, StaticMem, ThreadAlloc, FiniteSetTheorems, SequenceTheorems,
        WellFoundedInduction, TLAPS

Enough == \A i \in Unit : asked[i] <= len[i]
Asking == pc # "out" => want \in Size
Loaded == pc # "clear" => x = {}

IInv == TypeOK /\ Marks /\ Apart /\ Enough /\ Asking /\ Loaded

\* align_up() rounds up.
LEMMA AlignUpGrows ==
    ASSUME NEW n \in Nat, NEW a \in Nat \ {0}
    PROVE  AlignUp(n, a) \in Nat /\ AlignUp(n, a) >= n
  BY SMT DEF AlignUp

\* Handing out n units at i, which is not before _bit, keeps the bitmaps exact.
LEMMA HandOutKeeps ==
    ASSUME IInv, NEW i \in Nat, i >= bit, NEW n \in Nat \ {0}, NEW m \in Nat, n >= m,
           NEW a \in Nat \ {0}, HandOut(i, n, m, a), UNCHANGED <<xbs, x>>
    PROVE  /\ bit' \in 0..MaxBit /\ bs' \subseteq Unit /\ live' \subseteq Unit
           /\ len' \in [Unit -> Nat] /\ asked' \in [Unit -> Nat] /\ aln' \in [Unit -> Nat \ {0}]
           /\ Marks' /\ Apart' /\ Enough'
  <1> USE BlockAssumption
  <1>1. /\ i \in Unit /\ i + n <= MaxBit /\ bit' = i + n
        /\ bs' = bs \cup {i} /\ live' = live \cup {i}
        /\ len' = [len EXCEPT ![i] = n] /\ asked' = [asked EXCEPT ![i] = m]
        /\ aln' = [aln EXCEPT ![i] = a]
    BY DEF HandOut, IInv, TypeOK, Unit
  <1>2. /\ bit' \in 0..MaxBit /\ bs' \subseteq Unit /\ live' \subseteq Unit
        /\ len' \in [Unit -> Nat] /\ asked' \in [Unit -> Nat] /\ aln' \in [Unit -> Nat \ {0}]
    BY <1>1 DEF IInv, TypeOK, Unit
  <1>3. \A j \in bs : j \in Unit /\ len[j] \in Nat /\ len[j] > 0 /\ j + len[j] <= i
    BY <1>1 DEF IInv, TypeOK, Apart, Unit
  <1>4. i \notin bs
    BY <1>1, <1>3 DEF Unit
  <1>5. Marks'
    BY <1>1, <1>4 DEF IInv, Marks
  <1>6. len'[i] = n /\ \A j \in bs : len'[j] = len[j]
    BY <1>1, <1>3, <1>4 DEF IInv, TypeOK
  <1>7. Apart'
    <2>1. \A j \in bs' : len'[j] > 0 /\ j + len'[j] <= bit'
      BY <1>1, <1>3, <1>6 DEF Unit
    <2>2. ASSUME NEW j \in bs', NEW k \in bs', j < k PROVE j + len'[j] <= k
      <3>1. CASE j \in bs /\ k \in bs
        BY <3>1, <2>2, <1>6 DEF IInv, Apart
      <3>2. CASE j \in bs /\ k = i
        BY <3>2, <1>3, <1>6
      <3>3. CASE j = i /\ k \in bs
        BY <3>3, <2>2, <1>1, <1>3 DEF Unit
      <3>4. QED
        BY <3>1, <3>2, <3>3, <2>2, <1>1 DEF Unit
    <2>3. QED
      BY <2>1, <2>2 DEF Apart
  <1>8. Enough'
    BY <1>1 DEF IInv, TypeOK, Enough
  <1>9. QED
    BY <1>2, <1>5, <1>7, <1>8

\* Taking objects S out of _bs and _xbs or _live, the first of them at i, and
\* lowering _bit keeps what is left apart.
LEMMA LoweringKeeps ==
    ASSUME IInv, NEW S \in SUBSET bs, NEW i \in S, \A j \in S : i <= j,
           bs' = bs \ S, bit' = Lowered(bs \ S, i), Forgotten(S)
    PROVE  /\ bit' \in 0..MaxBit /\ bs' \subseteq Unit
           /\ len' \in [Unit -> Nat] /\ asked' \in [Unit -> Nat] /\ aln' \in [Unit -> Nat \ {0}]
           /\ Apart' /\ Enough' /\ (bs' = {} => bit' = 0)
  <1> USE BlockAssumption
  <1>1. /\ len' \in [Unit -> Nat] /\ asked' \in [Unit -> Nat] /\ aln' \in [Unit -> Nat \ {0}]
        /\ bs' \subseteq Unit
    BY DEF Forgotten, IInv, TypeOK
  <1>2. \A j \in bs' : len'[j] = len[j]
    BY DEF Forgotten, IInv, TypeOK
  <1>3. \A j \in bs : /\ j \in Nat /\ j < MaxBit /\ len[j] \in Nat /\ len[j] > 0
                     /\ j + len[j] <= bit
    BY DEF IInv, TypeOK, Apart, Unit
  <1>4. i \in bs /\ bit \in 0..MaxBit
    BY DEF IInv, TypeOK
  <1>5. bit' \in 0..MaxBit
    BY <1>3, <1>4 DEF Lowered
  <1>6. bs' = {} => bit' = 0
    BY DEF Lowered
  <1>7. \A j \in bs' : j + len[j] <= bit'
    <2> SUFFICES ASSUME NEW j \in bs' PROVE j + len[j] <= bit'
      OBVIOUS
    <2>1. CASE \E r \in bs \ S : r >= i
      BY <2>1, <1>3 DEF Lowered
    <2>2. CASE ~\E r \in bs \ S : r >= i
      <3>1. j < i /\ bit' = i
        BY <2>2, <1>3, <1>4 DEF Lowered
      <3>2. QED
        BY <3>1, <1>4 DEF IInv, Apart
    <2>3. QED
      BY <2>1, <2>2
  <1>8. Apart'
    BY <1>2, <1>3, <1>7 DEF IInv, Apart
  <1>9. Enough'
    BY DEF Forgotten, IInv, TypeOK, Enough
  <1>10. QED
    BY <1>1, <1>5, <1>6, <1>8, <1>9

LEMMA InitInv == Init => IInv
  BY BlockAssumption
  DEF Init, IInv, TypeOK, Marks, Apart, Enough, Asking, Loaded, Unit

LEMMA AllocInv == ASSUME IInv, NEW n \in Size, Alloc(n) PROVE IInv'
  <1>1. n \in Nat \ {0} /\ n >= n /\ bit \in Nat /\ bit >= bit
    BY BlockAssumption DEF IInv, TypeOK
  <1>2. HandOut(bit, n, n, 1) /\ UNCHANGED <<xbs, x>> /\ UNCHANGED <<pc, word, want>>
    BY DEF Alloc, localVars
  <1>3. TypeOK' /\ Marks' /\ Apart' /\ Enough'
    BY <1>1, <1>2, HandOutKeeps DEF IInv, TypeOK
  <1>4. QED
    BY <1>2, <1>3 DEF IInv, Asking, Loaded

LEMMA AllocAlignedInv ==
    ASSUME IInv, NEW n \in Size, NEW a \in Align, AllocAligned(n, a) PROVE IInv'
  <1> DEFINE gap == IF a <= Line THEN 0 ELSE AlignUp(Base, a) - Base
             start == AlignUp(bit, a) + gap
  <1>1. n \in Nat \ {0} /\ a \in Nat \ {0} /\ bit \in Nat /\ Base \in Nat
    BY BlockAssumption DEF IInv, TypeOK
  <1>2. gap \in Nat
    BY <1>1, AlignUpGrows
  <1>3. start \in Nat /\ start >= bit
    BY <1>1, <1>2, AlignUpGrows
  <1>4. AlignUp(n, a) \in Nat \ {0} /\ AlignUp(n, a) >= n
    BY <1>1, AlignUpGrows
  <1>5. HandOut(start, AlignUp(n, a), n, a) /\ UNCHANGED <<xbs, x>> /\ UNCHANGED <<pc, word, want>>
    BY DEF AllocAligned, localVars
  <1> HIDE DEF gap, start
  <1>6. TypeOK' /\ Marks' /\ Apart' /\ Enough'
    BY <1>1, <1>3, <1>4, <1>5, HandOutKeeps DEF IInv, TypeOK
  <1>7. QED
    BY <1>5, <1>6 DEF IInv, Asking, Loaded

LEMMA HardAllocInv == ASSUME IInv, HardAlloc PROVE IInv'
  <1>1. want \in Size /\ want \in Nat \ {0} /\ want >= want /\ bit \in Nat /\ bit >= bit
    BY BlockAssumption DEF IInv, TypeOK, Asking, HardAlloc
  <1>2. UNCHANGED <<xbs, x>> /\ pc' = "out" /\ word' = 0 /\ want' = 0 /\ x = {}
    BY DEF HardAlloc, IInv, Loaded
  <1>3. CASE HandOut(bit, want, want, 1)
    <2>1. TypeOK' /\ Marks' /\ Apart' /\ Enough'
      BY <1>1, <1>2, <1>3, HandOutKeeps DEF IInv, TypeOK
    <2>2. QED
      BY <1>2, <2>1 DEF IInv, Asking, Loaded
  <1>4. CASE UNCHANGED <<bit, bs, histVars>>
    BY <1>2, <1>4 DEF IInv, TypeOK, Marks, Apart, Enough, Asking, Loaded, histVars
  <1>5. QED
    BY <1>3, <1>4 DEF HardAlloc

LEMMA FreeInv == ASSUME IInv, NEW i \in Unit, Free(i) PROVE IInv'
  <1>1. {i} \in SUBSET bs /\ i \in {i} /\ \A j \in {i} : i <= j
    BY DEF Free, IInv, Marks, Unit
  <1>2. /\ bs' = bs \ {i} /\ bit' = Lowered(bs \ {i}, i) /\ Forgotten({i})
        /\ live' = live \ {i} /\ UNCHANGED <<xbs, x>> /\ UNCHANGED <<pc, word, want>>
    BY DEF Free, localVars
  <1>3. /\ bit' \in 0..MaxBit /\ bs' \subseteq Unit
        /\ len' \in [Unit -> Nat] /\ asked' \in [Unit -> Nat] /\ aln' \in [Unit -> Nat \ {0}]
        /\ Apart' /\ Enough' /\ (bs' = {} => bit' = 0)
    BY <1>1, <1>2, LoweringKeeps
  <1>4. Marks'
    BY <1>1, <1>2, <1>3 DEF Free, IInv, Marks
  <1>5. TypeOK'
    BY <1>2, <1>3 DEF IInv, TypeOK
  <1>6. QED
    BY <1>2, <1>3, <1>4, <1>5 DEF IInv, Asking, Loaded

LEMMA XFreeInv == ASSUME IInv, NEW i \in Unit, XFree(i) PROVE IInv'
  BY DEF XFree, IInv, TypeOK, Marks, Apart, Enough, Asking, Loaded, localVars

\* The object that grows is the last one: it ends at _bit.
LEMMA ReallocInv == ASSUME IInv, NEW i \in Unit, NEW n \in Size, Realloc(i, n) PROVE IInv'
  <1> USE BlockAssumption
  <1>1. /\ i \in bs /\ n \in Nat /\ bit = i + asked[i] /\ n > asked[i] /\ i + n <= MaxBit
        /\ bit' = i + n /\ len' = [len EXCEPT ![i] = n] /\ asked' = [asked EXCEPT ![i] = n]
        /\ UNCHANGED <<bs, xbs, live, x, pc, word, want, aln>>
    BY DEF Realloc, IInv, Marks, localVars
  <1>2. TypeOK'
    <2>1. bit' \in 0..MaxBit
      BY <1>1 DEF Unit
    <2>2. len' \in [Unit -> Nat] /\ asked' \in [Unit -> Nat]
      BY <1>1 DEF IInv, TypeOK
    <2>3. QED
      BY <1>1, <2>1, <2>2 DEF IInv, TypeOK
  <1>3. \A j \in bs : /\ j \in Nat /\ len[j] \in Nat /\ len[j] > 0 /\ j + len[j] <= bit
                     /\ asked[j] \in Nat /\ asked[j] <= len[j]
    BY DEF IInv, TypeOK, Apart, Enough, Unit
  <1>4. \A j \in bs \ {i} : j < i /\ j + len[j] <= i
    <2> SUFFICES ASSUME NEW j \in bs \ {i} PROVE j < i /\ j + len[j] <= i
      OBVIOUS
    <2>1. CASE j < i
      BY <2>1, <1>1 DEF IInv, Apart
    <2>2. CASE i < j
      <3>1. i + len[i] <= j
        BY <2>2, <1>1 DEF IInv, Apart
      <3>2. FALSE
        BY <3>1, <1>1, <1>3
      <3>3. QED
        BY <3>2
    <2>3. QED
      BY <2>1, <2>2, <1>3, <1>1
  <1>5. len'[i] = n /\ \A j \in bs \ {i} : len'[j] = len[j]
    BY <1>1, <1>3 DEF IInv, TypeOK
  <1>6. Apart'
    <2>1. \A j \in bs' : len'[j] > 0 /\ j + len'[j] <= bit'
      BY <1>1, <1>3, <1>4, <1>5
    <2>2. ASSUME NEW j \in bs', NEW k \in bs', j < k PROVE j + len'[j] <= k
      <3>1. j # i
        BY <2>2, <1>1, <1>3, <1>4
      <3>2. QED
        BY <3>1, <2>2, <1>1, <1>5 DEF IInv, Apart
    <2>3. QED
      BY <2>1, <2>2 DEF Apart
  <1>7. Enough'
    BY <1>1, <1>3 DEF IInv, TypeOK, Enough
  <1>8. Marks'
    BY <1>1 DEF IInv, Marks
  <1>9. QED
    BY <1>1, <1>2, <1>6, <1>7, <1>8 DEF IInv, Asking, Loaded

LEMMA TryHardInv == ASSUME IInv, NEW n \in Size, TryHard(n) PROVE IInv'
  <1>1. /\ want' = n /\ pc' = "first" /\ pc = "out"
        /\ UNCHANGED <<bit, bs, xbs, x>> /\ UNCHANGED <<len, aln, asked, live>>
    BY DEF TryHard, histVars
  <1>2. word' \in Nat
    <2>1. PICK i \in bs : word' = WordOf(i)
      BY DEF TryHard
    <2>2. i \in Nat /\ B \in Nat \ {0}
      BY BlockAssumption DEF IInv, TypeOK, Unit
    <2>3. i \div B \in Nat
      BY <2>2, SMT
    <2>4. QED
      BY <2>1, <2>3 DEF WordOf
  <1>3. QED
    BY <1>1, <1>2 DEF IInv, TypeOK, Marks, Apart, Enough, Asking, Loaded

LEMMA LoadInv == ASSUME IInv, Load PROVE IInv'
  <1>1. UNCHANGED <<bit, bs, xbs, want>> /\ UNCHANGED <<len, aln, asked, live>> /\ pc # "out"
        /\ pc # "clear"
    BY DEF Load, histVars
  <1>2. \/ pc' = "clear" /\ x' = {i \in xbs : WordOf(i) = word} /\ word' = word
        \/ pc' = "alloc" /\ x' = x /\ word' = word
        \/ pc' = "load" /\ x' = x /\ word' = word - 1 /\ word # 0
    BY DEF Load
  <1>3. word' \in Nat /\ pc' \in {"out", "first", "load", "clear", "alloc"}
    BY <1>2 DEF IInv, TypeOK
  <1>4. x' \subseteq xbs /\ (pc' # "clear" => x' = {})
    BY <1>1, <1>2 DEF IInv, Marks, Loaded
  <1>5. QED
    BY <1>1, <1>3, <1>4 DEF IInv, TypeOK, Marks, Apart, Enough, Asking, Loaded

LEMMA ClearInv == ASSUME IInv, Clear PROVE IInv'
  <1>1. PICK lsb \in x : /\ \A i \in x : lsb <= i
                         /\ bit' = Lowered(bs \ x, lsb)
    BY DEF Clear
  <1>2. /\ xbs' = xbs \ x /\ bs' = bs \ x /\ Forgotten(x) /\ x' = {}
        /\ UNCHANGED <<want, live>> /\ pc = "clear"
        /\ pc' \in {"alloc", "load"} /\ (pc' = "load" => word # 0)
        /\ word' = IF pc' = "load" THEN word - 1 ELSE word
    BY DEF Clear
  <1>3. x \in SUBSET bs
    BY DEF IInv, Marks
  <1>4. /\ bit' \in 0..MaxBit /\ bs' \subseteq Unit
        /\ len' \in [Unit -> Nat] /\ asked' \in [Unit -> Nat] /\ aln' \in [Unit -> Nat \ {0}]
        /\ Apart' /\ Enough' /\ (bs' = {} => bit' = 0)
    BY <1>1, <1>2, <1>3, LoweringKeeps
  <1>5. Marks'
    BY <1>2, <1>4 DEF IInv, Marks
  <1>6. TypeOK'
    BY <1>2, <1>4 DEF IInv, TypeOK
  <1>7. QED
    BY <1>2, <1>4, <1>5, <1>6 DEF IInv, Asking, Loaded

LEMMA InvStep == IInv /\ [Next]_vars => IInv'
  <1> SUFFICES ASSUME IInv, [Next]_vars PROVE IInv'
    OBVIOUS
  <1>1. CASE Next
    BY <1>1, AllocInv, AllocAlignedInv, HardAllocInv, FreeInv, XFreeInv, ReallocInv,
       TryHardInv, LoadInv, ClearInv DEF Next
  <1>2. CASE UNCHANGED vars
    BY <1>2 DEF vars, localVars, histVars, IInv, TypeOK, Marks, Apart, Enough, Asking, Loaded
  <1>3. QED
    BY <1>1, <1>2

LEMMA Inductive == Spec => []IInv
  BY InitInv, InvStep, PTL DEF Spec

\* Every variable keeps its type, for blocks and words of any size.
THEOREM BlockTypeCorrect == Spec => []TypeOK
  <1>1. IInv => TypeOK
    BY DEF IInv
  <1>2. QED
    BY <1>1, Inductive, PTL

\* The bitmaps name exactly the objects in use and those that other threads
\* have freed, which do not overlap, whatever the interleaving of the frees
\* of other threads with the collection of what they freed.
THEOREM BitmapsAreExact == Spec => []BitsExact
  <1>1. IInv => BitsExact
    BY DEF IInv, BitsExact
  <1>2. QED
    BY <1>1, Inductive, PTL

\* A multiple of a is one of a.
LEMMA Multiple == ASSUME NEW a \in Nat \ {0}, NEW q \in Nat PROVE (q * a) % a = 0
  BY SMT

LEMMA Divides ==
    ASSUME NEW a \in Nat \ {0}, NEW n \in Nat, n % a = 0
    PROVE  \E q \in Nat : n = q * a
  <1>1. n \div a \in Nat /\ n = (n \div a) * a
    BY SMT
  <1>2. QED
    BY <1>1

LEMMA AlignUpAligns ==
    ASSUME NEW n \in Nat, NEW a \in Nat \ {0}
    PROVE  \E q \in Nat : AlignUp(n, a) = q * a
  <1>1. (n + a - 1) \div a \in Nat
    BY SMT
  <1>2. QED
    BY <1>1 DEF AlignUp

\* The first unit of an aligned object.
Gap(a) == IF a <= Line THEN 0 ELSE AlignUp(Base, a) - Base

LEMMA StartIsAligned ==
    ASSUME NEW n \in Nat, NEW a \in Align
    PROVE  (Base + (AlignUp(n, a) + Gap(a))) % a = 0
  <1>1. a \in Nat \ {0} /\ Base \in Nat /\ Line \in Nat \ {0}
    BY BlockAssumption
  <1>2. PICK q \in Nat : AlignUp(n, a) = q * a
    BY <1>1, AlignUpAligns
  <1>3. \E k \in Nat : Base + (AlignUp(n, a) + Gap(a)) = k * a
    <2>1. CASE a <= Line
      <3>1. PICK r \in Nat : Line = r * a
        BY <1>1, <2>1, BlockAssumption, Divides
      <3>2. PICK t \in Nat : Base = t * Line
        BY <1>1, <2>1, BlockAssumption, Divides
      <3>3. Base = (t * r) * a /\ t * r \in Nat
        BY <1>1, <3>1, <3>2
      <3>4. (t * r) * a + q * a = (t * r + q) * a /\ t * r + q \in Nat
        BY <1>1, <3>3
      <3>5. Base + (AlignUp(n, a) + Gap(a)) = (t * r) * a + q * a
        BY <1>1, <1>2, <2>1, <3>3 DEF Gap
      <3>6. QED
        BY <3>4, <3>5
    <2>2. CASE ~(a <= Line)
      <3>1. PICK t \in Nat : AlignUp(Base, a) = t * a
        BY <1>1, AlignUpAligns
      <3>2. q * a + t * a = (q + t) * a /\ q + t \in Nat /\ q * a \in Nat /\ t * a \in Nat
        BY <1>1
      <3>3. Base + (AlignUp(n, a) + Gap(a)) = q * a + t * a
        BY <1>1, <1>2, <2>2, <3>1, <3>2 DEF Gap
      <3>4. QED
        BY <3>2, <3>3
    <2>3. QED
      BY <2>1, <2>2
  <1>4. QED
    BY <1>1, <1>3, Multiple

\* The object handed out is one the arena may hand out.
LEMMA HandOutIsAlloc ==
    ASSUME IInv, NEW i \in Nat, i >= bit, NEW n \in Nat \ {0}, NEW m \in Nat,
           NEW a \in Align \cup {1}, HandOut(i, n, m, a), (Base + i) % a = 0
    PROVE  InUse!Next
  <1>1. /\ i \in Unit /\ i + n <= MaxBit /\ n \in 1..MaxBit
        /\ bs' = bs \cup {i} /\ live' = live \cup {i}
        /\ len' = [len EXCEPT ![i] = n] /\ aln' = [aln EXCEPT ![i] = a]
    BY BlockAssumption DEF HandOut, IInv, TypeOK, Unit
  <1>2. \A j \in live : /\ j \in Unit /\ j \in Nat /\ len[j] \in Nat /\ len[j] > 0
                       /\ j + len[j] <= i
    BY <1>1 DEF IInv, TypeOK, Marks, Apart, Unit
  <1>3. i \notin live
    BY <1>1, <1>2
  <1>4. InUse!Fits(ObjectsInUse, i, n)
    <2>1. \A k \in i..(i + n - 1) : k \in Unit
      BY <1>1, BlockAssumption DEF Unit
    <2>2. \A k \in i..(i + n - 1) : \A j \in live : k \notin j..(j + len[j] - 1)
      BY <1>1, <1>2
    <2>3. QED
      BY <2>1, <2>2 DEF InUse!Fits, InUse!Taken, InUse!Cells, ObjectsInUse
  <1>5. InUse!Put(ObjectsInUse, i, n, a)
    <2>1. \A j \in live : len'[j] = len[j] /\ aln'[j] = aln[j]
      BY <1>1, <1>2, <1>3 DEF IInv, TypeOK
    <2>2. len'[i] = n /\ aln'[i] = a
      BY <1>1 DEF IInv, TypeOK
    <2>3. ObjectsInUse' = [j \in live \cup {i} |-> [n |-> len'[j], a |-> aln'[j]]]
      BY <1>1 DEF ObjectsInUse
    <2>4. QED
      BY <2>1, <2>2, <2>3, <1>3 DEF InUse!Put, ObjectsInUse
  <1>6. InUse!Alloc(i, n, a)
    BY <1>4, <1>5 DEF InUse!Alloc
  <1>7. QED
    BY <1>1, <1>6 DEF InUse!Next

\* Whoever frees an object, the arena sees it leave.
LEMMA LeavingIsFree ==
    ASSUME IInv, NEW i \in live, live' = live \ {i},
           \A j \in live \ {i} : len'[j] = len[j] /\ aln'[j] = aln[j]
    PROVE  InUse!Next
  <1>1. i \in Unit
    BY DEF IInv, TypeOK
  <1>2. ObjectsInUse' = [j \in live \ {i} |-> [n |-> len[j], a |-> aln[j]]]
    BY DEF ObjectsInUse
  <1>3. InUse!Free(i)
    BY <1>2 DEF InUse!Free, InUse!Without, ObjectsInUse
  <1>4. QED
    BY <1>1, <1>3 DEF InUse!Next

LEMMA ReallocIsGrow ==
    ASSUME IInv, NEW i \in Unit, NEW n \in Size, Realloc(i, n)
    PROVE  InUse!Next
  <1> USE BlockAssumption
  <1>1. /\ i \in live /\ n \in Nat /\ bit = i + asked[i] /\ n > asked[i] /\ i + n <= MaxBit
        /\ len' = [len EXCEPT ![i] = n]
        /\ UNCHANGED <<live, aln>>
    BY DEF Realloc
  <1>2. \A j \in live : /\ j \in Unit /\ j \in Nat /\ len[j] \in Nat /\ len[j] > 0
                       /\ j + len[j] <= bit /\ asked[j] \in Nat /\ asked[j] <= len[j]
    BY DEF IInv, TypeOK, Marks, Apart, Enough, Unit
  <1>3. n \in 1..MaxBit
    BY <1>1, <1>2
  <1>4. \A j \in live \ {i} : j + len[j] <= i
    <2> SUFFICES ASSUME NEW j \in live \ {i} PROVE j + len[j] <= i
      OBVIOUS
    <2>1. CASE j < i
      BY <2>1, <1>1 DEF IInv, Marks, Apart
    <2>2. CASE i < j
      <3>1. i + len[i] <= j
        BY <2>2, <1>1 DEF IInv, Marks, Apart
      <3>2. FALSE
        BY <3>1, <1>1, <1>2
      <3>3. QED
        BY <3>2
    <2>3. QED
      BY <2>1, <2>2, <1>1, <1>2
  <1>5. InUse!Fits(InUse!Without({i}), i, n)
    <2>1. \A k \in i..(i + n - 1) : k \in Unit
      BY <1>1, <1>2 DEF Unit
    <2>2. \A k \in i..(i + n - 1) : \A j \in live \ {i} : k \notin j..(j + len[j] - 1)
      BY <1>1, <1>2, <1>4
    <2>3. QED
      BY <2>1, <2>2 DEF InUse!Fits, InUse!Taken, InUse!Cells, InUse!Without, ObjectsInUse
  <1>6. InUse!Put(ObjectsInUse, i, n, ObjectsInUse[i].a)
    <2>1. \A j \in live \ {i} : len'[j] = len[j] /\ aln'[j] = aln[j]
      BY <1>1, <1>2 DEF IInv, TypeOK
    <2>2. len'[i] = n /\ aln'[i] = aln[i]
      BY <1>1 DEF IInv, TypeOK
    <2>3. ObjectsInUse' = [j \in live \cup {i} |-> [n |-> len'[j], a |-> aln'[j]]]
      BY <1>1 DEF ObjectsInUse
    <2>4. QED
      BY <2>1, <2>2, <2>3, <1>1 DEF InUse!Put, ObjectsInUse
  <1>7. InUse!Grow(i, n)
    BY <1>1, <1>5, <1>6 DEF InUse!Grow, ObjectsInUse
  <1>8. QED
    BY <1>3, <1>7 DEF InUse!Next

\* A step that leaves the objects in use alone is none of the arena.
LEMMA Unmoved ==
    ASSUME UNCHANGED live, \A j \in live : len'[j] = len[j] /\ aln'[j] = aln[j]
    PROVE  UNCHANGED ObjectsInUse
  <1>1. ObjectsInUse' = [j \in live |-> [n |-> len'[j], a |-> aln'[j]]]
    BY DEF ObjectsInUse
  <1>2. QED
    BY <1>1 DEF ObjectsInUse

LEMMA StepIsArenaStep ==
    ASSUME IInv, [Next]_vars PROVE InUse!Next \/ UNCHANGED ObjectsInUse
  <1> USE BlockAssumption
  <1>1. ASSUME NEW n \in Size, Alloc(n) PROVE InUse!Next
    <2>1. /\ bit \in Nat /\ bit >= bit /\ n \in Nat \ {0} /\ (Base + bit) % 1 = 0
          /\ HandOut(bit, n, n, 1) /\ 1 \in Align \cup {1}
      BY <1>1 DEF Alloc, IInv, TypeOK
    <2>2. QED
      BY <2>1, HandOutIsAlloc
  <1>2. ASSUME NEW n \in Size, NEW a \in Align, AllocAligned(n, a) PROVE InUse!Next
    <2>1. bit \in Nat /\ n \in Nat \ {0} /\ a \in Nat \ {0} /\ Base \in Nat /\ Line \in Nat
      BY DEF IInv, TypeOK
    <2>2. /\ AlignUp(bit, a) \in Nat /\ AlignUp(bit, a) >= bit
          /\ AlignUp(n, a) \in Nat \ {0} /\ Gap(a) \in Nat
      <3>1. AlignUp(bit, a) \in Nat /\ AlignUp(bit, a) >= bit
        BY <2>1, AlignUpGrows
      <3>2. n \in Nat /\ n > 0
        BY <2>1
      <3>3. AlignUp(n, a) \in Nat /\ AlignUp(n, a) >= n
        BY <2>1, <3>2, AlignUpGrows
      <3>4. AlignUp(Base, a) \in Nat /\ AlignUp(Base, a) >= Base
        BY <2>1, AlignUpGrows
      <3>5. Gap(a) \in Nat
        BY <2>1, <3>4 DEF Gap
      <3>6. QED
        BY <3>1, <3>2, <3>3, <3>5
    <2>3. AlignUp(bit, a) + Gap(a) \in Nat /\ AlignUp(bit, a) + Gap(a) >= bit
      BY <2>1, <2>2
    <2>4. HandOut(AlignUp(bit, a) + Gap(a), AlignUp(n, a), n, a)
      BY <1>2 DEF AllocAligned, Gap
    <2>5. (Base + (AlignUp(bit, a) + Gap(a))) % a = 0
      BY <2>1, StartIsAligned
    <2>6. QED
      BY <2>1, <2>2, <2>3, <2>4, <2>5, HandOutIsAlloc
  <1>3. CASE HardAlloc
    <2>1. /\ bit \in Nat /\ bit >= bit /\ want \in Nat \ {0} /\ (Base + bit) % 1 = 0
          /\ 1 \in Align \cup {1}
      BY <1>3 DEF HardAlloc, IInv, TypeOK, Asking
    <2>2. CASE HandOut(bit, want, want, 1)
      BY <2>1, <2>2, HandOutIsAlloc
    <2>3. CASE UNCHANGED histVars
      BY <2>3, Unmoved DEF histVars
    <2>4. QED
      BY <1>3, <2>2, <2>3 DEF HardAlloc
  <1>4. ASSUME NEW i \in Unit, Free(i) PROVE InUse!Next
    <2>1. \A j \in live \ {i} : len'[j] = len[j] /\ aln'[j] = aln[j]
      BY <1>4 DEF Free, Forgotten, IInv, TypeOK
    <2>2. QED
      BY <1>4, <2>1, LeavingIsFree DEF Free
  <1>5. ASSUME NEW i \in Unit, XFree(i) PROVE InUse!Next
    BY <1>5, LeavingIsFree DEF XFree
  <1>6. CASE Clear
    <2>1. \A j \in live : j \notin x /\ j \in Unit
      BY DEF IInv, TypeOK, Marks
    <2>2. \A j \in live : len'[j] = len[j] /\ aln'[j] = aln[j]
      BY <1>6, <2>1 DEF Clear, Forgotten
    <2>3. QED
      BY <1>6, <2>2, Unmoved DEF Clear
  <1>7. ASSUME NEW n \in Size, TryHard(n) PROVE UNCHANGED ObjectsInUse
    BY <1>7, Unmoved DEF TryHard, histVars
  <1>8. CASE Load
    BY <1>8, Unmoved DEF Load, histVars
  <1>9. CASE UNCHANGED vars
    BY <1>9, Unmoved DEF vars, histVars
  <1>10. QED
    BY <1>1, <1>2, <1>3, <1>4, <1>5, <1>6, <1>7, <1>8, <1>9, ReallocIsGrow DEF Next

\* The block is an arena: what alloc(), try_hard_alloc() and realloc() hand out
\* lies in the block, aligned as asked, and overlaps no object in use.
THEOREM BlockIsArena == Spec => ImplementsArena
  <1>1. Init => InUse!Init
    BY DEF Init, InUse!Init, ObjectsInUse
  <1>2. IInv /\ [Next]_vars => [InUse!Next]_ObjectsInUse
    BY StepIsArenaStep
  <1>3. QED
    BY <1>1, <1>2, Inductive, PTL DEF Spec, ImplementsArena, InUse!Spec

-----------------------------------------------------------------------------
(***************************************************************************)
(* Shared pointers.  The count of an object is the number of pointers to   *)
(* it and of threads that are about to give up a reference.                *)
(***************************************************************************)
\* A pointer to the base class finds the count where one to the derived class
\* does, or there is none.
OneLayout == BasePtr = {} \/ SizeOf["base"] = SizeOf["derived"]

\* The count does not overflow.
FewReferences == Cardinality(Ptr) + Cardinality(PtrThread) < Word

\* Who has the value o in f.
At(f, o) == {e \in DOMAIN f : f[e] = o}
DropOf == [t \in PtrThread |-> drop[t].obj]
Count(o) == Cardinality(At(to, o)) + Cardinality(At(DropOf, o))

CountAt == SizeOf["derived"] + 1

SharedTypes ==
    /\ to \in [Ptr -> Obj \cup {Null}]
    /\ drop \in [PtrThread -> [obj : Obj \cup {Null}, class : {"base", "derived"}]]
    /\ DOMAIN mem = Obj
    /\ \A o \in Obj : mem[o] # <<>> => mem[o] \in [1..CountAt + 1 -> Nat]

Counted ==
    \A o \in Obj :
       /\ mem[o] # <<>> => mem[o][CountAt] = Count(o) /\ Count(o) # 0
       /\ mem[o] = <<>> => Count(o) = 0

Kept == \A o \in Obj : mem[o] # <<>> => \A i \in 1..SizeOf["derived"] : mem[o][i] = Content

\* A reference is given up where it was counted.
DropsAtCount == \A t \in PtrThread : drop[t].obj # Null => RefAt(drop[t].class) = CountAt

SharedInv == SharedTypes /\ Counted /\ Kept /\ DropsAtCount

\* 1 if a reference to a is one to o.
Is(a, o) == IF a = o THEN 1 ELSE 0

\* Changing one entry of f changes how many entries have the value o.
LEMMA AtChanged ==
    ASSUME NEW D, IsFiniteSet(D), NEW f, DOMAIN f = D, NEW e \in D, NEW v, NEW o,
           NEW g, DOMAIN g = D, \A y \in D : g[y] = IF y = e THEN v ELSE f[y]
    PROVE  /\ Cardinality(At(f, o)) \in Nat
           /\ Cardinality(At(g, o)) = Cardinality(At(f, o)) - Is(f[e], o) + Is(v, o)
  <1>0. IsFiniteSet(At(f, o)) /\ Cardinality(At(f, o)) \in Nat
    BY FS_Subset, FS_CardinalityType DEF At
  <1>1. CASE f[e] = o /\ v = o
    <2>1. At(g, o) = At(f, o)
      BY <1>1 DEF At
    <2> QED
      BY <1>0, <1>1, <2>1 DEF Is
  <1>2. CASE f[e] # o /\ v # o
    <2>1. At(g, o) = At(f, o)
      BY <1>2 DEF At
    <2> QED
      BY <1>0, <1>2, <2>1 DEF Is
  <1>3. CASE f[e] = o /\ v # o
    <2>1. At(g, o) = At(f, o) \ {e} /\ e \in At(f, o)
      BY <1>3 DEF At
    <2>2. Cardinality(At(g, o)) = Cardinality(At(f, o)) - 1
      BY <1>0, <2>1, FS_RemoveElement
    <2> QED
      BY <1>0, <1>3, <2>2 DEF Is
  <1>4. CASE f[e] # o /\ v = o
    <2>1. At(g, o) = At(f, o) \cup {e} /\ e \notin At(f, o)
      BY <1>4 DEF At
    <2>2. Cardinality(At(g, o)) = Cardinality(At(f, o)) + 1
      BY <1>0, <2>1, FS_AddElement
    <2> QED
      BY <1>0, <1>4, <2>2 DEF Is
  <1> QED
    BY <1>1, <1>2, <1>3, <1>4

LEMMA Finite == IsFiniteSet(Ptr) /\ IsFiniteSet(PtrThread)
  <1> DEFINE f == [p \in Ptr |-> Owner[p]]
  <1>1. f \in Surjection(Ptr, PtrThread)
    BY DEF PtrThread, Surjection
  <1> QED
    BY <1>1, SharedAssumption, FS_Surjection DEF SharedAssumption

LEMMA Bounded ==
    ASSUME FewReferences, NEW o, NEW f, DOMAIN f = Ptr, NEW g, DOMAIN g = PtrThread
    PROVE  Cardinality(At(f, o)) + Cardinality(At(g, o)) < Word
  <1>1. At(f, o) \subseteq Ptr /\ At(g, o) \subseteq PtrThread
    BY DEF At
  <1>2. /\ IsFiniteSet(At(f, o)) /\ IsFiniteSet(At(g, o))
        /\ Cardinality(At(f, o)) <= Cardinality(Ptr)
        /\ Cardinality(At(g, o)) <= Cardinality(PtrThread)
    BY <1>1, Finite, FS_Subset
  <1>3. /\ Cardinality(At(f, o)) \in Nat /\ Cardinality(At(g, o)) \in Nat
        /\ Cardinality(Ptr) \in Nat /\ Cardinality(PtrThread) \in Nat
    BY <1>2, Finite, FS_CardinalityType
  <1> QED
    BY <1>2, <1>3, SharedAssumption DEF FewReferences, SharedAssumption

LEMMA CountBounds ==
    ASSUME SharedTypes, NEW o \in Obj
    PROVE  /\ Cardinality(At(to, o)) \in Nat /\ Cardinality(At(DropOf, o)) \in Nat
           /\ Count(o) = 0 <=> References(o) = {}
  <1>1. At(to, o) \subseteq Ptr /\ At(DropOf, o) \subseteq PtrThread
    BY DEF At, DropOf, SharedTypes
  <1>2. /\ IsFiniteSet(At(to, o)) /\ IsFiniteSet(At(DropOf, o))
        /\ Cardinality(At(to, o)) <= Cardinality(Ptr)
        /\ Cardinality(At(DropOf, o)) <= Cardinality(PtrThread)
    BY <1>1, Finite, FS_Subset
  <1>3. /\ Cardinality(At(to, o)) \in Nat /\ Cardinality(At(DropOf, o)) \in Nat
        /\ Cardinality(Ptr) \in Nat /\ Cardinality(PtrThread) \in Nat
    BY <1>2, Finite, FS_CardinalityType
  <1>5. References(o) = At(to, o) \cup At(DropOf, o)
    BY DEF References, At, DropOf, SharedTypes
  <1>6. /\ Cardinality(At(to, o)) = 0 <=> At(to, o) = {}
        /\ Cardinality(At(DropOf, o)) = 0 <=> At(DropOf, o) = {}
    BY <1>2, FS_EmptySet
  <1>7. Count(o) = 0 <=> References(o) = {}
    BY <1>3, <1>5, <1>6 DEF Count
  <1> QED
    BY <1>3, <1>7

\* What SharedOwnership says, from the invariant.
LEMMA CountedIsOwned == SharedInv => SharedOwnership
  BY CountBounds DEF SharedInv, Counted, Kept, SharedOwnership

LEMMA ModSmall == ASSUME NEW w \in Nat, NEW k \in Nat, k < w PROVE k % w = k
  OBVIOUS

LEMMA ModOver == ASSUME NEW w \in Nat, NEW k \in Nat, k < w PROVE (k + w) % w = k
  OBVIOUS

\* What is added to the count of an object changes nothing else.
LEMMA Recounted ==
    ASSUME SharedInv, NEW o \in Obj, mem[o] # <<>>, NEW class, RefAt(class) = CountAt,
           NEW n \in Nat, NEW m, m = Added(o, class, n)
    PROVE  /\ DOMAIN m = Obj /\ \A b \in Obj \ {o} : m[b] = mem[b]
           /\ m[o] # <<>> /\ m[o] \in [1..CountAt + 1 -> Nat]
           /\ m[o][CountAt] = (Count(o) + n) % Word
           /\ \A i \in 1..SizeOf["derived"] : m[o][i] = mem[o][i]
  <1>1. /\ mem[o] \in [1..CountAt + 1 -> Nat] /\ mem[o][CountAt] = Count(o) /\ DOMAIN mem = Obj
        /\ Count(o) \in Nat
    BY CountBounds DEF SharedInv, SharedTypes, Counted, Count
  <1>2. SizeOf["derived"] \in Nat /\ CountAt \in 1..CountAt + 1 /\ Word \in Nat \ {0}
        /\ \A i \in 1..SizeOf["derived"] : i \in 1..CountAt + 1 /\ i # CountAt
    BY SharedAssumption DEF SharedAssumption, CountAt
  <1>3. m = [mem EXCEPT ![o] = [mem[o] EXCEPT ![CountAt] = (mem[o][CountAt] + n) % Word]]
    BY DEF Added
  <1>4. m[o] = [mem[o] EXCEPT ![CountAt] = (Count(o) + n) % Word]
    BY <1>1, <1>3
  <1>5. DOMAIN m = Obj /\ \A b \in Obj \ {o} : m[b] = mem[b]
    BY <1>1, <1>3
  <1>6. (Count(o) + n) % Word \in Nat
    BY <1>1, <1>2
  <1>7. /\ m[o] \in [1..CountAt + 1 -> Nat] /\ m[o][CountAt] = (Count(o) + n) % Word
        /\ \A i \in 1..SizeOf["derived"] : m[o][i] = mem[o][i]
    BY <1>1, <1>2, <1>4, <1>6
  <1>8. m[o] # <<>>
    <2>1. DOMAIN m[o] = 1..CountAt + 1 /\ 1 \in 1..CountAt + 1
      BY <1>2, <1>7 DEF CountAt
    <2>2. DOMAIN <<>> = {}
      OBVIOUS
    <2> QED
      BY ONLY <2>1, <2>2
  <1> QED
    BY <1>5, <1>7, <1>8

\* What threads give up, f before and g afterwards, differs in thread t.
LEMMA OtherDrop ==
    ASSUME NEW t \in PtrThread, NEW v, NEW o, NEW f, DOMAIN f = PtrThread,
           NEW g, DOMAIN g = PtrThread, \A u \in PtrThread : g[u] = IF u = t THEN v ELSE f[u]
    PROVE  /\ Cardinality(At(f, o)) \in Nat
           /\ Cardinality(At(g, o)) = Cardinality(At(f, o)) - Is(f[t], o) + Is(v, o)
  BY Finite, AtChanged

\* A reference is given up: it counts until it is dropped.
LEMMA GivenUp ==
    ASSUME SharedInv, OneLayout, NEW p \in Ptr, Idle(p),
           IF to[p] = Null THEN UNCHANGED drop ELSE Drops(p)
    PROVE  /\ drop' \in [PtrThread -> [obj : Obj \cup {Null}, class : {"base", "derived"}]]
           /\ DropsAtCount'
           /\ \A o \in Obj : Cardinality(At(DropOf', o)) = Cardinality(At(DropOf, o)) + Is(to[p], o)
  <1>1. /\ Owner[p] \in PtrThread /\ to[p] \in Obj \cup {Null}
        /\ drop \in [PtrThread -> [obj : Obj \cup {Null}, class : {"base", "derived"}]]
        /\ drop[Owner[p]].obj = Null
    BY DEF PtrThread, SharedInv, SharedTypes, Idle, NoDrop
  <1>2. CASE to[p] = Null
    <2>1. drop' = drop /\ DropOf' = DropOf
      BY <1>2 DEF DropOf
    <2>2. \A o \in Obj : Is(to[p], o) = 0 /\ Cardinality(At(DropOf, o)) \in Nat
      BY <1>2, SharedAssumption, CountBounds DEF Is, SharedAssumption, SharedInv
    <2> QED
      BY <1>1, <2>1, <2>2 DEF DropsAtCount, SharedInv
  <1>3. CASE to[p] # Null
    <2>1. drop' = [drop EXCEPT ![Owner[p]] = [obj |-> to[p], class |-> Class(p)]]
      BY <1>3 DEF Drops
    <2>2. Class(p) \in {"base", "derived"} /\ RefAt(Class(p)) = CountAt
      BY SharedAssumption DEF Class, OneLayout, RefAt, CountAt, SharedAssumption
    <2>3. drop' \in [PtrThread -> [obj : Obj \cup {Null}, class : {"base", "derived"}]]
      BY <1>1, <2>1, <2>2
    <2>4. DropsAtCount'
      BY <1>1, <2>1, <2>2 DEF DropsAtCount, SharedInv, RefAt, CountAt
    <2>5. /\ DOMAIN DropOf' = PtrThread
          /\ \A t \in PtrThread : DropOf'[t] = IF t = Owner[p] THEN to[p] ELSE DropOf[t]
      BY <1>1, <2>1 DEF DropOf
    <2>6. ASSUME NEW o \in Obj
          PROVE  Cardinality(At(DropOf', o)) = Cardinality(At(DropOf, o)) + Is(to[p], o)
      <3>1. DOMAIN DropOf = PtrThread /\ DropOf[Owner[p]] # o
        BY <1>1, SharedAssumption DEF DropOf, SharedAssumption
      <3> DEFINE g == DropOf'
      <3> HIDE DEF g
      <3>3. DOMAIN g = PtrThread /\ \A t \in PtrThread : g[t] = IF t = Owner[p] THEN to[p] ELSE DropOf[t]
        BY <2>5 DEF g
      <3>2. /\ Cardinality(At(DropOf, o)) \in Nat
            /\ Cardinality(At(g, o)) =
                 Cardinality(At(DropOf, o)) - Is(DropOf[Owner[p]], o) + Is(to[p], o)
        BY <1>1, <3>1, <3>3, OtherDrop
      <3> QED
        BY <3>1, <3>2 DEF Is, g
    <2> QED
      BY <2>3, <2>4, <2>6
  <1> QED
    BY <1>2, <1>3

\* p points to v.
LEMMA Pointed ==
    ASSUME SharedTypes, NEW p \in Ptr, NEW v \in Obj \cup {Null}, NEW o \in Obj,
           NEW g, DOMAIN g = Ptr, \A r \in Ptr : g[r] = IF r = p THEN v ELSE to[r]
    PROVE  /\ Cardinality(At(to, o)) \in Nat
           /\ Cardinality(At(g, o)) = Cardinality(At(to, o)) - Is(to[p], o) + Is(v, o)
  <1>1. DOMAIN to = Ptr
    BY DEF SharedTypes
  <1> QED
    BY <1>1, Finite, AtChanged

\* p points to v, and then q to u.
Redirected(g, p, v, q, u) ==
    DOMAIN g = Ptr /\ \A r \in Ptr : g[r] = IF r = q THEN u ELSE IF r = p THEN v ELSE to[r]

LEMMA PointedTwo ==
    ASSUME SharedTypes, NEW p \in Ptr, NEW q \in Ptr, NEW v \in Obj \cup {Null}, NEW u \in Obj \cup {Null},
           NEW o \in Obj, p = q => v = to[q],
           NEW g, Redirected(g, p, v, q, u)
    PROVE  /\ Cardinality(At(to, o)) \in Nat
           /\ Cardinality(At(g, o)) = Cardinality(At(to, o)) - Is(to[p], o) + Is(v, o)
                                      - Is(to[q], o) + Is(u, o)
  <1> DEFINE h == [r \in Ptr |-> IF r = p THEN v ELSE to[r]]
  <1>1. DOMAIN h = Ptr /\ \A r \in Ptr : h[r] = IF r = p THEN v ELSE to[r]
    OBVIOUS
  <1> HIDE DEF h
  <1>2. /\ Cardinality(At(to, o)) \in Nat
        /\ Cardinality(At(h, o)) = Cardinality(At(to, o)) - Is(to[p], o) + Is(v, o)
    BY <1>1, Pointed
  <1>3. h[q] = to[q] /\ \A r \in Ptr : g[r] = IF r = q THEN u ELSE h[r]
    BY <1>1 DEF Redirected
  <1>5. DOMAIN g = Ptr
    BY DEF Redirected
  <1>4. /\ Cardinality(At(h, o)) \in Nat
        /\ Cardinality(At(g, o)) = Cardinality(At(h, o)) - Is(h[q], o) + Is(u, o)
    BY <1>1, <1>3, <1>5, Finite, AtChanged
  <1> QED
    BY <1>2, <1>3, <1>4 DEF Is

-----------------------------------------------------------------------------
(***************************************************************************)
(* Steps that change no count, and those that change one                   *)
(***************************************************************************)
LEMMA SameCounts ==
    ASSUME SharedInv, mem' = mem, to' \in [Ptr -> Obj \cup {Null}],
           drop' \in [PtrThread -> [obj : Obj \cup {Null}, class : {"base", "derived"}]], DropsAtCount',
           \A o \in Obj : Cardinality(At(to', o)) + Cardinality(At(DropOf', o)) = Count(o)
    PROVE  SharedInv'
  <1>1. SharedTypes'
    BY DEF SharedInv, SharedTypes
  <1>2. Counted'
    BY DEF SharedInv, Counted, Count
  <1>3. Kept'
    BY DEF SharedInv, Kept
  <1> QED
    BY <1>1, <1>2, <1>3 DEF SharedInv

LEMMA MoveKeeps ==
    ASSUME SharedInv, OneLayout, NEW p \in Ptr, NEW q \in Ptr, Move(q, p) \/ Swap(q, p) \/ Reset(p)
    PROVE  SharedInv'
  <1>0. /\ SharedTypes /\ to[p] \in Obj \cup {Null} /\ to[q] \in Obj \cup {Null}
        /\ Null \in Obj \cup {Null} /\ Null \notin Obj
        /\ DropsAtCount
        /\ drop \in [PtrThread -> [obj : Obj \cup {Null}, class : {"base", "derived"}]]
    BY SharedAssumption DEF SharedInv, SharedTypes, SharedAssumption
  <1>00. \A o \in Obj : Cardinality(At(to, o)) \in Nat /\ Cardinality(At(DropOf, o)) \in Nat
                        /\ Is(Null, o) = 0
    BY <1>0, CountBounds DEF Is
  <1>1. CASE Move(q, p)
    <2>1. /\ Idle(p) /\ p # q /\ mem' = mem
          /\ IF to[p] = Null THEN UNCHANGED drop ELSE Drops(p)
          /\ to' = [to EXCEPT ![p] = to[q], ![q] = Null]
      BY <1>1 DEF Move
    <2>2. /\ drop' \in [PtrThread -> [obj : Obj \cup {Null}, class : {"base", "derived"}]]
          /\ DropsAtCount'
          /\ \A o \in Obj : Cardinality(At(DropOf', o)) = Cardinality(At(DropOf, o)) + Is(to[p], o)
      BY <2>1, GivenUp
    <2>3. ASSUME NEW o \in Obj
          PROVE  Cardinality(At(to', o)) = Cardinality(At(to, o)) - Is(to[p], o) + Is(to[q], o)
                                              - Is(to[q], o) + Is(Null, o)
      <3>1. Redirected(to', p, to[q], q, Null)
        BY <1>0, <2>1 DEF SharedTypes, Redirected
      <3> QED
        BY ONLY <1>0, <3>1, p \in Ptr, q \in Ptr, o \in Obj, PointedTwo
    <2>4. to' \in [Ptr -> Obj \cup {Null}]
      BY <1>0, <2>1 DEF SharedTypes
    <2>5. ASSUME NEW o \in Obj
          PROVE  Cardinality(At(to', o)) + Cardinality(At(DropOf', o)) = Count(o)
      BY <1>0, <1>00, <2>2, <2>3 DEF Count, Is
    <2> QED
      BY <2>1, <2>2, <2>4, <2>5, SameCounts
  <1>2. CASE Swap(q, p)
    <2>1. /\ mem' = mem /\ drop' = drop /\ to' = [to EXCEPT ![p] = to[q], ![q] = to[p]]
      BY <1>2 DEF Swap
    <2>2. DropsAtCount' /\ DropOf' = DropOf
      BY <1>0, <2>1 DEF DropsAtCount, DropOf
    <2>3. ASSUME NEW o \in Obj
          PROVE  Cardinality(At(to', o)) = Cardinality(At(to, o)) - Is(to[p], o) + Is(to[q], o)
                                              - Is(to[q], o) + Is(to[p], o)
      <3>1. PICK v \in Obj \cup {Null}, u \in Obj \cup {Null} : v = to[q] /\ u = to[p]
        BY <1>0
      <3>2. Redirected(to', p, v, q, u)
        BY <1>0, <2>1, <3>1 DEF SharedTypes, Redirected
      <3>3. Cardinality(At(to', o)) = Cardinality(At(to, o)) - Is(to[p], o) + Is(v, o) - Is(to[q], o) + Is(u, o)
        BY <1>0, <3>1, <3>2, PointedTwo
      <3> QED
        BY <3>1, <3>3
    <2>4. to' \in [Ptr -> Obj \cup {Null}]
      BY <1>0, <2>1 DEF SharedTypes
    <2>5. ASSUME NEW o \in Obj
          PROVE  Cardinality(At(to', o)) + Cardinality(At(DropOf', o)) = Count(o)
      BY <1>0, <1>00, <2>2, <2>3 DEF Count, Is
    <2> QED
      BY <1>0, <2>1, <2>2, <2>4, <2>5, SameCounts
  <1>3. CASE Reset(p)
    <2>1. /\ Idle(p) /\ mem' = mem /\ to' = [to EXCEPT ![p] = Null]
          /\ IF to[p] = Null THEN UNCHANGED drop ELSE Drops(p)
      BY <1>3 DEF Reset
    <2>2. /\ drop' \in [PtrThread -> [obj : Obj \cup {Null}, class : {"base", "derived"}]]
          /\ DropsAtCount'
          /\ \A o \in Obj : Cardinality(At(DropOf', o)) = Cardinality(At(DropOf, o)) + Is(to[p], o)
      BY <2>1, GivenUp
    <2>3. ASSUME NEW o \in Obj
          PROVE  Cardinality(At(to', o)) = Cardinality(At(to, o)) - Is(to[p], o) + Is(Null, o)
      <3>1. DOMAIN to' = Ptr /\ \A r \in Ptr : to'[r] = IF r = p THEN Null ELSE to[r]
        BY <1>0, <2>1 DEF SharedTypes
      <3> QED
        BY ONLY <1>0, <3>1, p \in Ptr, o \in Obj, Pointed
    <2>4. to' \in [Ptr -> Obj \cup {Null}]
      BY <1>0, <2>1 DEF SharedTypes
    <2>5. ASSUME NEW o \in Obj
          PROVE  Cardinality(At(to', o)) + Cardinality(At(DropOf', o)) = Count(o)
      BY <1>0, <1>00, <2>2, <2>3 DEF Count, Is
    <2> QED
      BY <2>1, <2>2, <2>4, <2>5, SameCounts
  <1> QED
    BY <1>1, <1>2, <1>3

\* The words of object o become w, as its count becomes n.
LEMMA OneCount ==
    ASSUME SharedInv, NEW o \in Obj, NEW n \in Nat,
           DOMAIN mem' = Obj, \A b \in Obj \ {o} : mem'[b] = mem[b],
           \/ n = 0 /\ mem'[o] = <<>>
           \/ /\ n # 0 /\ mem'[o] # <<>> /\ mem'[o] \in [1..CountAt + 1 -> Nat] /\ mem'[o][CountAt] = n
              /\ \A i \in 1..SizeOf["derived"] : mem'[o][i] = Content,
           to' \in [Ptr -> Obj \cup {Null}],
           drop' \in [PtrThread -> [obj : Obj \cup {Null}, class : {"base", "derived"}]], DropsAtCount',
           \A b \in Obj : Cardinality(At(to', b)) + Cardinality(At(DropOf', b)) = IF b = o THEN n ELSE Count(b)
    PROVE  SharedInv'
  <1>1. SharedTypes'
    BY DEF SharedInv, SharedTypes
  <1>2. Counted'
    <2>1. ASSUME NEW b \in Obj
          PROVE  /\ mem'[b] # <<>> => mem'[b][CountAt] = Count(b)' /\ Count(b)' # 0
                 /\ mem'[b] = <<>> => Count(b)' = 0
      <3>1. Count(b)' = IF b = o THEN n ELSE Count(b)
        BY DEF Count
      <3>2. CASE b = o
        BY <3>1, <3>2
      <3>3. CASE b # o
        BY <3>1, <3>3 DEF SharedInv, Counted
      <3> QED
        BY <3>2, <3>3
    <2> QED
      BY <2>1 DEF Counted, CountAt
  <1>3. Kept'
    BY DEF SharedInv, Kept
  <1> QED
    BY <1>1, <1>2, <1>3 DEF SharedInv

LEMMA MakeKeeps == ASSUME SharedInv, NEW p \in Ptr, NEW o \in Obj, Make(p, o) PROVE SharedInv'
  <1>0. /\ SharedTypes /\ DropsAtCount /\ to[p] = Null /\ o \in Obj \cup {Null} /\ Null \notin Obj
        /\ mem[o] = <<>> /\ DOMAIN mem = Obj
        /\ drop \in [PtrThread -> [obj : Obj \cup {Null}, class : {"base", "derived"}]]
    BY SharedAssumption DEF SharedInv, SharedTypes, SharedAssumption, Make
  <1>1. drop' = drop /\ DropOf' = DropOf /\ DropsAtCount'
    BY <1>0 DEF Make, DropsAtCount, DropOf
  <1>2. /\ to' \in [Ptr -> Obj \cup {Null}] /\ DOMAIN to' = Ptr
        /\ \A r \in Ptr : to'[r] = IF r = p THEN o ELSE to[r]
    BY <1>0 DEF SharedTypes, Make
  <1>3. ASSUME NEW b \in Obj
        PROVE  Cardinality(At(to', b)) + Cardinality(At(DropOf', b)) = IF b = o THEN 1 ELSE Count(b)
    <2>1. Cardinality(At(to', b)) = Cardinality(At(to, b)) - Is(to[p], b) + Is(o, b)
      BY <1>0, <1>2, Pointed
    <2>2. Is(to[p], b) = 0 /\ Is(o, b) = IF b = o THEN 1 ELSE 0
      BY <1>0 DEF Is
    <2>3. Cardinality(At(to, b)) \in Nat /\ Cardinality(At(DropOf, b)) \in Nat
      BY <1>0, CountBounds
    <2>4. Count(o) = 0
      BY <1>0 DEF SharedInv, Counted
    <2> QED
      BY <1>1, <2>1, <2>2, <2>3, <2>4 DEF Count
  <1> DEFINE new == [i \in 1..SizeOf["derived"] + 2 |->
                       IF i = RefAt("derived") THEN 1
                       ELSE IF i = SizeAt("derived") THEN SizeOf["derived"] + 2 ELSE Content]
  <1>4. SizeOf["derived"] \in Nat \ {0} /\ CountAt + 1 = SizeOf["derived"] + 2
    BY SharedAssumption DEF SharedAssumption, CountAt
  <1>5. /\ new \in [1..CountAt + 1 -> Nat] /\ new[CountAt] = 1
        /\ \A i \in 1..SizeOf["derived"] : new[i] = Content
    BY <1>4 DEF RefAt, SizeAt, CountAt, Content
  <1>6. new # <<>>
    <2>1. DOMAIN new = 1..CountAt + 1 /\ 1 \in 1..CountAt + 1
      BY <1>4 DEF CountAt
    <2>2. DOMAIN <<>> = {}
      OBVIOUS
    <2> HIDE DEF new
    <2> QED
      BY ONLY <2>1, <2>2
  <1>7. mem'[o] = new /\ DOMAIN mem' = Obj /\ \A b \in Obj \ {o} : mem'[b] = mem[b]
    BY <1>0 DEF Make
  <1> HIDE DEF new
  <1>8. /\ mem'[o] # <<>> /\ mem'[o] \in [1..CountAt + 1 -> Nat] /\ mem'[o][CountAt] = 1
        /\ \A i \in 1..SizeOf["derived"] : mem'[o][i] = Content
    BY <1>5, <1>6, <1>7
  <1>9. PICK n \in Nat : n = 1
    OBVIOUS
  <1>10. /\ n # 0 /\ mem'[o][CountAt] = n
         /\ drop' \in [PtrThread -> [obj : Obj \cup {Null}, class : {"base", "derived"}]]
         /\ \A b \in Obj : Cardinality(At(to', b)) + Cardinality(At(DropOf', b)) = IF b = o THEN n ELSE Count(b)
    BY <1>0, <1>1, <1>3, <1>8, <1>9
  <1> QED
    BY <1>1, <1>2, <1>7, <1>8, <1>10, OneCount

LEMMA CopyKeeps ==
    ASSUME SharedInv, OneLayout, FewReferences, NEW q \in Ptr, NEW p \in Ptr, Copy(q, p)
    PROVE  SharedInv'
  <1>0. /\ SharedTypes /\ Null \notin Obj /\ to[q] \in Obj \cup {Null}
        /\ Idle(p) /\ IF to[p] = Null THEN UNCHANGED drop ELSE Drops(p)
    BY SharedAssumption DEF SharedInv, SharedTypes, SharedAssumption, Copy
  <1>1. /\ drop' \in [PtrThread -> [obj : Obj \cup {Null}, class : {"base", "derived"}]]
        /\ DropsAtCount'
        /\ \A o \in Obj : Cardinality(At(DropOf', o)) = Cardinality(At(DropOf, o)) + Is(to[p], o)
    BY <1>0, GivenUp
  <1>2. /\ to' \in [Ptr -> Obj \cup {Null}] /\ DOMAIN to' = Ptr
        /\ \A r \in Ptr : to'[r] = IF r = p THEN to[q] ELSE to[r]
    BY <1>0 DEF SharedTypes, Copy
  <1>3. ASSUME NEW b \in Obj
        PROVE  /\ Cardinality(At(to', b)) + Cardinality(At(DropOf', b)) = Count(b) + Is(to[q], b)
               /\ Count(b) \in Nat
    <2>1. Cardinality(At(to', b)) = Cardinality(At(to, b)) - Is(to[p], b) + Is(to[q], b)
      BY <1>0, <1>2, Pointed
    <2>2. Cardinality(At(to, b)) \in Nat /\ Cardinality(At(DropOf, b)) \in Nat
      BY <1>0, CountBounds
    <2> QED
      BY <1>1, <2>1, <2>2 DEF Count, Is
  <1>4. CASE to[q] = Null
    <2>1. mem' = mem
      BY <1>4 DEF Copy
    <2>2. \A b \in Obj : Cardinality(At(to', b)) + Cardinality(At(DropOf', b)) = Count(b)
      BY <1>0, <1>3, <1>4 DEF Is
    <2> QED
      BY <1>1, <1>2, <2>1, <2>2, SameCounts
  <1>5. CASE to[q] # Null
    <2>1. PICK o \in Obj : o = to[q]
      BY <1>0, <1>5
    <2>2. \A b \in Obj : Cardinality(At(to', b)) + Cardinality(At(DropOf', b))
                           = IF b = o THEN Count(o) + 1 ELSE Count(b)
      BY <1>3, <2>1 DEF Is
    <2>3. Count(o) + 1 < Word /\ Count(o) \in Nat
      <3>1. DOMAIN to' = Ptr /\ DOMAIN DropOf' = PtrThread
        BY <1>2 DEF DropOf
      <3>2. Cardinality(At(to', o)) + Cardinality(At(DropOf', o)) < Word
        BY <3>1, Bounded
      <3> QED
        BY <1>3, <2>2, <3>2
    <2>4. mem' = Added(o, Class(p), 1)
      BY <1>5, <2>1 DEF Copy
    <2>5. RefAt(Class(p)) = CountAt
      BY SharedAssumption DEF Class, OneLayout, RefAt, CountAt, SharedAssumption
    <2>6. mem[o] # <<>>
      <3>1. References(o) # {}
        BY <1>0, <2>1 DEF References
      <3> QED
        BY <1>0, <3>1, CountBounds DEF SharedInv, Counted
    <2>7. /\ DOMAIN mem' = Obj /\ \A b \in Obj \ {o} : mem'[b] = mem[b]
          /\ mem'[o] # <<>> /\ mem'[o] \in [1..CountAt + 1 -> Nat]
          /\ mem'[o][CountAt] = (Count(o) + 1) % Word
          /\ \A i \in 1..SizeOf["derived"] : mem'[o][i] = mem[o][i]
      BY <2>4, <2>5, <2>6, Recounted
    <2>8. (Count(o) + 1) % Word = Count(o) + 1
      BY <2>3, ModSmall, SharedAssumption DEF SharedAssumption
    <2>9. \A i \in 1..SizeOf["derived"] : mem'[o][i] = Content
      BY <2>6, <2>7 DEF SharedInv, Kept
    <2> DEFINE n == Count(o) + 1
    <2>10. /\ n \in Nat /\ n # 0 /\ mem'[o][CountAt] = n
           /\ \A b \in Obj : Cardinality(At(to', b)) + Cardinality(At(DropOf', b)) = IF b = o THEN n ELSE Count(b)
      BY <2>2, <2>3, <2>7, <2>8
    <2> HIDE DEF n
    <2> QED
      BY <1>1, <1>2, <2>7, <2>9, <2>10, OneCount
  <1> QED
    BY <1>4, <1>5

LEMMA DropKeeps ==
    ASSUME SharedInv, FewReferences, NEW t \in PtrThread, Dropped(t)
    PROVE  SharedInv'
  <1>0. PICK o \in Obj : o = drop[t].obj
    BY DEF Dropped, SharedInv, SharedTypes
  <1>1. /\ SharedTypes /\ Null \notin Obj /\ o # Null
        /\ to' = to /\ to \in [Ptr -> Obj \cup {Null}]
        /\ RefAt(drop[t].class) = CountAt
    BY <1>0, SharedAssumption DEF SharedInv, SharedTypes, SharedAssumption, Dropped, DropsAtCount
  <1>2. /\ drop' = [drop EXCEPT ![t] = NoDrop]
        /\ NoDrop \in [obj : Obj \cup {Null}, class : {"base", "derived"}] /\ NoDrop.obj = Null
    BY DEF Dropped, NoDrop
  <1>3. /\ drop' \in [PtrThread -> [obj : Obj \cup {Null}, class : {"base", "derived"}]]
        /\ DropsAtCount'
    BY <1>1, <1>2 DEF SharedTypes, SharedInv, DropsAtCount, RefAt, CountAt
  <1>4. /\ DOMAIN DropOf = PtrThread /\ DOMAIN DropOf' = PtrThread /\ DropOf[t] = o
        /\ \A u \in PtrThread : DropOf'[u] = IF u = t THEN Null ELSE DropOf[u]
    BY <1>0, <1>1, <1>2 DEF SharedTypes, DropOf
  <1>5. ASSUME NEW b \in Obj
        PROVE  /\ Cardinality(At(DropOf', b)) = Cardinality(At(DropOf, b)) - Is(o, b)
               /\ Cardinality(At(to, b)) \in Nat /\ Cardinality(At(DropOf, b)) \in Nat
    <2>1. Cardinality(At(DropOf', b)) = Cardinality(At(DropOf, b)) - Is(DropOf[t], b) + Is(Null, b)
      BY <1>4, OtherDrop
    <2>2. Cardinality(At(to, b)) \in Nat /\ Cardinality(At(DropOf, b)) \in Nat /\ Is(Null, b) = 0
      BY <1>1, CountBounds DEF Is
    <2> QED
      BY <1>4, <2>1, <2>2 DEF Is
  <1>6. Cardinality(At(DropOf', o)) \in Nat
    <2>1. At(DropOf', o) \subseteq PtrThread
      BY <1>4 DEF At
    <2> QED
      BY <2>1, Finite, FS_Subset, FS_CardinalityType
  <1> DEFINE n == Count(o) - 1
  <1>7. /\ n \in Nat /\ n < Word /\ Count(o) # 0 /\ Count(o) = n + 1
    <2>1. Cardinality(At(to, o)) + Cardinality(At(DropOf, o)) < Word
      BY <1>1, <1>4, Bounded
    <2> QED
      BY <1>5, <1>6, <2>1, SharedAssumption DEF Count, Is, SharedAssumption
  <1>8. \A b \in Obj : Cardinality(At(to', b)) + Cardinality(At(DropOf', b)) = IF b = o THEN n ELSE Count(b)
    BY <1>1, <1>5 DEF Count, Is
  <1>9. mem[o] # <<>>
    BY <1>7 DEF SharedInv, Counted
  <1> DEFINE m == Added(o, drop[t].class, Word - 1)
  <1>10. Word - 1 \in Nat
    BY SharedAssumption DEF SharedAssumption
  <1>11. /\ DOMAIN m = Obj /\ \A b \in Obj \ {o} : m[b] = mem[b]
         /\ m[o] # <<>> /\ m[o] \in [1..CountAt + 1 -> Nat]
         /\ m[o][CountAt] = (Count(o) + (Word - 1)) % Word
         /\ \A i \in 1..SizeOf["derived"] : m[o][i] = mem[o][i]
    BY <1>1, <1>9, <1>10, Recounted
  <1>12. m[o][CountAt] = n
    <2>1. Count(o) + (Word - 1) = n + Word
      BY <1>7, SharedAssumption DEF SharedAssumption
    <2>2. (n + Word) % Word = n
      BY <1>7, ModOver, SharedAssumption DEF SharedAssumption
    <2> HIDE DEF n, m
    <2> QED
      BY <1>11, <2>1, <2>2
  <1>13. mem' = IF m[o][CountAt] = 0 THEN [m EXCEPT ![o] = <<>>] ELSE m
    BY <1>0, <1>1 DEF Dropped
  <1>14. \A i \in 1..SizeOf["derived"] : m[o][i] = Content
    BY <1>9, <1>11 DEF SharedInv, Kept
  <1> HIDE DEF n, m
  <1>15. CASE n = 0
    <2>1. DOMAIN mem' = Obj /\ \A b \in Obj \ {o} : mem'[b] = mem[b]
      BY <1>11, <1>12, <1>13, <1>15
    <2>2. mem'[o] = <<>>
      BY <1>11, <1>12, <1>13, <1>15
    <2> QED
      BY <1>1, <1>3, <1>7, <1>8, <1>15, <2>1, <2>2, OneCount
  <1>16. CASE n # 0
    <2>1. mem' = m
      BY <1>12, <1>13, <1>16
    <2> QED
      BY <1>1, <1>3, <1>7, <1>8, <1>11, <1>12, <1>14, <1>16, <2>1, OneCount
  <1> QED
    BY <1>15, <1>16

LEMMA SharedAtFirst == SharedInit => SharedInv
  <1> SUFFICES ASSUME SharedInit PROVE SharedInv
    OBVIOUS
  <1>1. SharedTypes /\ Kept /\ DropsAtCount
    BY DEF SharedInit, SharedTypes, Kept, DropsAtCount, NoDrop
  <1>2. \A o \in Obj : References(o) = {}
    BY SharedAssumption DEF SharedInit, References, NoDrop, SharedAssumption
  <1>3. Counted
    BY <1>1, <1>2, CountBounds DEF SharedInit, Counted
  <1> QED
    BY <1>1, <1>3 DEF SharedInv

LEMMA SharedKept == OneLayout /\ FewReferences /\ SharedInv /\ [SharedNext]_sharedVars => SharedInv'
  <1> SUFFICES ASSUME OneLayout, FewReferences, SharedInv, [SharedNext]_sharedVars PROVE SharedInv'
    OBVIOUS
  <1>1. ASSUME NEW p \in Ptr, Reset(p) \/ \E q \in Ptr : Move(q, p) \/ Swap(q, p) PROVE SharedInv'
    BY <1>1, MoveKeeps
  <1>2. ASSUME NEW p \in Ptr, NEW q \in Ptr, Copy(q, p) PROVE SharedInv'
    BY <1>2, CopyKeeps
  <1>3. ASSUME NEW p \in Ptr, NEW o \in Obj, Make(p, o) PROVE SharedInv'
    BY <1>3, MakeKeeps
  <1>4. ASSUME NEW t \in PtrThread, Dropped(t) PROVE SharedInv'
    BY <1>4, DropKeeps
  <1>5. CASE UNCHANGED sharedVars
    <2>1. to' = to /\ mem' = mem /\ drop' = drop /\ DropOf' = DropOf
      BY <1>5 DEF sharedVars, DropOf
    <2>2. SharedTypes' /\ Kept' /\ DropsAtCount' /\ Counted'
      BY <2>1 DEF SharedInv, SharedTypes, Kept, DropsAtCount, Counted, Count
    <2> QED
      BY <2>2 DEF SharedInv
  <1> QED
    BY <1>1, <1>2, <1>3, <1>4, <1>5 DEF SharedNext

\* As long as pointers to the base class find the count where the others do, and
\* the count does not overflow, an object exists, unchanged, exactly as long as
\* there are references to it, whatever pointers and threads have them.
THEOREM ObjectsAreOwned == OneLayout /\ FewReferences => (SharedSpec => []SharedOwnership)
  <1> SUFFICES ASSUME OneLayout, FewReferences PROVE SharedSpec => []SharedOwnership
    OBVIOUS
  <1>1. SharedInit => SharedInv
    BY SharedAtFirst
  <1>2. SharedInv /\ [SharedNext]_sharedVars => SharedInv'
    BY SharedKept
  <1>3. SharedInv => SharedOwnership
    BY CountedIsOwned
  <1> QED
    BY <1>1, <1>2, <1>3, PTL DEF SharedSpec

-----------------------------------------------------------------------------
(***************************************************************************)
(* Shared stacks, for any number of coroutines, stacks and buffers and any *)
(* assignment of stacks to coroutines.                                     *)
(***************************************************************************)
StackInv == StackTypes /\ OwnerIsLive /\ BuffersHaveOneHolder /\ FrameIntegrity

LEMMA StackInitInv == StackInit => StackInv
BY StackAssumption DEF StackInit, StackInv, StackTypes, OwnerIsLive, BuffersHaveOneHolder, FrameIntegrity, Frame

\* save_stack(o) puts the frames on o's stack into a buffer that no other
\* coroutine holds, and leaves the buffers of the others alone.
LEMMA SaveStackCopies ==
    ASSUME StackTypes, BuffersHaveOneHolder, NEW o \in Co, SaveStack(o)
    PROVE  \E b \in Buf :
              /\ buf' = [buf EXCEPT ![o] = b]
              /\ data' = [data EXCEPT ![b] = frames[StackOf[o]]]
              /\ bufs' = bufs \ {b}
              /\ \A d \in Co : d # o => buf[d] # b
<1>1. PICK b \in BufferFor(o) :
         /\ buf' = [buf EXCEPT ![o] = b]
         /\ data' = [data EXCEPT ![b] = frames[StackOf[o]]]
         /\ bufs' = bufs \ {b}
  BY StackAssumption DEF SaveStack
<1>2. b \in Buf /\ \A d \in Co : d # o => buf[d] # b
  <2>1. CASE buf[o] # NoBuf
    BY <1>1, <2>1 DEF BufferFor, StackTypes, BuffersHaveOneHolder
  <2>2. CASE buf[o] = NoBuf /\ bufs # {}
    BY <1>1, <2>2 DEF BufferFor, StackTypes, BuffersHaveOneHolder
  <2>3. CASE buf[o] = NoBuf /\ bufs = {}
    BY <1>1, <2>3 DEF BufferFor, Unused
  <2> QED
    BY <2>1, <2>2, <2>3
<1> QED
  BY <1>1, <1>2

\* Taking the stack of c from its owner, if another has it, keeps the frames
\* of every suspended coroutine: what both kinds of resume begin with.
TakeStack(c) ==
    IF owner[StackOf[c]] = c
    THEN UNCHANGED <<buf, data, bufs>>
    ELSE SaveStack(owner[StackOf[c]])

LEMMA TakeStackKeepsFrames ==
    ASSUME StackInv, NEW c \in Co, TakeStack(c), NobodyRuns
    PROVE  /\ buf' \in [Co -> Buf \cup {NoBuf}] /\ data' \in [Buf -> Frame] /\ bufs' \subseteq Buf
           /\ \A d, e \in Co : buf'[d] = buf'[e] /\ buf'[d] # NoBuf => d = e
           /\ \A d \in Co : buf'[d] \notin bufs'
           /\ \A d \in Co : life[d] \in {"free", "new"} => buf'[d] = NoBuf
           /\ \A d \in Co : d # c /\ life[d] = "suspended" =>
                 IF owner[StackOf[d]] = d /\ StackOf[d] # StackOf[c]
                 THEN frames[StackOf[d]] = FrameOf(d)
                 ELSE buf'[d] # NoBuf /\ data'[buf'[d]] = FrameOf(d)
<1> DEFINE o == owner[StackOf[c]]
<1> USE StackAssumption DEF StackInv, StackTypes, OwnerIsLive, BuffersHaveOneHolder, FrameIntegrity, NobodyRuns
<1>1. CASE o = c \/ o = NoCo
  <2>1. UNCHANGED <<buf, data, bufs>>
    BY <1>1 DEF TakeStack, SaveStack
  <2>2. \A d \in Co : d # c /\ StackOf[d] = StackOf[c] => owner[StackOf[d]] # d
    BY <1>1
  <2> QED
    BY <2>1, <2>2
<1>2. CASE o # c /\ o # NoCo
  <2>1. o \in Co /\ SaveStack(o) /\ life[o] = "suspended" /\ StackOf[o] = StackOf[c]
    BY <1>2 DEF TakeStack
  <2>2. PICK b \in Buf :
           /\ buf' = [buf EXCEPT ![o] = b]
           /\ data' = [data EXCEPT ![b] = frames[StackOf[o]]]
           /\ bufs' = bufs \ {b}
           /\ \A d \in Co : d # o => buf[d] # b
    BY <2>1, SaveStackCopies
  <2>3. data'[b] = FrameOf(o) /\ buf'[o] = b
    BY <2>1, <2>2
  <2>4. ASSUME NEW d \in Co, d # c, life[d] = "suspended"
        PROVE  IF owner[StackOf[d]] = d /\ StackOf[d] # StackOf[c]
               THEN frames[StackOf[d]] = FrameOf(d)
               ELSE buf'[d] # NoBuf /\ data'[buf'[d]] = FrameOf(d)
    <3>1. CASE d = o
      BY <2>1, <2>3, <3>1
    <3>2. CASE d # o
      BY <2>1, <2>2, <2>4, <3>2
    <3> QED
      BY <3>1, <3>2
  <2>5. /\ buf' \in [Co -> Buf \cup {NoBuf}] /\ data' \in [Buf -> Frame] /\ bufs' \subseteq Buf
        /\ \A d, e \in Co : buf'[d] = buf'[e] /\ buf'[d] # NoBuf => d = e
        /\ \A d \in Co : buf'[d] \notin bufs'
        /\ \A d \in Co : life[d] \in {"free", "new"} => buf'[d] = NoBuf
    BY <2>1, <2>2
  <2> QED
    BY <2>4, <2>5
<1> QED
  BY <1>1, <1>2

LEMMA NewInv == ASSUME StackInv, NEW c \in Co, NewCoroutine(c) PROVE StackInv'
BY StackAssumption DEF StackInv, StackTypes, OwnerIsLive, BuffersHaveOneHolder, FrameIntegrity, FrameOf, NewCoroutine

LEMMA ResumeNewInv == ASSUME StackInv, NEW c \in Co, ResumeNew(c) PROVE StackInv'
<1> USE StackAssumption DEF ResumeNew
<1>1. TakeStack(c) /\ NobodyRuns
  BY DEF TakeStack
<1>2. life' \in [Co -> {"free", "new", "running", "suspended"}] /\ owner' \in [Stack -> Co \cup {NoCo}]
      /\ frames' \in [Stack -> Frame] /\ runs' \in [Co -> Nat]
  BY DEF StackInv, StackTypes, Frame
<1>3. StackTypes'
  BY <1>1, <1>2, TakeStackKeepsFrames DEF StackTypes
<1>4. OwnerIsLive'
  <2>1. /\ owner' = [owner EXCEPT ![StackOf[c]] = c]
        /\ life' = [life EXCEPT ![c] = "running"]
        /\ \A d \in Co : life[d] # "running"
        /\ \A s \in Stack : owner[s] # NoCo =>
              StackOf[owner[s]] = s /\ life[owner[s]] \in {"running", "suspended"}
    BY DEF StackInv, OwnerIsLive, NobodyRuns
  <2>2. /\ StackOf \in [Co -> Stack] /\ NoCo \notin Co
        /\ owner \in [Stack -> Co \cup {NoCo}] /\ life \in [Co -> {"free", "new", "running", "suspended"}]
    BY DEF StackInv, StackTypes
  <2> HIDE DEF ResumeNew
  <2>3. \A d \in Co : life'[d] = "running" => d = c
    BY <2>1, <2>2
  <2>4. owner'[StackOf[c]] = c
    BY <2>1, <2>2
  <2>5. ASSUME NEW s \in Stack, owner'[s] # NoCo
        PROVE  StackOf[owner'[s]] = s /\ life'[owner'[s]] \in {"running", "suspended"}
    BY <2>1, <2>2, <2>5
  <2>6. QED
    BY <2>3, <2>4, <2>5 DEF OwnerIsLive
<1>5. BuffersHaveOneHolder'
  BY <1>1, TakeStackKeepsFrames DEF BuffersHaveOneHolder, StackInv, StackTypes
<1>6. FrameIntegrity'
  <2> SUFFICES ASSUME NEW d \in Co
               PROVE  /\ life'[d] = "running" => frames'[StackOf[d]] = FrameOf(d)'
                      /\ life'[d] = "suspended" =>
                            IF owner'[StackOf[d]] = d
                            THEN frames'[StackOf[d]] = FrameOf(d)'
                            ELSE buf'[d] # NoBuf /\ data'[buf'[d]] = FrameOf(d)'
    BY DEF FrameIntegrity
  <2>1. CASE d = c
    BY <2>1 DEF StackInv, StackTypes, FrameOf
  <2>2. CASE d # c
    <3>1. life'[d] = life[d] /\ life[d] # "running" /\ FrameOf(d)' = FrameOf(d)
      BY <1>1, <2>2 DEF StackInv, StackTypes, NobodyRuns, FrameOf
    <3>2. life[d] = "suspended" =>
             IF owner[StackOf[d]] = d /\ StackOf[d] # StackOf[c]
             THEN frames[StackOf[d]] = FrameOf(d)
             ELSE buf'[d] # NoBuf /\ data'[buf'[d]] = FrameOf(d)
      BY <1>1, <2>2, TakeStackKeepsFrames
    <3>3. /\ owner'[StackOf[d]] = d <=> owner[StackOf[d]] = d /\ StackOf[d] # StackOf[c]
          /\ StackOf[d] # StackOf[c] => frames'[StackOf[d]] = frames[StackOf[d]]
      BY <2>2 DEF StackInv, StackTypes
    <3> QED
      BY <3>1, <3>2, <3>3
  <2> QED
    BY <2>1, <2>2
<1> QED
  BY <1>3, <1>4, <1>5, <1>6 DEF StackInv

LEMMA ResumeSuspendedInv == ASSUME StackInv, NEW c \in Co, ResumeSuspended(c) PROVE StackInv'
<1> USE StackAssumption DEF ResumeSuspended
<1>1. TakeStack(c) /\ NobodyRuns
  BY DEF TakeStack
<1>2. frames' \in [Stack -> Frame] /\ frames'[StackOf[c]] = FrameOf(c)
      /\ \A s \in Stack : s # StackOf[c] => frames'[s] = frames[s]
  <2>1. CASE owner[StackOf[c]] = c
    BY <2>1 DEF StackInv, StackTypes, FrameIntegrity
  <2>2. CASE owner[StackOf[c]] # c
    <3>1. buf[c] \in Buf /\ data[buf[c]] = FrameOf(c) /\ data[buf[c]] \in Frame
      BY <2>2 DEF StackInv, StackTypes, FrameIntegrity
    <3> QED
      BY <2>2, <3>1 DEF StackInv, StackTypes
  <2> QED
    BY <2>1, <2>2
<1>3. StackTypes'
  BY <1>1, <1>2, TakeStackKeepsFrames DEF StackInv, StackTypes
<1>4. OwnerIsLive'
  <2>1. /\ owner' = [owner EXCEPT ![StackOf[c]] = c]
        /\ life' = [life EXCEPT ![c] = "running"]
        /\ \A d \in Co : life[d] # "running"
        /\ \A s \in Stack : owner[s] # NoCo =>
              StackOf[owner[s]] = s /\ life[owner[s]] \in {"running", "suspended"}
    BY DEF StackInv, OwnerIsLive, NobodyRuns
  <2>2. /\ StackOf \in [Co -> Stack] /\ NoCo \notin Co
        /\ owner \in [Stack -> Co \cup {NoCo}] /\ life \in [Co -> {"free", "new", "running", "suspended"}]
    BY DEF StackInv, StackTypes
  <2> HIDE DEF ResumeSuspended
  <2>3. \A d \in Co : life'[d] = "running" => d = c
    BY <2>1, <2>2
  <2>4. owner'[StackOf[c]] = c
    BY <2>1, <2>2
  <2>5. ASSUME NEW s \in Stack, owner'[s] # NoCo
        PROVE  StackOf[owner'[s]] = s /\ life'[owner'[s]] \in {"running", "suspended"}
    BY <2>1, <2>2, <2>5
  <2>6. QED
    BY <2>3, <2>4, <2>5 DEF OwnerIsLive
<1>5. BuffersHaveOneHolder'
  BY <1>1, TakeStackKeepsFrames DEF BuffersHaveOneHolder, StackInv, StackTypes
<1>6. FrameIntegrity'
  <2> SUFFICES ASSUME NEW d \in Co
               PROVE  /\ life'[d] = "running" => frames'[StackOf[d]] = FrameOf(d)'
                      /\ life'[d] = "suspended" =>
                            IF owner'[StackOf[d]] = d
                            THEN frames'[StackOf[d]] = FrameOf(d)'
                            ELSE buf'[d] # NoBuf /\ data'[buf'[d]] = FrameOf(d)'
    BY DEF FrameIntegrity
  <2>1. CASE d = c
    BY <1>2, <2>1 DEF StackInv, StackTypes, FrameOf
  <2>2. CASE d # c
    <3>1. life'[d] = life[d] /\ life[d] # "running" /\ FrameOf(d)' = FrameOf(d)
      BY <1>1, <2>2 DEF StackInv, StackTypes, NobodyRuns, FrameOf
    <3>2. life[d] = "suspended" =>
             IF owner[StackOf[d]] = d /\ StackOf[d] # StackOf[c]
             THEN frames[StackOf[d]] = FrameOf(d)
             ELSE buf'[d] # NoBuf /\ data'[buf'[d]] = FrameOf(d)
      BY <1>1, <2>2, TakeStackKeepsFrames
    <3>3. /\ owner'[StackOf[d]] = d <=> owner[StackOf[d]] = d /\ StackOf[d] # StackOf[c]
          /\ StackOf[d] # StackOf[c] => frames'[StackOf[d]] = frames[StackOf[d]]
      BY <1>2, <2>2 DEF StackInv, StackTypes
    <3> QED
      BY <3>1, <3>2, <3>3
  <2> QED
    BY <2>1, <2>2
<1> QED
  BY <1>3, <1>4, <1>5, <1>6 DEF StackInv

LEMMA YieldInv == ASSUME StackInv, NEW c \in Co, Yield(c) PROVE StackInv'
<1> USE StackAssumption DEF StackInv, StackTypes, Yield
<1>1. StackTypes'
  <2>1. runs[c] + 1 \in Nat /\ [co |-> c, run |-> runs[c] + 1] \in Frame
    BY DEF Frame
  <2> QED
    BY <2>1
<1>2. OwnerIsLive' /\ BuffersHaveOneHolder'
  BY DEF OwnerIsLive, BuffersHaveOneHolder
<1>3. FrameIntegrity'
  <2>1. owner[StackOf[c]] = c /\ frames'[StackOf[c]] = FrameOf(c)' /\ owner'[StackOf[c]] = c
    BY DEF OwnerIsLive, FrameOf
  <2>2. ASSUME NEW d \in Co, d # c
        PROVE  /\ FrameOf(d)' = FrameOf(d) /\ life'[d] = life[d]
               /\ owner[StackOf[d]] = d => frames'[StackOf[d]] = frames[StackOf[d]]
               /\ life[d] # "running"
    BY <2>1, <2>2 DEF OwnerIsLive, FrameOf
  <2> QED
    BY <2>1, <2>2 DEF FrameIntegrity
<1> QED
  BY <1>1, <1>2, <1>3

LEMMA ReturnInv == ASSUME StackInv, NEW c \in Co, Return(c) PROVE StackInv'
<1> USE StackAssumption DEF StackInv, StackTypes, Return
<1>1. bufs' = bufs \/ (buf[c] # NoBuf /\ bufs' = bufs \cup {buf[c]})
  OBVIOUS
<1>2. StackTypes'
  BY <1>1
<1>3. OwnerIsLive'
  BY DEF OwnerIsLive
<1>4. BuffersHaveOneHolder'
  BY <1>1 DEF BuffersHaveOneHolder
<1>5. FrameIntegrity'
  BY DEF OwnerIsLive, FrameIntegrity, FrameOf
<1> QED
  BY <1>2, <1>3, <1>4, <1>5

LEMMA StackNextInv == ASSUME StackInv, [StackNext]_stackVars PROVE StackInv'
<1>1. CASE StackNext
  BY <1>1, NewInv, ResumeNewInv, ResumeSuspendedInv, YieldInv, ReturnInv DEF StackNext
<1>2. CASE UNCHANGED stackVars
  BY <1>2 DEF StackInv, stackVars, StackTypes, OwnerIsLive, BuffersHaveOneHolder, FrameIntegrity, FrameOf
<1> QED
  BY <1>1, <1>2

\* The frames of a coroutine survive every sharing of its stack and every
\* reuse of its buffer.
THEOREM FramesAreKept == StackSpec => [](FrameIntegrity /\ OwnerIsLive /\ BuffersHaveOneHolder /\ StackTypes)
<1>1. StackInv /\ [StackNext]_stackVars => StackInv'
  BY StackNextInv
<1>2. StackInv => FrameIntegrity /\ OwnerIsLive /\ BuffersHaveOneHolder /\ StackTypes
  BY DEF StackInv
<1> QED
  BY StackInitInv, <1>1, <1>2, PTL DEF StackSpec

(***************************************************************************)
(* Refinement.  Where FrameIntegrity holds, the frame that the code keeps  *)
(* of a live coroutine is the one it left.                                 *)
(***************************************************************************)
LiveFrame == [c \in Co |-> IF life[c] \in {"running", "suspended"} THEN runs[c] ELSE NoFrame]

LEMMA FramesRead == ASSUME StackInv PROVE PrivateFrame = LiveFrame
<1>1. ASSUME NEW c \in Co, life[c] \in {"running", "suspended"}
      PROVE  FrameAt(c) = FrameOf(c)
  BY <1>1 DEF StackInv, OwnerIsLive, FrameIntegrity, FrameAt
<1>2. \A c \in Co : FrameOf(c).run = runs[c] /\ runs[c] \in Nat /\ FrameOf(c).run # NoFrame
  BY StackAssumption DEF FrameOf, StackInv, StackTypes
<1>3. ASSUME NEW c \in Co, life[c] \in {"running", "suspended"}
      PROVE  FrameAt(c) # NoFrame
  BY <1>1, <1>3, StackAssumption DEF FrameOf, StackInv, StackTypes
<1> QED
  BY <1>1, <1>2, <1>3 DEF PrivateFrame, LiveFrame

LEMMA RunningRead ==
    ASSUME StackInv
    PROVE  /\ NobodyRuns => RunningCo = NoCo
           /\ \A c \in Co : life[c] = "running" => RunningCo = c
BY DEF StackInv, OwnerIsLive, NobodyRuns, RunningCo

Reading ==
    /\ PrivateFrame = LiveFrame
    /\ NobodyRuns => RunningCo = NoCo
    /\ \A c \in Co : life[c] = "running" => RunningCo = c

LEMMA Readings == StackInv => Reading
BY FramesRead, RunningRead DEF Reading

LEMMA PrivateInit == StackInit => Private!Init
<1> SUFFICES ASSUME StackInit PROVE Private!Init
  OBVIOUS
<1>1. StackInv
  BY StackInitInv
<1>2. RunningCo = NoCo
  BY <1>1, RunningRead DEF StackInit, NobodyRuns
<1>3. PrivateFrame = [c \in Co |-> NoFrame]
  BY <1>1, FramesRead DEF StackInit, LiveFrame
<1> QED
  BY <1>2, <1>3 DEF Private!Init

LEMMA PrivateStep ==
    ASSUME StackInv, StackInv', [StackNext]_stackVars
    PROVE  [Private!Next]_<<RunningCo, PrivateFrame>>
<1>1. /\ PrivateFrame = LiveFrame /\ PrivateFrame' = LiveFrame'
      /\ NobodyRuns => RunningCo = NoCo
      /\ NobodyRuns' => RunningCo' = NoCo
      /\ \A c \in Co : life[c] = "running" => RunningCo = c
      /\ \A c \in Co : life'[c] = "running" => RunningCo' = c
  <2>1. StackInv' => Reading'
    BY Readings, PTL
  <2> QED
    BY <2>1, Readings DEF Reading
<1>2. CASE UNCHANGED stackVars
  BY <1>2 DEF stackVars, RunningCo, NobodyRuns, PrivateFrame, FrameAt
<1>3. ASSUME NEW c \in Co, NewCoroutine(c) PROVE UNCHANGED <<RunningCo, PrivateFrame>>
  <2>1. LiveFrame' = LiveFrame
    BY <1>3 DEF NewCoroutine, LiveFrame, StackInv, StackTypes
  <2>2. RunningCo' = RunningCo
    <3>1. \A d \in Co : life'[d] = "running" <=> life[d] = "running"
      BY <1>3 DEF NewCoroutine, StackInv, StackTypes
    <3>2. CASE NobodyRuns
      BY <1>1, <3>1, <3>2 DEF NobodyRuns
    <3>3. CASE ~NobodyRuns
      BY <1>1, <3>1, <3>3 DEF NobodyRuns
    <3> QED
      BY <3>2, <3>3
  <2> QED
    BY <1>1, <2>1, <2>2
<1>4. ASSUME NEW c \in Co, ResumeNew(c) PROVE Private!Start(c)
  <2>1. LiveFrame[c] = NoFrame /\ LiveFrame' = [LiveFrame EXCEPT ![c] = 0]
    BY <1>4 DEF ResumeNew, LiveFrame, StackInv, StackTypes
  <2>2. RunningCo = NoCo /\ RunningCo' = c
    BY <1>1, <1>4 DEF ResumeNew, StackInv, StackTypes
  <2> QED
    BY <1>1, <2>1, <2>2 DEF Private!Start
<1>5. ASSUME NEW c \in Co, ResumeSuspended(c) PROVE Private!Resume(c)
  <2>1. LiveFrame[c] # NoFrame /\ LiveFrame' = LiveFrame
    BY <1>5, StackAssumption DEF ResumeSuspended, LiveFrame, StackInv, StackTypes
  <2>2. RunningCo = NoCo /\ RunningCo' = c
    BY <1>1, <1>5 DEF ResumeSuspended, StackInv, StackTypes
  <2> QED
    BY <1>1, <2>1, <2>2 DEF Private!Resume
<1>6. ASSUME NEW c \in Co, Yield(c) PROVE Private!Yield(c)
  <2>1. LiveFrame' = [LiveFrame EXCEPT ![c] = @ + 1]
    BY <1>6 DEF Yield, LiveFrame, StackInv, StackTypes
  <2>2. RunningCo = c /\ RunningCo' = NoCo
    BY <1>1, <1>6 DEF Yield, StackInv, StackTypes, OwnerIsLive, NobodyRuns
  <2> QED
    BY <1>1, <2>1, <2>2 DEF Private!Yield
<1>7. ASSUME NEW c \in Co, Return(c) PROVE Private!Return(c)
  <2>1. LiveFrame' = [LiveFrame EXCEPT ![c] = NoFrame]
    BY <1>7 DEF Return, LiveFrame, StackInv, StackTypes
  <2>2. RunningCo = c /\ RunningCo' = NoCo
    BY <1>1, <1>7 DEF Return, StackInv, StackTypes, OwnerIsLive, NobodyRuns
  <2> QED
    BY <1>1, <2>1, <2>2 DEF Private!Return
<1> QED
  BY <1>2, <1>3, <1>4, <1>5, <1>6, <1>7 DEF StackNext, Private!Next

\* Sharing stacks is invisible: SharedStack implements PrivateStacks.
THEOREM ImplementsPrivateStacks == StackSpec => SharingIsInvisible
<1>1. StackInv /\ [StackNext]_stackVars => StackInv'
  BY StackNextInv
<1>2. StackInv /\ StackInv' /\ [StackNext]_stackVars => [Private!Next]_<<RunningCo, PrivateFrame>>
  BY PrivateStep
<1> QED
  BY StackInitInv, PrivateInit, <1>1, <1>2, PTL DEF StackSpec, SharingIsInvisible, Private!Spec

-----------------------------------------------------------------------------
(***************************************************************************)
(* The blocks of the allocator are accounted for, for any number of        *)
(* threads, of blocks and of their units, and however many blocks a search *)
(* tries.  BlocksAccounted is not inductive: it lacks that the bits of a   *)
(* block lie below _bit and its objects between them, that a large block   *)
(* whose bit is set is in some list, and that a block knows its thread.    *)
(*                                                                         *)
(* First, lists of blocks: what a search, push_front() and erase() leave.  *)
(***************************************************************************)
\* The first of a set of units or slots: a bitmap is searched from its end.
LEMMA LowestIs ==
    ASSUME NEW S \in SUBSET Nat, S # {}
    PROVE  Lowest(S) \in S /\ \A j \in S : Lowest(S) <= j
<1>1. PICK i \in S : \A j \in S : ~(<<j, i>> \in OpToRel(<, Nat))
  BY NatLessThanWellFounded, WFMin
<1>2. \A j \in S : i <= j
  <2> TAKE j \in S
  <2>1. i \in Nat /\ j \in Nat
    OBVIOUS
  <2>2. j < i => <<j, i>> \in OpToRel(<, Nat)
    BY <2>1 DEF OpToRel
  <2>3. ~(j < i)
    BY <1>1, <2>2
  <2> QED
    BY ONLY <2>1, <2>3
<1> QED
  BY <1>2 DEF Lowest

\* What a list holds, by its places.
LEMMA RangeIs ==
    ASSUME NEW S, NEW l \in Seq(S)
    PROVE  /\ \A z : z \in Range(l) <=> \E i \in 1..Len(l) : l[i] = z
           /\ IsInjective(l) <=> \A i, j \in 1..Len(l) : l[i] = l[j] => i = j
           /\ Range(l) \subseteq S
<1>1. DOMAIN l = 1..Len(l) /\ \A i \in 1..Len(l) : l[i] \in S
  OBVIOUS
<1>2. \A z : z \in Range(l) <=> \E i \in 1..Len(l) : l[i] = z
  BY <1>1 DEF Range
<1>3. IsInjective(l) <=> \A i, j \in 1..Len(l) : l[i] = l[j] => i = j
  BY <1>1 DEF IsInjective
<1> QED
  BY <1>1, <1>2, <1>3

\* A list whose places are those of another one, in another order.
LEMMA Permuted ==
    ASSUME NEW S, NEW l \in Seq(S), NEW m, NEW p, m \in Seq(S), Len(m) = Len(l),
           p \in [1..Len(l) -> 1..Len(l)],
           \A i \in 1..Len(l) : m[i] = l[p[i]],
           \A i, j \in 1..Len(l) : p[i] = p[j] => i = j,
           \A j \in 1..Len(l) : \E i \in 1..Len(l) : p[i] = j,
           IsInjective(l)
    PROVE  IsInjective(m) /\ \A z : z \in Range(m) <=> z \in Range(l)
<1>1. IsInjective(m)
  <2> SUFFICES ASSUME NEW i \in 1..Len(l), NEW j \in 1..Len(l), m[i] = m[j] PROVE i = j
    BY RangeIs
  <2>1. p[i] = p[j]
    <3>1. PICK a, b \in 1..Len(l) : a = p[i] /\ b = p[j]
      OBVIOUS
    <3>2. l[a] = l[b]
      BY <3>1
    <3>3. \A g, h \in 1..Len(l) : l[g] = l[h] => g = h
      BY RangeIs
    <3> QED
      BY ONLY <3>1, <3>2, <3>3
  <2> QED
    BY <2>1
<1>2. ASSUME NEW z, z \in Range(m) PROVE z \in Range(l)
  <2>1. PICK i \in 1..Len(l) : m[i] = z
    BY <1>2, RangeIs
  <2>2. p[i] \in 1..Len(l) /\ l[p[i]] = z
    BY <2>1
  <2> QED
    BY <2>2, RangeIs
<1>3. ASSUME NEW z, z \in Range(l) PROVE z \in Range(m)
  <2>1. PICK j \in 1..Len(l) : l[j] = z
    BY <1>3, RangeIs
  <2>2. PICK i \in 1..Len(l) : p[i] = j
    OBVIOUS
  <2> QED
    BY <2>1, <2>2, RangeIs
<1> QED
  BY <1>1, <1>2, <1>3

\* RemoveAt, place by place.
LEMMA RemovedAt ==
    ASSUME NEW S, NEW l \in Seq(S), NEW k \in 1..Len(l)
    PROVE  LET m == RemoveAt(l, k) IN
           /\ m \in Seq(S) /\ Len(m) = Len(l) - 1
           /\ \A i \in 1..Len(l) - 1 : m[i] = IF i < k THEN l[i] ELSE l[i + 1]
<1> DEFINE f == SubSeq(l, 1, k - 1)
           g == SubSeq(l, k + 1, Len(l))
<1>1. f \in Seq(S) /\ Len(f) = k - 1 /\ \A i \in 1..k - 1 : f[i] = l[i]
  OBVIOUS
<1>2. g \in Seq(S) /\ Len(g) = Len(l) - k /\ \A i \in 1..Len(l) - k : g[i] = l[k + i]
  OBVIOUS
<1>3. /\ f \o g \in Seq(S) /\ Len(f \o g) = Len(f) + Len(g)
      /\ \A i \in 1..Len(f) + Len(g) : (f \o g)[i] = IF i <= Len(f) THEN f[i] ELSE g[i - Len(f)]
  BY <1>1, <1>2, ConcatProperties
<1>4. RemoveAt(l, k) = f \o g
  BY DEF RemoveAt
<1> HIDE DEF f, g
<1>5. ASSUME NEW i \in 1..Len(l) - 1 PROVE (f \o g)[i] = IF i < k THEN l[i] ELSE l[i + 1]
  <2>1. k \in Nat /\ Len(l) \in Nat
    OBVIOUS
  <2>2. CASE i < k
    BY <1>1, <1>2, <1>3, <2>1, <2>2
  <2>3. CASE ~(i < k)
    <3>1. i - (k - 1) \in 1..Len(l) - k /\ k + (i - (k - 1)) = i + 1
      BY <2>1, <2>3
    <3>2. (f \o g)[i] = g[i - (k - 1)]
      BY <1>1, <1>2, <1>3, <2>1, <2>3
    <3> QED
      BY <1>2, <2>3, <3>1, <3>2
  <2> QED
    BY <2>2, <2>3
<1> QED
  BY <1>1, <1>2, <1>3, <1>4, <1>5

\* A new block goes to the front of the list, and those behind it move by one.
LEMMA PushedIs ==
    ASSUME NEW S, NEW l \in Seq(S), IsInjective(l), NEW b \in S, b \notin Range(l)
    PROVE  LET m == <<b>> \o l IN
           /\ m \in Seq(S) /\ IsInjective(m) /\ Len(m) = Len(l) + 1 /\ m # <<>> /\ m[1] = b
           /\ \A z : z \in Range(m) <=> z = b \/ z \in Range(l)
           /\ \A i \in 2..Len(m) : i - 1 \in 1..Len(l) /\ m[i] = l[i - 1]
<1>1. PICK m : m = <<b>> \o l
  OBVIOUS
<1>2. <<b>> \in Seq(S) /\ Len(<<b>>) = 1 /\ <<b>>[1] = b /\ Len(l) \in Nat
  OBVIOUS
<1>3. /\ m \in Seq(S) /\ Len(m) = 1 + Len(l)
      /\ \A i \in 1..1 + Len(l) : m[i] = IF i <= 1 THEN <<b>>[i] ELSE l[i - 1]
  BY <1>1, <1>2, ConcatProperties
<1>4. m[1] = b /\ \A i \in 2..Len(m) : i - 1 \in 1..Len(l) /\ m[i] = l[i - 1]
  BY <1>2, <1>3
<1>5. IsInjective(m)
  <2> SUFFICES ASSUME NEW i \in 1..Len(m), NEW j \in 1..Len(m), m[i] = m[j] PROVE i = j
    BY <1>3, RangeIs
  <2>1. \A n \in 1..Len(l) : l[n] # b
    BY RangeIs
  <2>2. i = 1 \/ i \in 2..Len(m)
    BY <1>3, <1>2
  <2>3. j = 1 \/ j \in 2..Len(m)
    BY <1>3, <1>2
  <2> QED
    BY <1>2, <1>3, <1>4, <2>1, <2>2, <2>3, RangeIs
<1>6. ASSUME NEW z PROVE z \in Range(m) <=> z = b \/ z \in Range(l)
  <2>1. ASSUME z \in Range(m) PROVE z = b \/ z \in Range(l)
    <3>1. PICK i \in 1..Len(m) : m[i] = z
      BY <1>3, <2>1, RangeIs
    <3>2. i = 1 \/ i \in 2..Len(m)
      BY <1>3, <1>2
    <3> QED
      BY <1>4, <3>1, <3>2, RangeIs
  <2>2. ASSUME z \in Range(l) PROVE z \in Range(m)
    <3>1. PICK j \in 1..Len(l) : l[j] = z
      BY <2>2, RangeIs
    <3>2. j + 1 \in 2..Len(m) /\ (j + 1) - 1 = j /\ j + 1 \in 1..Len(m)
      BY <1>2, <1>3
    <3>3. m[j + 1] = z
      BY <1>4, <3>1, <3>2
    <3> QED
      BY <1>3, <3>2, <3>3, RangeIs
  <2>3. b \in Range(m)
    <3>1. 1 \in 1..Len(m)
      BY <1>2, <1>3
    <3> QED
      BY <1>3, <1>4, <3>1, RangeIs
  <2> QED
    BY <2>1, <2>2, <2>3
<1>7. m # <<>>
  BY <1>2, <1>3
<1> QED
  BY <1>1, <1>2, <1>3, <1>4, <1>5, <1>6, <1>7

\* erase() leaves the others, and the front unless that is what goes.
LEMMA DroppedIs ==
    ASSUME NEW S, NEW l \in Seq(S), IsInjective(l), NEW b, b \in Range(l)
    PROVE  LET m == Drop(l, b) IN
           /\ m \in Seq(S) /\ IsInjective(m)
           /\ \A z : z \in Range(m) <=> z # b /\ z \in Range(l)
           /\ l # <<>>
           /\ b # l[1] => /\ m # <<>> /\ m[1] = l[1]
                          /\ \A i \in 2..Len(m) : \E j \in 2..Len(l) : m[i] = l[j]
<1>1. PICK m : m = Drop(l, b)
  OBVIOUS
<1>2. PICK k \in 1..Len(l) : l[k] = b /\ m = RemoveAt(l, k)
  <2>1. \E k \in 1..Len(l) : l[k] = b
    BY RangeIs
  <2>2. DOMAIN l = 1..Len(l)
    OBVIOUS
  <2> QED
    BY <1>1, <2>1, <2>2 DEF Drop
<1>3. Len(l) \in Nat /\ Len(l) - 1 \in Nat
  OBVIOUS
<1>4. /\ m \in Seq(S) /\ Len(m) = Len(l) - 1
      /\ \A i \in 1..Len(l) - 1 : m[i] = IF i < k THEN l[i] ELSE l[i + 1]
  BY <1>2, RemovedAt
<1>5. \A i \in 1..Len(m) : LET j == IF i < k THEN i ELSE i + 1 IN
         j \in 1..Len(l) /\ j # k /\ m[i] = l[j]
  BY <1>3, <1>4
<1>6. IsInjective(m)
  <2> SUFFICES ASSUME NEW i \in 1..Len(m), NEW j \in 1..Len(m), m[i] = m[j] PROVE i = j
    BY <1>4, RangeIs
  <2>1. (IF i < k THEN i ELSE i + 1) = (IF j < k THEN j ELSE j + 1)
    BY <1>5, RangeIs
  <2> QED
    BY <1>3, <1>4, <2>1
<1>7. ASSUME NEW z PROVE z \in Range(m) <=> z # b /\ z \in Range(l)
  <2>1. ASSUME z \in Range(m) PROVE z # b /\ z \in Range(l)
    <3>1. PICK i \in 1..Len(m) : m[i] = z
      BY <1>4, <2>1, RangeIs
    <3>2. PICK j \in 1..Len(l) : j # k /\ l[j] = z
      BY <1>5, <3>1
    <3> QED
      BY <1>2, <3>2, RangeIs
  <2>2. ASSUME z # b, z \in Range(l) PROVE z \in Range(m)
    <3>1. PICK j \in 1..Len(l) : l[j] = z
      BY <2>2, RangeIs
    <3>2. j # k
      BY <1>2, <2>2, <3>1
    <3>3. PICK i \in 1..Len(m) : m[i] = l[j]
      <4>1. CASE j < k
        BY <1>3, <1>4, <4>1
      <4>2. CASE j > k
        <5>1. j - 1 \in 1..Len(m) /\ ~(j - 1 < k) /\ (j - 1) + 1 = j
          BY <1>3, <1>4, <4>2
        <5> QED
          BY <1>4, <5>1
      <4> QED
        BY <3>2, <4>1, <4>2
    <3> QED
      BY <1>4, <3>1, <3>3, RangeIs
  <2> QED
    BY <2>1, <2>2
<1>8. ASSUME b # l[1]
      PROVE /\ m # <<>> /\ m[1] = l[1]
            /\ \A i \in 2..Len(m) : \E j \in 2..Len(l) : m[i] = l[j]
  <2>1. k > 1
    BY <1>2, <1>8
  <2>2. 1 \in 1..Len(m) /\ m[1] = l[1]
    BY <1>3, <1>4, <2>1
  <2>3. m # <<>>
    BY <1>4, <2>2
  <2>4. ASSUME NEW i \in 2..Len(m) PROVE \E j \in 2..Len(l) : m[i] = l[j]
    <3>1. i \in 1..Len(m)
      BY <1>4
    <3>2. (IF i < k THEN i ELSE i + 1) \in 2..Len(l)
      BY <1>3, <1>4
    <3> QED
      BY <1>5, <3>1, <3>2
  <2> QED
    BY <2>2, <2>3, <2>4
<1>9. l # <<>>
  BY <1>2
<1> QED
  BY <1>1, <1>4, <1>6, <1>7, <1>8, <1>9

\* A search loses no block and doubles none, and puts what it found in front.
LEMMA ReorderedIs ==
    ASSUME NEW S, NEW l \in Seq(S), IsInjective(l), NEW k \in 0..Len(l)
    PROVE  LET m == Reordered(l, k) IN
           /\ m \in Seq(S) /\ IsInjective(m)
           /\ \A z : z \in Range(m) <=> z \in Range(l)
           /\ k # 0 => m # <<>> /\ m[1] = l[k]
           /\ \A i \in 2..Len(m) : \E j \in 1..Len(l) : j # k /\ m[i] = l[j]
<1>1. PICK n \in Nat : n = Len(l)
  OBVIOUS
<1>2. PICK m : m = Reordered(l, k)
  OBVIOUS
<1>3. CASE k = 1 \/ n < 2
  <2>1. m = l
    BY <1>1, <1>2, <1>3 DEF Reordered
  <2>2. k # 0 => k = 1 /\ l # <<>>
    BY <1>1, <1>3
  <2>3. \A i \in 2..n : i \in 1..n /\ i # k
    BY <1>3
  <2> QED
    BY <1>1, <1>2, <2>1, <2>2, <2>3
<1>4. CASE k # 1 /\ n >= 2
  <2>1. PICK back : back = Append(Tail(l), Head(l))
    OBVIOUS
  <2>2. Head(l) = l[1] /\ Head(l) \in S /\ Tail(l) \in Seq(S) /\ Len(Tail(l)) = n - 1
        /\ \A i \in 1..n - 1 : Tail(l)[i] = l[i + 1]
    BY <1>1, <1>4
  <2>3. /\ back \in Seq(S) /\ Len(back) = n
        /\ \A i \in 1..n : back[i] = IF i < n THEN l[i + 1] ELSE l[1]
    BY <1>1, <1>4, <2>1, <2>2
  <2> DEFINE P(i) == IF i = 1 /\ k # 0 THEN k ELSE IF i < k THEN i ELSE IF i < n THEN i + 1 ELSE 1
             p == [i \in 1..n |-> P(i)]
  <2>4. p \in [1..n -> 1..n]
    BY <1>1, <1>4
  <2>5. /\ m \in Seq(S) /\ Len(m) = n
        /\ \A i \in 1..n : m[i] = l[P(i)]
    <3>1. CASE k = 0
      <4>1. m = back
        BY <1>1, <1>2, <1>4, <2>1, <3>1 DEF Reordered
      <4> QED
        BY <2>3, <3>1, <4>1
    <3>2. CASE k # 0
      <4>1. PICK r : r = RemoveAt(back, k - 1)
        OBVIOUS
      <4>2. k - 1 \in 1..n
        BY <1>1, <1>4, <3>2
      <4>3. /\ r \in Seq(S) /\ Len(r) = n - 1
            /\ \A i \in 1..n - 1 : r[i] = IF i < k - 1 THEN back[i] ELSE back[i + 1]
        BY <2>3, <4>1, <4>2, RemovedAt
      <4>4. m = <<l[k]>> \o r
        BY <1>1, <1>2, <1>4, <2>1, <3>2, <4>1 DEF Reordered
      <4>5. l[k] \in S /\ <<l[k]>> \in Seq(S) /\ Len(<<l[k]>>) = 1 /\ <<l[k]>>[1] = l[k]
        BY <1>1, <3>2
      <4>6. /\ m \in Seq(S) /\ Len(m) = 1 + (n - 1)
            /\ \A i \in 1..1 + (n - 1) : m[i] = IF i <= 1 THEN <<l[k]>>[i] ELSE r[i - 1]
        BY <4>3, <4>4, <4>5, ConcatProperties
      <4>7. 1 + (n - 1) = n /\ k \in 2..n
        BY <1>1, <1>4, <3>2
      <4>8. ASSUME NEW i \in 1..n PROVE m[i] = l[P(i)]
        <5>1. CASE i = 1
          BY <4>5, <4>6, <4>7, <3>2, <5>1
        <5>2. CASE i # 1 /\ i < k
          <6>1. i - 1 \in 1..n - 1 /\ i - 1 < k - 1 /\ i - 1 \in 1..n /\ i - 1 < n /\ (i - 1) + 1 = i
            BY <4>7, <5>2
          <6>2. m[i] = r[i - 1]
            BY <4>6, <4>7, <5>2, <6>1
          <6>3. r[i - 1] = back[i - 1]
            BY <4>3, <6>1
          <6>4. back[i - 1] = l[i]
            BY <2>3, <6>1
          <6> QED
            BY <5>2, <6>2, <6>3, <6>4
        <5>3. CASE i # 1 /\ ~(i < k)
          <6>1. i - 1 \in 1..n - 1 /\ ~(i - 1 < k - 1) /\ (i - 1) + 1 = i
            BY <4>7, <5>3
          <6>2. m[i] = r[i - 1]
            BY <4>6, <4>7, <5>3, <6>1
          <6>3. r[i - 1] = back[i]
            BY <4>3, <6>1
          <6>4. back[i] = IF i < n THEN l[i + 1] ELSE l[1]
            BY <2>3
          <6> QED
            BY <5>3, <6>2, <6>3, <6>4
        <5> QED
          BY <5>1, <5>2, <5>3
      <4> QED
        BY <4>6, <4>7, <4>8
    <3> QED
      BY <3>1, <3>2
  <2>6. \A i, j \in 1..n : P(i) = P(j) => i = j
    BY <1>1, <1>4
  <2>7. ASSUME NEW j \in 1..n PROVE \E i \in 1..n : P(i) = j
    <3> DEFINE i == IF j = 1 THEN IF k = 0 \/ k # 1 THEN n ELSE 1 ELSE IF j = k THEN 1 ELSE IF j < k THEN j ELSE j - 1
    <3>1. i \in 1..n
      BY <1>1, <1>4
    <3>2. P(i) = j
      BY <1>1, <1>4
    <3> QED
      BY <3>1, <3>2
  <2>8. \A i \in 1..n : p[i] = P(i)
    OBVIOUS
  <2>9. k # 0 => P(1) = k
    OBVIOUS
  <2>10. \A i \in 2..n : P(i) \in 1..n /\ P(i) # k
    BY <1>1, <1>4
  <2> HIDE DEF P, p
  <2>11. /\ \A i \in 1..n : m[i] = l[p[i]]
         /\ \A i, j \in 1..n : p[i] = p[j] => i = j
         /\ \A j \in 1..n : \E i \in 1..n : p[i] = j
    <3>1. \A i \in 1..n : m[i] = l[p[i]]
      BY <2>5, <2>8
    <3>2. \A i, j \in 1..n : p[i] = p[j] => i = j
      BY <2>6, <2>8
    <3>3. \A j \in 1..n : \E i \in 1..n : p[i] = j
      BY <2>7, <2>8
    <3> QED
      BY <3>1, <3>2, <3>3
  <2>12. IsInjective(m) /\ \A z : z \in Range(m) <=> z \in Range(l)
    <3>1. /\ Len(m) = Len(l) /\ p \in [1..Len(l) -> 1..Len(l)]
          /\ \A i \in 1..Len(l) : m[i] = l[p[i]]
          /\ \A i, j \in 1..Len(l) : p[i] = p[j] => i = j
          /\ \A j \in 1..Len(l) : \E i \in 1..Len(l) : p[i] = j
      BY <1>1, <2>4, <2>5, <2>11
    <3>2. m \in Seq(S)
      BY <2>5
    <3> QED
      BY <3>1, <3>2, Permuted
  <2>13. k # 0 => m # <<>> /\ m[1] = l[k]
    BY <1>4, <2>5, <2>9
  <2>14. \A i \in 2..Len(m) : \E j \in 1..Len(l) : j # k /\ m[i] = l[j]
    <3> TAKE i \in 2..Len(m)
    <3>1. i \in 2..n /\ i \in 1..n
      BY <2>5
    <3> QED
      BY <1>1, <2>5, <2>10, <3>1
  <2> QED
    BY <1>2, <2>5, <2>12, <2>13, <2>14
<1> QED
  BY <1>1, <1>3, <1>4

\* The fields of a small block, or of a LargeAlloc.
BlockRecord == [bit : 0..Units, bs : SUBSET Nat, xbs : SUBSET Nat, ta : Thread \cup {None}]

\* Sets of objects in use.
Objects == SUBSET (Block \X Nat \X (Nat \ {0}))

\* The types of the state of GlobalAlloc,
HugeTypes == lhb \in Seq(Huge) /\ hbits \in [Huge -> SUBSET (1..PerHuge)]

\* ... and of the ThreadAllocs.
ListTypes ==
    /\ llb \in [Thread -> Seq(Large)] /\ lbits \in [Large -> SUBSET (1..PerLarge)]
    /\ lsa \in [Thread -> Seq(Small)] /\ lla \in [Thread -> Seq(Large)]

\* The huge blocks: what is not in the list is free.
HugeListed == IsInjective(lhb) /\ \A h \in Huge : h \notin Range(lhb) => hbits[h] = {}

\* The large blocks: each has its bit in its huge one as long as it is in a
\* list, in one at most, and is whole unless that is a list of those to cut.
LargeListed ==
    /\ \A t \in Thread : IsInjective(llb[t]) /\ IsInjective(lla[t])
    /\ \A b \in Large : b[2] \in hbits[b[1]] <=> \E t \in Thread : b \in Range(llb[t]) \/ b \in Range(lla[t])
    /\ \A t, u \in Thread : \A b \in Large : b \in Range(llb[t]) =>
          b \notin Range(lla[u]) /\ (b \in Range(llb[u]) => t = u)
    /\ \A t, u \in Thread : \A b \in Large : b \in Range(lla[t]) /\ b \in Range(lla[u]) => t = u
    /\ \A b \in Large : (\A t \in Thread : b \notin Range(llb[t])) => lbits[b] = {}

\* The small blocks: each is in the list of the thread that cut it, as long as
\* its bit is set.
SmallListed ==
    /\ \A t \in Thread : IsInjective(lsa[t])
    /\ \A t \in Thread : \A b \in Small :
          b \in Range(lsa[t]) <=> b[2] \in lbits[b[1]] /\ b[1] \in Range(llb[t])

\* A block that serves knows its thread, the others are blank.
OwnersKnown ==
    /\ \A t \in Thread : \A b \in Block : b \in Range(lsa[t]) \/ b \in Range(lla[t]) => blk[b].ta = t
    /\ \A b \in Block : (\A t \in Thread : b \notin Range(lsa[t]) /\ b \notin Range(lla[t])) => blk[b] = Blank

\* The bits of a block are below _bit, and its objects begin at bits that
\* nobody has freed, and end before the next bit.
SoundFor(r, O) ==
    /\ r.xbs \subseteq r.bs
    /\ \A i \in r.bs : i < r.bit
    /\ r.bs = {} => r.bit = 0
    /\ \A o \in O : /\ o[2] \in r.bs \ r.xbs /\ o[2] + o[3] <= r.bit
                    /\ \A i \in r.bs : o[2] < i => o[2] + o[3] <= i
    /\ \A o, p \in O : o[2] = p[2] => o = p

\* Those of the objects O that are in block b.
In(O, b) == {o \in O : o[1] = b}

\* f are blocks that serve the objects O.
SoundBlocks(f, O) ==
    /\ f \in [Block -> BlockRecord] /\ O \in Objects
    /\ \A b \in Block : SoundFor(f[b], In(O, b))

\* TriedBlocksInUse, of one list.
BusyBehind(l, f) == \A i \in 2..Len(l) : f[l[i]].bs # {}
Busy == \A t \in Thread : BusyBehind(lsa[t], blk) /\ BusyBehind(lla[t], blk)

HeapInv ==
    /\ HugeTypes /\ HugeListed
    /\ ListTypes /\ LargeListed /\ SmallListed
    /\ SoundBlocks(blk, inUse) /\ OwnersKnown /\ Busy

\* _bs and _bit of a block are set, and the rest is left alone.
LEMMA TwoFields ==
    ASSUME NEW r \in BlockRecord, NEW c, NEW m
    PROVE  [r EXCEPT !.bs = c, !.bit = m] = [bit |-> m, bs |-> c, xbs |-> r.xbs, ta |-> r.ta]
<1>1. [r EXCEPT !.bs = c, !.bit = m] = [[r EXCEPT !.bs = c] EXCEPT !.bit = m]
  BY DEF BlockRecord
<1>2. [r EXCEPT !.bs = c] = [bit |-> r.bit, bs |-> c, xbs |-> r.xbs, ta |-> r.ta]
  BY DEF BlockRecord
<1>3. [[bit |-> r.bit, bs |-> c, xbs |-> r.xbs, ta |-> r.ta] EXCEPT !.bit = m]
        = [bit |-> m, bs |-> c, xbs |-> r.xbs, ta |-> r.ta]
  OBVIOUS
<1> QED
  BY <1>1, <1>2, <1>3

\* Free units after objects leave: what _bit is lowered to is still behind all
\* that are left.
\* _bit is lowered to no less than the end of what is left.
LEMMA LoweredIs ==
    ASSUME NEW r \in BlockRecord, NEW O \in Objects, SoundFor(r, O), NEW P \in SUBSET O,
           NEW rest \in SUBSET r.bs, NEW i \in r.bs \ rest,
           \A o \in P : o[2] \in rest
    PROVE  LET m == LoweredBit(r, rest, i) IN
           /\ m \in 0..Units
           /\ \A j \in rest : j < m
           /\ rest = {} => m = 0
           /\ \A o \in P : o[2] + o[3] <= m
<1>1. PICK m : m = LoweredBit(r, rest, i)
  OBVIOUS
<1>2. /\ r.bit \in 0..Units /\ r.bs \in SUBSET Nat /\ \A j \in r.bs : j < r.bit
      /\ \A o \in P : o[2] \in Nat /\ o[3] \in Nat /\ o[2] + o[3] <= r.bit /\ (o[2] < i => o[2] + o[3] <= i)
  BY DEF BlockRecord, SoundFor, Objects
<1>3. CASE \E j \in rest : j >= i
  <2>1. m = r.bit
    BY <1>1, <1>3 DEF LoweredBit
  <2> QED
    BY <1>1, <1>2, <1>3, <2>1
<1>4. CASE ~(\E j \in rest : j >= i) /\ rest = {}
  <2>1. m = 0
    BY <1>1, <1>4 DEF LoweredBit
  <2> QED
    BY <1>1, <1>2, <1>4, <2>1, AllocAssumption
<1>5. CASE ~(\E j \in rest : j >= i) /\ rest # {}
  <2>1. m = i
    BY <1>1, <1>5 DEF LoweredBit
  <2>2. \A j \in rest : j < i
    BY <1>2, <1>5
  <2> QED
    BY <1>1, <1>2, <1>5, <2>1, <2>2, AllocAssumption
<1> QED
  BY <1>3, <1>4, <1>5

\* try_hard_alloc() collects.
LEMMA CollectedIs ==
    ASSUME NEW r \in BlockRecord, NEW O \in Objects, SoundFor(r, O)
    PROVE  /\ Collected(r) \in BlockRecord /\ SoundFor(Collected(r), O)
           /\ Collected(r).ta = r.ta
<1>1. CASE r.xbs = {}
  BY <1>1 DEF Collected
<1>2. CASE r.xbs # {}
  <2>1. PICK i \in r.xbs : i = Lowest(r.xbs)
    BY <1>2, LowestIs DEF BlockRecord
  <2>2. PICK rest : rest = r.bs \ r.xbs
    OBVIOUS
  <2>3. PICK m : m = LoweredBit(r, rest, i)
    OBVIOUS
  <2>4. PICK s \in BlockRecord : s = Collected(r) /\ s.bs = rest /\ s.xbs = {} /\ s.bit = m /\ s.ta = r.ta
    <3>1. m \in 0..Units
      BY <2>1, <2>2, <2>3, LoweredIs DEF SoundFor
    <3>2. Collected(r) = [bit |-> m, bs |-> rest, xbs |-> {}, ta |-> r.ta]
      BY <1>2, <2>1, <2>2, <2>3 DEF Collected, BlockRecord
    <3> QED
      BY <2>2, <3>1, <3>2 DEF BlockRecord
  <2>5. i \in r.bs \ rest /\ rest \in SUBSET r.bs /\ \A o \in O : o[2] \in rest
    BY <2>1, <2>2 DEF SoundFor
  <2>6. /\ \A j \in rest : j < m
        /\ rest = {} => m = 0
        /\ \A o \in O : o[2] + o[3] <= m
    BY <2>3, <2>5, LoweredIs
  <2>7. SoundFor(s, O)
    <3>1. \A o \in O : \A j \in rest : o[2] < j => o[2] + o[3] <= j
      BY <2>5 DEF SoundFor
    <3>2. \A o, p \in O : o[2] = p[2] => o = p
      BY DEF SoundFor
    <3> QED
      BY <2>4, <2>5, <2>6, <3>1, <3>2 DEF SoundFor
  <2> QED
    BY <2>4, <2>7
<1> QED
  BY <1>1, <1>2

\* An object is made at _bit.
LEMMA WithIs ==
    ASSUME NEW r \in BlockRecord, NEW O \in Objects, SoundFor(r, O), NEW n \in 1..Units, Fits(r, n),
           NEW b \in Block
    PROVE  /\ With(r, n) \in BlockRecord /\ With(r, n).ta = r.ta /\ With(r, n).bs # {}
           /\ O \cup {<<b, r.bit, n>>} \in Objects
           /\ SoundFor(With(r, n), O \cup {<<b, r.bit, n>>})
<1>1. r.bit \in Nat /\ r.bit + n \in 0..Units /\ n \in Nat \ {0} /\ r.bit < r.bit + n
  BY AllocAssumption DEF BlockRecord, Fits
<1>2. PICK s \in BlockRecord : s = With(r, n) /\ s.bs = r.bs \cup {r.bit} /\ s.bit = r.bit + n /\ s.xbs = r.xbs /\ s.ta = r.ta
  <2>1. PICK c, m : c = r.bs \cup {r.bit} /\ m = r.bit + n
    OBVIOUS
  <2>2. With(r, n) = [r EXCEPT !.bs = c, !.bit = m]
    BY <2>1 DEF With
  <2>3. [r EXCEPT !.bs = c, !.bit = m] = [bit |-> m, bs |-> c, xbs |-> r.xbs, ta |-> r.ta]
    BY TwoFields
  <2>4. c \in SUBSET Nat /\ m \in 0..Units
    BY <1>1, <2>1 DEF BlockRecord
  <2>5. [bit |-> m, bs |-> c, xbs |-> r.xbs, ta |-> r.ta] \in BlockRecord
    BY <2>4 DEF BlockRecord
  <2> QED
    BY <2>1, <2>2, <2>3, <2>5
<1>3. PICK o : o = <<b, r.bit, n>>
  OBVIOUS
<1>4. o[2] = r.bit /\ o[3] = n /\ O \cup {o} \in Objects
  BY <1>1, <1>3 DEF Objects
<1>5. /\ r.bs \in SUBSET Nat /\ \A j \in r.bs : j < r.bit
      /\ \A p \in O : p[2] \in Nat /\ p[3] \in Nat /\ p[2] < r.bit /\ p[2] + p[3] <= r.bit
  BY DEF BlockRecord, SoundFor, Objects
<1>6. SoundFor(s, O \cup {o})
  <2>1. s.xbs \subseteq s.bs
    BY <1>2 DEF SoundFor
  <2>2. \A j \in s.bs : j < s.bit
    BY <1>1, <1>2, <1>5
  <2>3. s.bs # {}
    BY <1>2
  <2>4. ASSUME NEW p \in O \cup {o}
        PROVE  /\ p[2] \in s.bs \ s.xbs /\ p[2] + p[3] <= s.bit
               /\ \A j \in s.bs : p[2] < j => p[2] + p[3] <= j
    <3>1. CASE p = o
      <4>1. r.bit \notin r.xbs
        BY <1>1, <1>5 DEF SoundFor
      <4> QED
        BY <1>1, <1>2, <1>4, <1>5, <3>1, <4>1
    <3>2. CASE p \in O
      <4>1. p[2] \in r.bs \ r.xbs /\ \A j \in r.bs : p[2] < j => p[2] + p[3] <= j
        BY <3>2 DEF SoundFor
      <4> QED
        BY <1>1, <1>2, <1>5, <3>2, <4>1
    <3> QED
      BY <3>1, <3>2
  <2>5. ASSUME NEW p \in O \cup {o}, NEW q \in O \cup {o}, p[2] = q[2] PROVE p = q
    <3>1. \A u \in O : u[2] # o[2]
      BY <1>1, <1>4, <1>5
    <3>2. \A u, v \in O : u[2] = v[2] => u = v
      BY DEF SoundFor
    <3> QED
      BY <2>5, <3>1, <3>2
  <2> QED
    BY <2>1, <2>2, <2>3, <2>4, <2>5 DEF SoundFor
<1> QED
  BY <1>2, <1>3, <1>4, <1>6

\* The owner frees an object.
HasBits(r) == r.bs # {}
BlankButOwned(r) == [r EXCEPT !.ta = None] = Blank

\* The owner frees o: it is empty when it says so, and then it is blank but for
\* _ta.
LEMMA FreedIs ==
    ASSUME NEW r \in BlockRecord, NEW O \in Objects, SoundFor(r, O), NEW o \in O, NEW s, s = Freed(r, o[2])
    PROVE  /\ s \in BlockRecord /\ s.ta = r.ta /\ SoundFor(s, O \ {o})
           /\ HasBits(s) <=> ~Emptied(r, o[2])
           /\ Emptied(r, o[2]) => BlankButOwned(s)
           /\ Emptied(r, o[2]) => O \ {o} = {}
<1>1. PICK i \in r.bs : i = o[2] /\ i \notin r.xbs
  BY DEF SoundFor
<1>2. PICK rest : rest = r.bs \ {i}
  OBVIOUS
<1>3. PICK m : m = LoweredBit(r, rest, i)
  OBVIOUS
<1>4. \A p \in O \ {o} : p[2] \in rest
  BY <1>1, <1>2 DEF SoundFor
<1>5. i \in r.bs \ rest /\ rest \in SUBSET r.bs /\ O \ {o} \in SUBSET O
  BY <1>2
<1>6. /\ m \in 0..Units /\ \A j \in rest : j < m
      /\ rest = {} => m = 0
      /\ \A p \in O \ {o} : p[2] + p[3] <= m
  BY <1>3, <1>4, <1>5, LoweredIs
<1>7. /\ s \in BlockRecord /\ s.bs = rest /\ s.bit = m /\ s.xbs = r.xbs /\ s.ta = r.ta
      /\ s = [bit |-> m, bs |-> rest, xbs |-> r.xbs, ta |-> r.ta]
  <2>1. Freed(r, i) = [bit |-> m, bs |-> rest, xbs |-> r.xbs, ta |-> r.ta]
    <3>1. Freed(r, i) = [r EXCEPT !.bs = rest, !.bit = m]
      BY <1>2, <1>3 DEF Freed
    <3>2. [r EXCEPT !.bs = rest, !.bit = m] = [bit |-> m, bs |-> rest, xbs |-> r.xbs, ta |-> r.ta]
      BY TwoFields
    <3> QED
      BY <3>1, <3>2
  <2>2. s = [bit |-> m, bs |-> rest, xbs |-> r.xbs, ta |-> r.ta]
    BY <1>1, <2>1
  <2> QED
    BY <1>5, <1>6, <2>2 DEF BlockRecord
<1>8. SoundFor(s, O \ {o})
  <2>1. s.xbs \subseteq s.bs
    BY <1>1, <1>2, <1>7 DEF SoundFor
  <2>2. \A p \in O \ {o} : p[2] \notin r.xbs /\ \A j \in rest : p[2] < j => p[2] + p[3] <= j
    BY <1>5 DEF SoundFor
  <2>3. \A p, q \in O \ {o} : p[2] = q[2] => p = q
    BY DEF SoundFor
  <2> QED
    BY <1>4, <1>6, <1>7, <2>1, <2>2, <2>3 DEF SoundFor
<1>9. ASSUME Emptied(r, i) PROVE BlankButOwned(s) /\ O \ {o} = {}
  <2>1. rest = {} /\ m = 0 /\ r.xbs = {}
    BY <1>1, <1>2, <1>6, <1>9 DEF Emptied, SoundFor
  <2>2. O \ {o} = {}
    BY <1>4, <2>1
  <2> QED
    BY <1>7, <2>1, <2>2 DEF Blank, BlankButOwned
<1>10. HasBits(s) <=> ~Emptied(r, i)
  BY <1>1, <1>2, <1>7 DEF HasBits, Emptied
<1> QED
  BY <1>1, <1>7, <1>8, <1>9, <1>10

\* Another thread frees one.
Marked(r, i) == [r EXCEPT !.xbs = @ \cup {i}]

\* Another thread frees o.
LEMMA MarkedIs ==
    ASSUME NEW r \in BlockRecord, NEW O \in Objects, SoundFor(r, O), NEW o \in O,
           NEW s, s = Marked(r, o[2])
    PROVE  s \in BlockRecord /\ s.ta = r.ta /\ SoundFor(s, O \ {o})
<1>1. PICK i \in r.bs : i = o[2]
  BY DEF SoundFor
<1>2. s \in BlockRecord /\ s.bs = r.bs /\ s.bit = r.bit /\ s.ta = r.ta /\ s.xbs = r.xbs \cup {i}
  <2>1. PICK c : c = r.xbs \cup {i}
    OBVIOUS
  <2>5. s = [r EXCEPT !.xbs = c]
    BY <1>1, <2>1 DEF Marked
  <2>2. [r EXCEPT !.xbs = c] = [bit |-> r.bit, bs |-> r.bs, xbs |-> c, ta |-> r.ta]
    BY DEF BlockRecord
  <2>3. c \in SUBSET Nat
    BY <2>1 DEF BlockRecord
  <2>4. [bit |-> r.bit, bs |-> r.bs, xbs |-> c, ta |-> r.ta] \in BlockRecord
    BY <2>3 DEF BlockRecord
  <2> QED
    BY <2>1, <2>2, <2>4, <2>5
<1>3. \A p \in O \ {o} : p[2] # i
  BY <1>1 DEF SoundFor
<1>4. SoundFor(s, O \ {o})
  BY <1>2, <1>3 DEF SoundFor
<1> QED
  BY <1>1, <1>2, <1>4

\* The last object grows.
LEMMA GrownIs ==
    ASSUME NEW r \in BlockRecord, NEW O \in Objects, SoundFor(r, O), NEW o \in O, NEW n \in 1..Units,
           n > o[3], r.bit = o[2] + o[3], o[2] + n <= Units, NEW b \in Block
    PROVE  LET s == [r EXCEPT !.bit = o[2] + n] IN
           /\ s \in BlockRecord /\ s.ta = r.ta /\ s.bs = r.bs
           /\ (O \ {o}) \cup {<<b, o[2], n>>} \in Objects
           /\ SoundFor(s, (O \ {o}) \cup {<<b, o[2], n>>})
<1>1. o[2] \in Nat /\ o[3] \in Nat \ {0} /\ n \in Nat \ {0}
  BY DEF Objects
<1>2. PICK s \in BlockRecord : s = [r EXCEPT !.bit = o[2] + n] /\ s.bs = r.bs /\ s.bit = o[2] + n /\ s.ta = r.ta
                               /\ s.xbs = r.xbs
  <2>1. PICK m : m = o[2] + n
    OBVIOUS
  <2>2. [r EXCEPT !.bit = m] = [bit |-> m, bs |-> r.bs, xbs |-> r.xbs, ta |-> r.ta]
    BY DEF BlockRecord
  <2>3. m \in 0..Units
    BY <1>1, <2>1, AllocAssumption
  <2>4. [bit |-> m, bs |-> r.bs, xbs |-> r.xbs, ta |-> r.ta] \in BlockRecord
    BY <2>3 DEF BlockRecord
  <2> QED
    BY <2>1, <2>2, <2>4
<1>3. PICK u : u = <<b, o[2], n>>
  OBVIOUS
<1>4. u[2] = o[2] /\ u[3] = n /\ (O \ {o}) \cup {u} \in Objects
  BY <1>1, <1>3 DEF Objects
<1>5. /\ r.bs \in SUBSET Nat /\ r.bit \in Nat /\ \A j \in r.bs : j < r.bit
      /\ \A p \in O : p[2] \in Nat /\ p[3] \in Nat /\ p[2] + p[3] <= r.bit
      /\ o[2] \in r.bs
  BY DEF BlockRecord, SoundFor, Objects
<1>6. SoundFor(s, (O \ {o}) \cup {u})
  <2>1. s.xbs \subseteq s.bs
    BY <1>2 DEF SoundFor
  <2>2. \A j \in s.bs : j < s.bit
    BY <1>1, <1>2, <1>5
  <2>3. s.bs # {}
    BY <1>2, <1>5
  <2>4. ASSUME NEW p \in (O \ {o}) \cup {u}
        PROVE  /\ p[2] \in s.bs \ s.xbs /\ p[2] + p[3] <= s.bit
               /\ \A j \in s.bs : p[2] < j => p[2] + p[3] <= j
    <3>1. CASE p = u
      <4>1. o[2] \notin r.xbs /\ \A j \in r.bs : ~(o[2] < j)
        <5>1. o[2] \notin r.xbs /\ \A j \in r.bs : o[2] < j => o[2] + o[3] <= j
          BY DEF SoundFor
        <5> QED
          BY <1>1, <1>5, <5>1
      <4> QED
        BY <1>1, <1>2, <1>4, <1>5, <3>1, <4>1
    <3>2. CASE p \in O
      <4>1. p[2] \in r.bs \ r.xbs /\ \A j \in r.bs : p[2] < j => p[2] + p[3] <= j
        BY <3>2 DEF SoundFor
      <4> QED
        BY <1>1, <1>2, <1>5, <3>2, <4>1
    <3> QED
      BY <3>1, <3>2
  <2>5. ASSUME NEW p \in (O \ {o}) \cup {u}, NEW q \in (O \ {o}) \cup {u}, p[2] = q[2] PROVE p = q
    <3>1. \A v, w \in O : v[2] = w[2] => v = w
      BY DEF SoundFor
    <3> QED
      BY <1>4, <2>5, <3>1
  <2> QED
    BY <2>1, <2>2, <2>3, <2>4, <2>5 DEF SoundFor
<1> QED
  BY <1>2, <1>3, <1>4, <1>6

\* A block that is all zeros serves nothing.
LEMMA BlankIs ==
    /\ Blank \in BlockRecord /\ SoundFor(Blank, {}) /\ {} \in Objects
    /\ Blank.bs = {} /\ Blank.bit = 0
  BY AllocAssumption DEF Blank, BlockRecord, SoundFor, Objects

\* A block in which n units do not fit has bits.
\* A block without room for an object has one: no object exceeds a block.
LEMMA FullIs ==
    ASSUME NEW r \in BlockRecord, NEW O, SoundFor(r, O), NEW n \in 1..Units, ~Fits(r, n)
    PROVE  r.bs # {}
<1>1. r.bit \in 0..Units /\ (r.bs = {} => r.bit = 0)
  BY DEF BlockRecord, SoundFor
<1> QED
  BY <1>1, AllocAssumption DEF Fits

-----------------------------------------------------------------------------
(***************************************************************************)
(* The lists.                                                              *)
(***************************************************************************)
\* m is l, but that Come come to the list of t and Leave leave it.
Moved(l, m, S, t, Come, Leave) ==
    /\ m \in [Thread -> Seq(S)]
    /\ \A u \in Thread : IsInjective(m[u])
    /\ \A u \in Thread : \A z : z \in Range(m[u]) <=>
          (z \in Range(l[u]) /\ ~(u = t /\ z \in Leave)) \/ (u = t /\ z \in Come)

\* The list of t becomes k.
LEMMA MovedIs ==
    ASSUME NEW S, NEW l \in [Thread -> Seq(S)], \A u \in Thread : IsInjective(l[u]),
           NEW t \in Thread, NEW k \in Seq(S), IsInjective(k), NEW m, m = [l EXCEPT ![t] = k],
           NEW Come, NEW Leave,
           \A z : z \in Range(k) <=> (z \in Range(l[t]) /\ z \notin Leave) \/ z \in Come
    PROVE  Moved(l, m, S, t, Come, Leave)
<1>1. m \in [Thread -> Seq(S)] /\ m[t] = k /\ \A u \in Thread : u # t => m[u] = l[u]
  OBVIOUS
<1> QED
  BY <1>1 DEF Moved

\* Nothing moves.
LEMMA StaysIs ==
    ASSUME NEW S, NEW l \in [Thread -> Seq(S)], \A u \in Thread : IsInjective(l[u]), NEW t \in Thread
    PROVE  Moved(l, l, S, t, {}, {})
  BY DEF Moved

\* What a search finds is a place of the list, of one that can serve.
LEMMA ServerIs ==
    ASSUME NEW S, NEW l \in Seq(S), NEW n \in Nat, NEW able
    PROVE  LET k == Server(l, n, able) IN k \in 0..Len(l) /\ (k # 0 => l[k] \in able)
<1>1. Len(l) \in Nat /\ Behind(l, n) \subseteq 2..Len(l) /\ Behind(l, n) \subseteq Nat
  BY DEF Behind
<1>2. PICK T : T = {i \in Behind(l, n) : l[i] \in able}
  OBVIOUS
<1>3. CASE l # <<>> /\ l[1] \in able
  <2>1. Server(l, n, able) = 1 /\ 1 \in 0..Len(l)
    BY <1>3 DEF Server
  <2> QED
    BY <1>3, <2>1
<1>4. CASE ~(l # <<>> /\ l[1] \in able) /\ T = {}
  <2>1. Server(l, n, able) = 0
    BY <1>2, <1>4 DEF Server
  <2> QED
    BY <1>1, <2>1
<1>5. CASE ~(l # <<>> /\ l[1] \in able) /\ T # {}
  <2>1. Server(l, n, able) = Lowest(T)
    BY <1>2, <1>5 DEF Server
  <2>2. Lowest(T) \in T
    BY <1>1, <1>2, <1>5, LowestIs
  <2> QED
    BY <1>1, <1>2, <2>1, <2>2
<1> QED
  BY <1>3, <1>4, <1>5

\* GlobalAlloc.
LEMMA LargeIs ==
    ASSUME NEW b \in Large
    PROVE  b[1] \in Huge /\ b[2] \in 1..PerHuge /\ b = <<b[1], b[2]>> /\ b \in Block /\ b \notin Small
<1>1. b[1] \in Huge /\ b[2] \in 1..PerHuge /\ b = <<b[1], b[2]>> /\ b \in Block
  BY DEF Large, Block
<1>2. ASSUME b \in Small PROVE FALSE
  <2>1. b[1] \in Large
    BY <1>2 DEF Small
  <2> QED
    BY <1>1, <2>1, AllocAssumption DEF Large
<1> QED
  BY <1>1, <1>2

\* A small block and the large one it is cut from.
LEMMA SmallIs ==
    ASSUME NEW b \in Small
    PROVE  b[1] \in Large /\ b[2] \in 1..PerLarge /\ b = <<b[1], b[2]>> /\ b \in Block /\ b \notin Large
<1>1. b[1] \in Large /\ b[2] \in 1..PerLarge /\ b = <<b[1], b[2]>> /\ b \in Block
  BY DEF Small, Block
<1> QED
  BY <1>1, LargeIs

\* GlobalAlloc::alloc hands out a large block that is free.
LEMMA TakeIs ==
    ASSUME HugeTypes, HugeListed, NEW b \in Large, TakeLarge(b)
    PROVE  /\ HugeTypes' /\ HugeListed'
           /\ b[2] \notin hbits[b[1]]
           /\ \A c \in Large : c[2] \in hbits'[c[1]] <=> c[2] \in hbits[c[1]] \/ c = b
<1>1. PICK k : k = Server(lhb, HugeTries, HasSlot)
  OBVIOUS
<1>2. PICK l : l = Reordered(lhb, k)
  OBVIOUS
<1>3. k \in 0..Len(lhb) /\ (k # 0 => lhb[k] \in HasSlot)
  BY <1>1, ServerIs, AllocAssumption DEF HugeTypes
<1>4. /\ l \in Seq(Huge) /\ IsInjective(l)
      /\ \A z : z \in Range(l) <=> z \in Range(lhb)
      /\ k # 0 => l # <<>> /\ l[1] = lhb[k]
  BY <1>2, <1>3, ReorderedIs DEF HugeTypes, HugeListed
<1>5. PICK h \in Huge, j \in 1..PerHuge : h = b[1] /\ j = b[2] /\ b = <<h, j>>
  BY LargeIs
<1>6. /\ lhb' \in Seq(Huge) /\ IsInjective(lhb')
      /\ \A z : z \in Range(lhb') <=> z \in Range(lhb) \/ z = h
      /\ hbits[h] # 1..PerHuge
  <2>1. CASE k # 0
    <3>1. lhb' = l /\ h = l[1]
      BY <1>1, <1>2, <1>5, <2>1 DEF TakeLarge
    <3>2. h \in HasSlot /\ h = lhb[k] /\ k \in 1..Len(lhb)
      BY <1>3, <1>4, <2>1, <3>1
    <3>3. h \in Range(lhb)
      BY <3>2, RangeIs DEF HugeTypes
    <3> QED
      BY <1>4, <3>1, <3>2, <3>3 DEF HasSlot
  <2>2. CASE k = 0
    <3>1. h \notin Range(lhb) /\ lhb' = <<h>> \o l
      BY <1>1, <1>2, <1>5, <2>2 DEF TakeLarge
    <3>2. lhb' \in Seq(Huge) /\ IsInjective(lhb') /\ \A z : z \in Range(lhb') <=> z = h \/ z \in Range(l)
      BY <1>4, <3>1, PushedIs
    <3>3. hbits[h] = {} /\ 1 \in 1..PerHuge
      BY <3>1, AllocAssumption DEF HugeListed
    <3> QED
      BY <1>4, <3>2, <3>3
  <2> QED
    BY <2>1, <2>2
<1>7. j \notin hbits[h]
  <2>1. PICK T : T = 1..PerHuge \ hbits[h]
    OBVIOUS
  <2>2. T # {} /\ T \in SUBSET Nat
    <3>1. hbits[h] \in SUBSET (1..PerHuge) /\ hbits[h] # 1..PerHuge
      BY <1>6 DEF HugeTypes
    <3>2. PICK i \in 1..PerHuge : i \notin hbits[h]
      BY ONLY <3>1
    <3>3. 1..PerHuge \subseteq Nat
      OBVIOUS
    <3> QED
      BY <2>1, <3>2, <3>3
  <2>3. j = Lowest(T)
    BY <1>5, <2>1 DEF TakeLarge, Slot
  <2> QED
    BY <2>1, <2>2, <2>3, LowestIs
<1>8. hbits' = [hbits EXCEPT ![h] = @ \cup {j}]
  BY <1>5 DEF TakeLarge
<1>9. hbits' \in [Huge -> SUBSET (1..PerHuge)] /\ hbits'[h] = hbits[h] \cup {j} /\ \A g \in Huge : g # h => hbits'[g] = hbits[g]
  BY <1>8 DEF HugeTypes
<1>10. HugeTypes' /\ HugeListed'
  BY <1>6, <1>9 DEF HugeTypes, HugeListed
<1>11. ASSUME NEW c \in Large PROVE c[2] \in hbits'[c[1]] <=> c[2] \in hbits[c[1]] \/ c = b
  <2>1. PICK g \in Huge, i \in 1..PerHuge : g = c[1] /\ i = c[2] /\ c = <<g, i>>
    BY LargeIs
  <2>2. c = b <=> g = h /\ i = j
    BY <1>5, <2>1
  <2>3. i \in hbits'[g] <=> i \in hbits[g] \/ (g = h /\ i = j)
    BY <1>9
  <2> QED
    BY <2>1, <2>2, <2>3
<1> QED
  BY <1>5, <1>7, <1>10, <1>11

\* There is no memory left.
LEMMA NoneIs ==
    ASSUME HugeTypes, HugeListed, NoLarge
    PROVE  HugeTypes' /\ HugeListed' /\ hbits' = hbits
<1>1. 0 \in 0..Len(lhb)
  BY DEF HugeTypes
<1>2. PICK l : l = Reordered(lhb, 0)
  OBVIOUS
<1>3. l \in Seq(Huge) /\ IsInjective(l) /\ \A z : z \in Range(l) <=> z \in Range(lhb)
  BY <1>1, <1>2, ReorderedIs DEF HugeTypes, HugeListed
<1>4. lhb' = l /\ hbits' = hbits
  BY <1>2 DEF NoLarge
<1> QED
  BY <1>3, <1>4 DEF HugeTypes, HugeListed

\* GlobalAlloc::free takes back that block and no other.
LEMMA GiveIs ==
    ASSUME HugeTypes, HugeListed, NEW b \in Large, b[2] \in hbits[b[1]], GiveLarge(b)
    PROVE  /\ HugeTypes' /\ HugeListed'
           /\ \A c \in Large : c[2] \in hbits'[c[1]] <=> c[2] \in hbits[c[1]] /\ c # b
<1>1. PICK h \in Huge, j \in 1..PerHuge : h = b[1] /\ j = b[2] /\ b = <<h, j>>
  BY LargeIs
<1>2. h \in Range(lhb)
  BY <1>1 DEF HugeListed
<1>3. hbits' = [hbits EXCEPT ![h] = @ \ {j}]
  BY <1>1 DEF GiveLarge
<1>4. /\ hbits' \in [Huge -> SUBSET (1..PerHuge)] /\ hbits'[h] = hbits[h] \ {j}
      /\ \A g \in Huge : g # h => hbits'[g] = hbits[g]
  BY <1>3 DEF HugeTypes
<1>5. /\ lhb' \in Seq(Huge) /\ IsInjective(lhb')
      /\ \A z : z \in Range(lhb') => z \in Range(lhb)
      /\ \A z : z \in Range(lhb) => z \in Range(lhb') \/ (z = h /\ hbits'[h] = {})
  <2>1. CASE hbits'[h] = {} /\ h # lhb[1]
    <3>1. lhb' = Drop(lhb, h)
      BY <1>1, <2>1 DEF GiveLarge
    <3>2. lhb' \in Seq(Huge) /\ IsInjective(lhb') /\ \A z : z \in Range(lhb') <=> z # h /\ z \in Range(lhb)
      BY <1>2, <3>1, DroppedIs DEF HugeTypes, HugeListed
    <3> QED
      BY <2>1, <3>2
  <2>2. CASE ~(hbits'[h] = {} /\ h # lhb[1])
    <3>1. lhb' = lhb
      BY <1>1, <2>2 DEF GiveLarge
    <3> QED
      BY <3>1 DEF HugeTypes, HugeListed
  <2> QED
    BY <2>1, <2>2
<1>6. HugeTypes' /\ HugeListed'
  BY <1>4, <1>5 DEF HugeTypes, HugeListed
<1>7. ASSUME NEW c \in Large PROVE c[2] \in hbits'[c[1]] <=> c[2] \in hbits[c[1]] /\ c # b
  <2>1. PICK g \in Huge, i \in 1..PerHuge : g = c[1] /\ i = c[2] /\ c = <<g, i>>
    BY LargeIs
  <2>2. c = b <=> g = h /\ i = j
    BY <1>1, <2>1
  <2>3. i \in hbits'[g] <=> i \in hbits[g] /\ ~(g = h /\ i = j)
    BY <1>4
  <2> QED
    BY <2>1, <2>2, <2>3
<1> QED
  BY <1>6, <1>7

\* What comes and goes, of the large and of the small blocks, comes and goes in
\* the lists and in the bits.
LEMMA TreeMoves ==
    ASSUME LargeListed, SmallListed, HugeTypes', lbits' \in [Large -> SUBSET (1..PerLarge)],
           NEW t \in Thread, NEW InB \in SUBSET Large, NEW OutB \in SUBSET Large,
           NEW InA \in SUBSET Large, NEW OutA \in SUBSET Large,
           NEW InS \in SUBSET Small, NEW OutS \in SUBSET Small,
           Moved(llb, llb', Large, t, InB, OutB),
           Moved(lla, lla', Large, t, InA, OutA),
           Moved(lsa, lsa', Small, t, InS, OutS),
           \A c \in Large : c[2] \in hbits'[c[1]] <=>
              (c[2] \in hbits[c[1]] /\ c \notin OutB \cup OutA) \/ c \in InB \cup InA,
           \A s \in Small : s[2] \in lbits'[s[1]] <=> (s[2] \in lbits[s[1]] /\ s \notin OutS) \/ s \in InS,
           \A c \in InB \cup InA : c[2] \notin hbits[c[1]] /\ c \notin InB \cap InA,
           \A c \in OutB : c \in Range(llb[t]) /\ c \notin InB \cup InA,
           \A c \in OutA : c \in Range(lla[t]) /\ c \notin InB \cup InA,
           \A s \in OutS : s \in Range(lsa[t]) /\ s \notin InS,
           \A s \in InS : s[1] \in InB \/ (s[1] \in Range(llb[t]) /\ s[1] \notin OutB),
           \A s \in Small : s[1] \in OutB /\ s[2] \in lbits[s[1]] => s \in OutS
    PROVE  LargeListed' /\ SmallListed'
<1>1. /\ \A u \in Thread : IsInjective(llb'[u]) /\ IsInjective(lla'[u]) /\ IsInjective(lsa'[u])
      /\ \A u \in Thread : \A c : c \in Range(llb'[u]) <=>
            (c \in Range(llb[u]) /\ ~(u = t /\ c \in OutB)) \/ (u = t /\ c \in InB)
      /\ \A u \in Thread : \A c : c \in Range(lla'[u]) <=>
            (c \in Range(lla[u]) /\ ~(u = t /\ c \in OutA)) \/ (u = t /\ c \in InA)
      /\ \A u \in Thread : \A s : s \in Range(lsa'[u]) <=>
            (s \in Range(lsa[u]) /\ ~(u = t /\ s \in OutS)) \/ (u = t /\ s \in InS)
  BY DEF Moved
<1>2. /\ \A c \in Large : c[2] \in hbits[c[1]] <=> \E u \in Thread : c \in Range(llb[u]) \/ c \in Range(lla[u])
      /\ \A u, v \in Thread : \A c \in Large : c \in Range(llb[u]) =>
            c \notin Range(lla[v]) /\ (c \in Range(llb[v]) => u = v)
      /\ \A u, v \in Thread : \A c \in Large : c \in Range(lla[u]) /\ c \in Range(lla[v]) => u = v
      /\ \A c \in Large : (\A u \in Thread : c \notin Range(llb[u])) => lbits[c] = {}
  BY DEF LargeListed
<1>3. \A u \in Thread : \A s \in Small :
         s \in Range(lsa[u]) <=> s[2] \in lbits[s[1]] /\ s[1] \in Range(llb[u])
  BY DEF SmallListed
<1>4. ASSUME NEW c \in Large
      PROVE  c[2] \in hbits'[c[1]] <=> \E u \in Thread : c \in Range(llb'[u]) \/ c \in Range(lla'[u])
  BY <1>1, <1>2
<1>5. ASSUME NEW u \in Thread, NEW v \in Thread, NEW c \in Large, c \in Range(llb'[u])
      PROVE  c \notin Range(lla'[v]) /\ (c \in Range(llb'[v]) => u = v)
  BY <1>1, <1>2, <1>5
<1>6. ASSUME NEW u \in Thread, NEW v \in Thread, NEW c \in Large, c \in Range(lla'[u]), c \in Range(lla'[v])
      PROVE  u = v
  BY <1>1, <1>2, <1>6
<1>7. ASSUME NEW c \in Large, \A u \in Thread : c \notin Range(llb'[u]) PROVE lbits'[c] = {}
  <2> SUFFICES ASSUME NEW j \in 1..PerLarge, j \in lbits'[c] PROVE FALSE
    OBVIOUS
  <2>1. PICK s \in Small : s[1] = c /\ s[2] = j
    <3>1. <<c, j>> \in Small
      BY DEF Small
    <3> QED
      BY <3>1
  <2>2. CASE s \in InS
    BY <1>1, <1>7, <2>1, <2>2
  <2>3. CASE s \notin InS
    <3>1. s[2] \in lbits[c] /\ s \notin OutS
      BY <2>1, <2>3
    <3>2. PICK u \in Thread : c \in Range(llb[u])
      BY <1>2, <3>1
    <3> QED
      BY <1>1, <1>7, <2>1, <3>1, <3>2
  <2> QED
    BY <2>2, <2>3
<1>8. ASSUME NEW u \in Thread, NEW s \in Small
      PROVE  s \in Range(lsa'[u]) <=> s[2] \in lbits'[s[1]] /\ s[1] \in Range(llb'[u])
  <2>1. PICK c \in Large : c = s[1]
    BY SmallIs
  <2>2. CASE s \in InS
    <3>1. s[2] \in lbits'[c] /\ c \in Range(llb'[t])
      BY <1>1, <2>1, <2>2
    <3>2. c \in Range(llb'[u]) => u = t
      BY <1>5, <3>1
    <3>3. s \in Range(lsa'[u]) <=> u = t
      <4>1. s \in Range(lsa[u]) => u = t
        BY <1>2, <1>3, <2>1, <2>2
      <4> QED
        BY <1>1, <2>2, <4>1
    <3> QED
      BY <2>1, <3>1, <3>2, <3>3
  <2>3. CASE s \in OutS
    <3>1. s[2] \notin lbits'[c]
      BY <2>1, <2>3
    <3>2. s \in Range(lsa[u]) => u = t
      BY <1>2, <1>3, <2>1, <2>3
    <3> QED
      BY <1>1, <2>1, <2>3, <3>1, <3>2
  <2>4. CASE s \notin InS /\ s \notin OutS
    <3>1. s[2] \in lbits'[c] <=> s[2] \in lbits[c]
      BY <2>1, <2>4
    <3>2. s \in Range(lsa'[u]) <=> s \in Range(lsa[u])
      BY <1>1, <2>4
    <3>3. ASSUME s[2] \in lbits[c] PROVE c \in Range(llb'[u]) <=> c \in Range(llb[u])
      <4>1. c \notin OutB
        BY <2>1, <2>4, <3>3
      <4>2. c \notin InB
        BY <1>2, <3>3
      <4> QED
        BY <1>1, <4>1, <4>2
    <3> QED
      BY <1>3, <2>1, <3>1, <3>2, <3>3
  <2> QED
    BY <2>2, <2>3, <2>4
<1>9. LargeListed'
  BY <1>1, <1>4, <1>5, <1>6, <1>7 DEF LargeListed
<1> QED
  BY <1>1, <1>8, <1>9 DEF SmallListed

-----------------------------------------------------------------------------
(***************************************************************************)
(* The blocks.                                                             *)
(***************************************************************************)
\* The objects of a block are objects.
LEMMA InIs == ASSUME NEW O \in Objects, NEW b PROVE In(O, b) \in Objects
  BY DEF In, Objects

\* The blocks f after a search of l for n units that ended at k.
LEMMA SearchIs ==
    ASSUME NEW O, SoundBlocks(blk, O), NEW l \in Seq(Block), IsInjective(l), BusyBehind(l, blk),
           NEW n \in 1..Units, NEW k, k = ServerFor(l, n), NEW f, f = Searched(l, k)
    PROVE  /\ k \in 0..Len(l)
           /\ SoundBlocks(f, O)
           /\ \A b \in Block : f[b].ta = blk[b].ta /\ (b \notin Range(l) => f[b] = blk[b])
           /\ k # 0 => Fits(f[l[k]], n)
           /\ \A j \in 1..Len(l) : j # k => f[l[j]].bs # {}
<1>1. Len(l) \in Nat /\ \A i \in 1..Len(l) : l[i] \in Block /\ l[i] \in Range(l)
  BY RangeIs
<1>2. ASSUME NEW b \in Block
      PROVE  /\ blk[b] \in BlockRecord /\ SoundFor(blk[b], In(O, b))
             /\ Collected(blk[b]) \in BlockRecord /\ SoundFor(Collected(blk[b]), In(O, b))
             /\ Collected(blk[b]).ta = blk[b].ta
  BY CollectedIs, InIs DEF SoundBlocks
<1>3. PICK D : /\ f = [b \in Block |-> IF b \in D THEN Collected(blk[b]) ELSE blk[b]]
               /\ D = IF k = 1 THEN {} ELSE {l[i] : i \in Behind(l, IF k = 0 THEN Tries ELSE k - 1)}
  BY DEF Searched
<1>4. ASSUME NEW b \in Block
      PROVE  f[b] = (IF b \in D THEN Collected(blk[b]) ELSE blk[b])
  BY <1>3
<1>5. SoundBlocks(f, O)
  <2>1. f \in [Block -> BlockRecord]
    BY <1>2, <1>3
  <2> QED
    BY <1>2, <1>4, <2>1 DEF SoundBlocks
<1>6. PICK T : T = {i \in Behind(l, Tries) : Fits(Collected(blk[l[i]]), n)}
  OBVIOUS
<1>7. Behind(l, Tries) \subseteq 2..Len(l)
  BY <1>1, AllocAssumption DEF Behind
<1>8. CASE FrontFits(l, n)
  <2>1. k = 1 /\ 1 \in 1..Len(l) /\ D = {} /\ Fits(blk[l[1]], n)
    BY <1>1, <1>3, <1>8 DEF ServerFor, FrontFits
  <2>2. f = blk
    BY <1>3, <2>1 DEF SoundBlocks
  <2>3. \A j \in 1..Len(l) : j # 1 => j \in 2..Len(l)
    BY <1>1
  <2> QED
    BY <1>1, <1>5, <2>1, <2>2, <2>3 DEF BusyBehind
<1>9. CASE ~FrontFits(l, n)
  <2>1. /\ k = IF T = {} THEN 0 ELSE Lowest(T)
        /\ T # {} => k \in T /\ \A i \in T : k <= i
    <3>1. T \in SUBSET Nat
      BY <1>1, <1>6, <1>7
    <3> QED
      BY <1>6, <1>9, <3>1, LowestIs DEF ServerFor
  <2>2. k \in 0..Len(l) /\ k # 1 /\ (k = 0 <=> T = {}) /\ (k # 0 => k \in 2..Len(l) /\ Fits(Collected(blk[l[k]]), n))
    BY <1>1, <1>6, <1>7, <2>1
  <2>3. PICK E : E = Behind(l, IF k = 0 THEN Tries ELSE k - 1) /\ D = {l[i] : i \in E}
    BY <1>3, <2>2
  <2>4. /\ E \subseteq 2..Len(l)
        /\ k # 0 => k \in E /\ \A i \in E : i <= k
        /\ \A i \in E : i \in Behind(l, Tries)
    <3>1. CASE k = 0
      BY <1>7, <2>3, <3>1
    <3>2. CASE k # 0
      <4>1. k \in 2..Len(l) /\ k \in Behind(l, Tries)
        BY <1>6, <2>1, <2>2, <3>2
      <4>2. E = 2..k
        BY <1>1, <2>3, <3>2, <4>1 DEF Behind
      <4> QED
        BY <1>1, <4>1, <4>2, AllocAssumption DEF Behind
    <3> QED
      BY <3>1, <3>2
  <2>5. \A i \in 1..Len(l) : l[i] \in D <=> i \in E
    BY <1>1, <2>3, <2>4, RangeIs
  <2>6. k # 0 => Fits(f[l[k]], n)
    BY <1>1, <1>4, <2>2, <2>4, <2>5
  <2>7. ASSUME NEW j \in 1..Len(l), j # k PROVE f[l[j]].bs # {}
    <3>1. PICK b \in Block : b = l[j]
      BY <1>1
    <3>2. CASE j = 1
      <4>1. f[b] = blk[b]
        BY <1>4, <2>4, <2>5, <3>1, <3>2
      <4>2. ~Fits(blk[b], n)
        BY <1>1, <1>9, <3>1, <3>2 DEF FrontFits
      <4> QED
        BY <1>2, <3>1, <4>1, <4>2, FullIs
    <3>3. CASE j \in E
      <4>1. f[b] = Collected(blk[b])
        BY <1>4, <2>5, <3>1, <3>3
      <4>2. ~Fits(Collected(blk[b]), n)
        <5>1. j \notin T
          <6>1. k # 0 => j < k
            BY <1>1, <2>2, <2>4, <2>7, <3>3
          <6> QED
            BY <1>1, <2>1, <2>2, <6>1
        <5> QED
          BY <1>6, <2>4, <3>1, <3>3, <5>1
      <4> QED
        BY <1>2, <3>1, <4>1, <4>2, FullIs
    <3>4. CASE j # 1 /\ j \notin E
      <4>1. f[b] = blk[b]
        BY <1>4, <2>5, <3>1, <3>4
      <4>2. j \in 2..Len(l)
        BY <1>1, <3>4
      <4> QED
        BY <3>1, <4>1, <4>2 DEF BusyBehind
    <3> QED
      BY <3>2, <3>3, <3>4
  <2>8. ASSUME NEW b \in Block, b \notin Range(l) PROVE f[b] = blk[b]
    <3>1. b \notin D
      BY <1>1, <2>3, <2>4, <2>8
    <3> QED
      BY <1>4, <3>1
  <2>9. \A b \in Block : f[b].ta = blk[b].ta
    BY <1>2, <1>4
  <2> QED
    BY <1>5, <2>2, <2>6, <2>7, <2>8, <2>9
<1> QED
  BY <1>8, <1>9

Made(b, r, n) == <<b, r.bit, n>>

\* n units of the block b are handed out.
LEMMA ServeIs ==
    ASSUME NEW f, NEW O, SoundBlocks(f, O), NEW b \in Block, NEW n \in 1..Units, Fits(f[b], n),
           NEW o, o = Made(b, f[b], n), NEW s, s = With(f[b], n), NEW g, g = [f EXCEPT ![b] = s]
    PROVE  /\ SoundBlocks(g, O \cup {o})
           /\ g[b] = s /\ s.bs # {} /\ s.ta = f[b].ta
           /\ \A c \in Block : c # b => g[c] = f[c]
<1>1. f[b] \in BlockRecord /\ f \in [Block -> BlockRecord] /\ O \in Objects /\ \A c \in Block : SoundFor(f[c], In(O, c))
  BY DEF SoundBlocks
<1>2. PICK r \in BlockRecord : r = f[b]
  BY <1>1
<1>3. o = <<b, r.bit, n>> /\ s = With(r, n)
  BY <1>2 DEF Made
<1>4. PICK P : P = O \cup {o}
  OBVIOUS
<1>5. /\ s \in BlockRecord /\ s.ta = r.ta /\ s.bs # {}
      /\ In(O, b) \cup {o} \in Objects /\ SoundFor(s, In(O, b) \cup {o})
  BY <1>1, <1>2, <1>3, WithIs, InIs
<1>6. g = [f EXCEPT ![b] = s] /\ P = O \cup {o}
  BY <1>4
<1>7. g \in [Block -> BlockRecord] /\ g[b] = s /\ \A c \in Block : c # b => g[c] = f[c]
  BY <1>1, <1>5, <1>6
<1>8. P \in Objects
  BY <1>1, <1>5, <1>6 DEF Objects
<1>9. ASSUME NEW c \in Block PROVE SoundFor(g[c], In(P, c))
  <2>1. CASE c = b
    <3>1. In(P, b) = In(O, b) \cup {o}
      BY <1>3, <1>6 DEF In
    <3> QED
      BY <1>5, <1>7, <2>1, <3>1
  <2>2. CASE c # b
    <3>1. In(P, c) = In(O, c)
      BY <1>3, <1>6, <2>2 DEF In
    <3> QED
      BY <1>1, <1>7, <2>2, <3>1
  <2> QED
    BY <2>1, <2>2
<1> QED
  BY <1>2, <1>4, <1>5, <1>7, <1>8, <1>9 DEF SoundBlocks

\* _ta says nothing of the bitmaps.
LEMMA OwnerIs ==
    ASSUME NEW r \in BlockRecord, NEW t \in Thread \cup {None}, NEW O, SoundFor(r, O)
    PROVE  LET s == [r EXCEPT !.ta = t] IN
           s \in BlockRecord /\ s.ta = t /\ s.bs = r.bs /\ SoundFor(s, O)
<1>1. PICK s \in BlockRecord : s = [r EXCEPT !.ta = t] /\ s.ta = t /\ s.bs = r.bs /\ s.xbs = r.xbs /\ s.bit = r.bit
  <2>1. [r EXCEPT !.ta = t] = [bit |-> r.bit, bs |-> r.bs, xbs |-> r.xbs, ta |-> t]
    BY DEF BlockRecord
  <2>2. [bit |-> r.bit, bs |-> r.bs, xbs |-> r.xbs, ta |-> t] \in BlockRecord
    BY DEF BlockRecord
  <2> QED
    BY <2>1, <2>2
<1>2. SoundFor(s, O)
  BY <1>1 DEF SoundFor
<1> QED
  BY <1>1, <1>2

\* ... of a new block, which t takes.
LEMMA ServeNewIs ==
    ASSUME NEW f, NEW O, SoundBlocks(f, O), NEW b \in Block, f[b] = Blank, NEW n \in 1..Units,
           NEW t \in Thread,
           NEW o, o = Made(b, f[b], n),
           NEW s, s = [With(f[b], n) EXCEPT !.ta = t], NEW g, g = [f EXCEPT ![b] = s]
    PROVE  /\ SoundBlocks(g, O \cup {o})
           /\ \A c \in Block : c # b => g[c] = f[c]
<1>1. Fits(f[b], n)
  BY BlankIs, AllocAssumption DEF Fits
<1>2. PICK h, q, P : h = [f EXCEPT ![b] = q] /\ q = With(f[b], n) /\ P = O \cup {o}
  OBVIOUS
<1>3. SoundBlocks(h, P) /\ h[b].bs # {} /\ \A c \in Block : c # b => h[c] = f[c]
  <2>1. SoundBlocks(f, O) /\ o = Made(b, f[b], n) /\ b \in Block /\ n \in 1..Units
    OBVIOUS
  <2>2. h = [f EXCEPT ![b] = q] /\ q = With(f[b], n)
    BY <1>2
  <2>3. SoundBlocks(h, O \cup {o})
    BY ONLY <1>1, <2>1, <2>2, ServeIs
  <2>4. h[b] = q /\ q.bs # {}
    <3>1. h[b] = q
      BY <2>2 DEF SoundBlocks
    <3>2. f[b] \in BlockRecord /\ In(O, b) \in Objects /\ SoundFor(f[b], In(O, b))
      BY InIs DEF SoundBlocks
    <3>3. q.bs # {}
      BY ONLY <1>1, <2>1, <2>2, <3>2, WithIs
    <3> QED
      BY <3>1, <3>3
  <2>5. \A c \in Block : c # b => h[c] = f[c]
    BY ONLY <1>1, <2>1, <2>2, ServeIs
  <2> QED
    BY <1>2, <2>3, <2>4, <2>5
<1>4. PICK r \in BlockRecord : r = h[b]
  BY <1>3 DEF SoundBlocks
<1>5. r = With(f[b], n)
  BY <1>2, <1>4 DEF SoundBlocks
<1>6. s \in BlockRecord /\ s = [r EXCEPT !.ta = t] /\ s.ta = t /\ s.bs = r.bs /\ SoundFor(s, In(P, b))
  <2>1. s = [r EXCEPT !.ta = t]
    BY <1>5
  <2>2. SoundFor(r, In(P, b)) /\ t \in Thread \cup {None}
    BY <1>3, <1>4 DEF SoundBlocks
  <2> QED
    BY ONLY <1>4, <2>1, <2>2, OwnerIs
<1>7. g = [f EXCEPT ![b] = s]
  OBVIOUS
<1>8. f \in [Block -> BlockRecord] /\ h \in [Block -> BlockRecord] /\ P \in Objects
      /\ \A c \in Block : SoundFor(h[c], In(P, c))
  BY <1>3 DEF SoundBlocks
<1>9. g \in [Block -> BlockRecord] /\ g[b] = s /\ \A c \in Block : c # b => g[c] = f[c]
  BY <1>6, <1>7, <1>8
<1>10. \A c \in Block : SoundFor(g[c], In(P, c))
  BY <1>3, <1>6, <1>8, <1>9
<1> QED
  BY <1>2, <1>3, <1>4, <1>6, <1>8, <1>9, <1>10 DEF SoundBlocks

\* One object of b goes, and what is left of b serves the others.
LEMMA LosesIs ==
    ASSUME NEW f, NEW O, SoundBlocks(f, O), NEW o \in O, NEW s \in BlockRecord,
           SoundFor(s, In(O, o[1]) \ {o}), NEW g, g = [f EXCEPT ![o[1]] = s]
    PROVE  SoundBlocks(g, O \ {o})
<1>1. f \in [Block -> BlockRecord] /\ O \in Objects /\ o[1] \in Block /\ \A c \in Block : SoundFor(f[c], In(O, c))
  BY DEF SoundBlocks, Objects
<1>2. PICK b \in Block : b = o[1]
  BY <1>1
<1>3. g \in [Block -> BlockRecord] /\ g[b] = s /\ \A c \in Block : c # b => g[c] = f[c]
  BY <1>1, <1>2
<1>4. In(O \ {o}, b) = In(O, b) \ {o} /\ \A c \in Block : c # b => In(O \ {o}, c) = In(O, c)
  BY <1>2 DEF In
<1>5. O \ {o} \in Objects
  BY <1>1 DEF Objects
<1>6. \A c \in Block : SoundFor(g[c], In(O \ {o}, c))
  BY <1>1, <1>2, <1>3, <1>4
<1> QED
  BY <1>2, <1>3, <1>5, <1>6 DEF SoundBlocks

\* In a list that a search has put into order,
LEMMA BusyReordered ==
    ASSUME NEW l \in Seq(Block), IsInjective(l), NEW k \in 0..Len(l), NEW g,
           \A j \in 1..Len(l) : j # k => g[l[j]].bs # {}
    PROVE  BusyBehind(Reordered(l, k), g)
<1>1. PICK m : m = Reordered(l, k)
  OBVIOUS
<1>2. \A i \in 2..Len(m) : \E j \in 1..Len(l) : j # k /\ m[i] = l[j]
  BY <1>1, ReorderedIs
<1> QED
  BY <1>1, <1>2 DEF BusyBehind

\* ... that a block came to,
LEMMA BusyPushed ==
    ASSUME NEW l \in Seq(Block), IsInjective(l), NEW b \in Block, b \notin Range(l), NEW g,
           \A j \in 1..Len(l) : g[l[j]].bs # {}
    PROVE  BusyBehind(<<b>> \o l, g)
<1>1. PICK m : m = <<b>> \o l
  OBVIOUS
<1>2. \A i \in 2..Len(m) : i - 1 \in 1..Len(l) /\ m[i] = l[i - 1]
  BY <1>1, PushedIs
<1> QED
  BY <1>1, <1>2 DEF BusyBehind

\* ... that one left that was not the front,
LEMMA BusyDropped ==
    ASSUME NEW l \in Seq(Block), IsInjective(l), NEW b, b \in Range(l), b # l[1], NEW f, NEW g,
           BusyBehind(l, f), \A c \in Range(l) : c # b => g[c].bs = f[c].bs
    PROVE  BusyBehind(Drop(l, b), g)
<1>1. PICK m : m = Drop(l, b)
  OBVIOUS
<1>2. /\ m \in Seq(Block) /\ \A z : z \in Range(m) <=> z # b /\ z \in Range(l)
      /\ \A i \in 2..Len(m) : \E j \in 2..Len(l) : m[i] = l[j]
  BY <1>1, DroppedIs
<1>3. ASSUME NEW i \in 2..Len(m) PROVE g[m[i]].bs # {}
  <2>1. PICK j \in 2..Len(l) : m[i] = l[j]
    BY <1>2
  <2>2. m[i] \in Range(m)
    <3>1. i \in 1..Len(m)
      BY <1>2
    <3> QED
      BY <1>2, <3>1, RangeIs
  <2>3. g[l[j]].bs = f[l[j]].bs
    BY <1>2, <2>1, <2>2
  <2> QED
    BY <2>1, <2>3 DEF BusyBehind
<1> QED
  BY <1>1, <1>3 DEF BusyBehind

\* ... and in one whose blocks keep their bits, or have some.
LEMMA BusyStays ==
    ASSUME NEW l \in Seq(Block), NEW f, NEW g, BusyBehind(l, f),
           \A c \in Range(l) : f[c].bs # {} => g[c].bs # {} \/ c = l[1],
           IsInjective(l)
    PROVE  BusyBehind(l, g)
<1>1. ASSUME NEW i \in 2..Len(l) PROVE g[l[i]].bs # {}
  <2>1. i \in 1..Len(l) /\ 1 \in 1..Len(l) /\ i # 1
    OBVIOUS
  <2>2. l[i] \in Range(l) /\ l[i] # l[1]
    BY <2>1, RangeIs
  <2>3. f[l[i]].bs # {}
    BY DEF BusyBehind
  <2> QED
    BY <2>2, <2>3
<1> QED
  BY <1>1 DEF BusyBehind

-----------------------------------------------------------------------------
(***************************************************************************)
(* The state.                                                              *)
(***************************************************************************)
\* b serves a thread.
Serves(b) == \E t \in Thread : b \in Range(lsa[t]) \/ b \in Range(lla[t])

\* A block is in one list of one thread.
LEMMA OneList ==
    ASSUME ListTypes, OwnersKnown
    PROVE  /\ \A t \in Thread : /\ lsa[t] \in Seq(Small) /\ lsa[t] \in Seq(Block) /\ Range(lsa[t]) \subseteq Small
                               /\ lla[t] \in Seq(Large) /\ lla[t] \in Seq(Block) /\ Range(lla[t]) \subseteq Large
           /\ \A t, u \in Thread : \A b : b \in Range(lsa[t]) /\ b \in Range(lsa[u]) => t = u
           /\ \A t, u \in Thread : \A b : b \in Range(lla[t]) /\ b \in Range(lla[u]) => t = u
           /\ \A t, u \in Thread : \A b : ~(b \in Range(lsa[t]) /\ b \in Range(lla[u]))
<1>1. ASSUME NEW t \in Thread
      PROVE  /\ lsa[t] \in Seq(Small) /\ lsa[t] \in Seq(Block) /\ Range(lsa[t]) \subseteq Small
             /\ lla[t] \in Seq(Large) /\ lla[t] \in Seq(Block) /\ Range(lla[t]) \subseteq Large
  <2>1. lsa[t] \in Seq(Small) /\ lla[t] \in Seq(Large)
    BY DEF ListTypes
  <2>2. Small \subseteq Block /\ Large \subseteq Block
    BY DEF Block
  <2>3. lsa[t] \in Seq(Block) /\ lla[t] \in Seq(Block)
    BY <2>1, <2>2
  <2> QED
    BY <2>1, <2>3, RangeIs
<1>2. \A t \in Thread : \A b : b \in Range(lsa[t]) \/ b \in Range(lla[t]) => b \in Block
  BY <1>1 DEF Block
<1>3. \A t \in Thread : \A b : b \in Range(lsa[t]) \/ b \in Range(lla[t]) => blk[b].ta = t
  BY <1>2 DEF OwnersKnown
<1>4. \A b \in Small : b \notin Large
  BY SmallIs
<1> QED
  BY <1>1, <1>3, <1>4

\* The thread a block names is the one it serves.
LEMMA Named ==
    ASSUME ListTypes, OwnersKnown, NEW b \in Block, NEW t \in Thread, blk[b].ta = t
    PROVE  /\ b \in Small => b \in Range(lsa[t])
           /\ b \in Large => b \in Range(lla[t])
<1>1. blk[b] # Blank
  BY AllocAssumption DEF Blank
<1>2. PICK u \in Thread : b \in Range(lsa[u]) \/ b \in Range(lla[u])
  BY <1>1 DEF OwnersKnown
<1>3. u = t
  BY <1>2 DEF OwnersKnown
<1>4. b \in Small => b \notin Large
  BY SmallIs
<1> QED
  BY <1>2, <1>3, <1>4, OneList

\* What comes knows its thread, what goes is blank, and the others keep theirs.
LEMMA OwnersMove ==
    ASSUME ListTypes, OwnersKnown, NEW t \in Thread,
           NEW InS \in SUBSET Small, NEW OutS \in SUBSET Small, NEW InA \in SUBSET Large, NEW OutA \in SUBSET Large,
           Moved(lsa, lsa', Small, t, InS, OutS), Moved(lla, lla', Large, t, InA, OutA),
           \A b \in InS \cup InA : ~Serves(b) /\ blk'[b].ta = t,
           \A b \in OutS : b \in Range(lsa[t]) /\ blk'[b] = Blank,
           \A b \in OutA : b \in Range(lla[t]) /\ blk'[b] = Blank,
           \A b \in Block : Serves(b) /\ b \notin OutS \cup OutA => blk'[b].ta = blk[b].ta,
           \A b \in Block : ~Serves(b) /\ b \notin InS \cup InA => blk'[b] = blk[b] \/ blk'[b] = Blank
    PROVE  OwnersKnown'
<1>1. /\ \A u \in Thread : \A b : b \in Range(lsa'[u]) <=>
            (b \in Range(lsa[u]) /\ ~(u = t /\ b \in OutS)) \/ (u = t /\ b \in InS)
      /\ \A u \in Thread : \A b : b \in Range(lla'[u]) <=>
            (b \in Range(lla[u]) /\ ~(u = t /\ b \in OutA)) \/ (u = t /\ b \in InA)
  BY DEF Moved
<1>2. ASSUME NEW u \in Thread, NEW b \in Block, b \in Range(lsa'[u]) \/ b \in Range(lla'[u])
      PROVE  blk'[b].ta = u
  <2>1. CASE b \in InS \cup InA
    <3>1. b \notin Range(lsa[u]) /\ b \notin Range(lla[u])
      BY <2>1 DEF Serves
    <3>2. u = t
      BY <1>1, <1>2, <3>1
    <3> QED
      BY <2>1, <3>2
  <2>2. CASE b \notin InS \cup InA
    <3>1. (b \in Range(lsa[u]) /\ ~(u = t /\ b \in OutS)) \/ (b \in Range(lla[u]) /\ ~(u = t /\ b \in OutA))
      BY <1>1, <1>2, <2>2
    <3>2. b \notin OutS \cup OutA
      <4>1. CASE b \in OutS
        <5>1. b \in Range(lsa[t])
          BY <4>1
        <5> QED
          BY <3>1, <4>1, <5>1, OneList
      <4>2. CASE b \in OutA
        <5>1. b \in Range(lla[t])
          BY <4>2
        <5> QED
          BY <3>1, <4>2, <5>1, OneList
      <4> QED
        BY <4>1, <4>2
    <3>3. Serves(b) /\ blk[b].ta = u
      BY <3>1 DEF Serves, OwnersKnown
    <3> QED
      BY <3>2, <3>3
  <2> QED
    BY <2>1, <2>2
<1>3. ASSUME NEW b \in Block, \A u \in Thread : b \notin Range(lsa'[u]) /\ b \notin Range(lla'[u])
      PROVE  blk'[b] = Blank
  <2>1. b \notin InS \cup InA
    BY <1>1, <1>3
  <2>2. CASE Serves(b)
    <3>1. b \in OutS \cup OutA
      BY <1>1, <1>3, <2>2 DEF Serves
    <3> QED
      BY <3>1
  <2>3. CASE ~Serves(b)
    <3>1. blk[b] = Blank
      BY <2>3 DEF Serves, OwnersKnown
    <3> QED
      BY <2>1, <2>3, <3>1
  <2> QED
    BY <2>2, <2>3
<1> QED
  BY <1>2, <1>3 DEF OwnersKnown

\* The lists of the other threads stay as they are, and their blocks in use.
LEMMA BusyMove ==
    ASSUME ListTypes, LargeListed, SmallListed, Busy, NEW t \in Thread,
           \A u \in Thread : u # t => lsa'[u] = lsa[u] /\ lla'[u] = lla[u],
           \A u \in Thread : u # t =>
              \A b : b \in Range(lsa[u]) \/ b \in Range(lla[u]) => blk'[b].bs = blk[b].bs,
           BusyBehind(lsa'[t], blk'), BusyBehind(lla'[t], blk')
    PROVE  Busy'
<1>1. ASSUME NEW u \in Thread, u # t
      PROVE  BusyBehind(lsa'[u], blk') /\ BusyBehind(lla'[u], blk')
  <2>1. PICK l \in Seq(Block), m \in Seq(Block) : l = lsa[u] /\ m = lla[u]
    <3>1. lsa[u] \in Seq(Small) /\ lla[u] \in Seq(Large)
      BY DEF ListTypes
    <3>2. Small \subseteq Block /\ Large \subseteq Block
      BY DEF Block
    <3> QED
      BY <3>1, <3>2
  <2>2. IsInjective(l) /\ IsInjective(m) /\ BusyBehind(l, blk) /\ BusyBehind(m, blk)
    BY <2>1 DEF LargeListed, SmallListed, Busy
  <2>3. PICK g : g = blk'
    OBVIOUS
  <2>4. \A b : b \in Range(l) \/ b \in Range(m) => g[b].bs = blk[b].bs
    BY <1>1, <2>1, <2>3
  <2>7. \A b : b \in Range(l) \/ b \in Range(m) => (blk[b].bs # {} => g[b].bs # {})
    BY <2>4
  <2>8. PICK f : f = blk
    OBVIOUS
  <2>5. BusyBehind(l, g)
    BY <2>2, <2>7, <2>8, BusyStays
  <2>6. BusyBehind(m, g)
    BY <2>2, <2>7, <2>8, BusyStays
  <2> QED
    BY <1>1, <2>1, <2>3, <2>5, <2>6
<1>2. \A u \in Thread : BusyBehind(lsa'[u], blk') /\ BusyBehind(lla'[u], blk')
  BY <1>1
<1> QED
  BY <1>2 DEF Busy

\* Nothing comes or goes.
LEMMA StaysInv ==
    ASSUME HeapInv, NEW t \in Thread, HugeTypes', HugeListed', hbits' = hbits, lbits' = lbits,
           Moved(llb, llb', Large, t, {}, {}), Moved(lla, lla', Large, t, {}, {}), Moved(lsa, lsa', Small, t, {}, {}),
           SoundBlocks(blk', inUse'),
           \A b \in Block : blk'[b].ta = blk[b].ta /\ (~Serves(b) => blk'[b] = blk[b]),
           Busy'
    PROVE  HeapInv'
<1>1. ListTypes'
  BY DEF Moved, HeapInv, ListTypes
<1>2. LargeListed' /\ SmallListed'
  <2>1. PICK e : e = {} /\ e \in SUBSET Large /\ e \in SUBSET Small
    OBVIOUS
  <2>2. Moved(llb, llb', Large, t, e, e) /\ Moved(lla, lla', Large, t, e, e) /\ Moved(lsa, lsa', Small, t, e, e)
    BY <2>1
  <2>3. LargeListed /\ SmallListed /\ lbits' \in [Large -> SUBSET (1..PerLarge)]
    BY DEF HeapInv, ListTypes
  <2>4. /\ \A c \in Large : c[2] \in hbits'[c[1]] <=> (c[2] \in hbits[c[1]] /\ c \notin e \cup e) \/ c \in e \cup e
        /\ \A s \in Small : s[2] \in lbits'[s[1]] <=> (s[2] \in lbits[s[1]] /\ s \notin e) \/ s \in e
    BY <2>1
  <2>5. \A c : c \notin e /\ c \notin e \cup e
    BY <2>1
  <2> QED
    BY <2>1, <2>2, <2>3, <2>4, <2>5, TreeMoves
<1>3. OwnersKnown'
  BY OwnersMove DEF HeapInv
<1> QED
  BY <1>1, <1>2, <1>3 DEF HeapInv

\* The first block that has room for n units serves them.
LEMMA ServedIs ==
    ASSUME SoundBlocks(blk, inUse), NEW l \in Seq(Block), IsInjective(l), BusyBehind(l, blk),
           NEW n \in 1..Units, NEW k, k = ServerFor(l, n), k # 0, Serve(l, n, k)
    PROVE  /\ k \in 1..Len(l) /\ SoundBlocks(blk', inUse')
           /\ \A b \in Block : blk'[b].ta = blk[b].ta /\ (b \notin Range(l) => blk'[b] = blk[b])
           /\ \A j \in 1..Len(l) : blk'[l[j]].bs # {}
<1>1. PICK f : f = Searched(l, k)
  OBVIOUS
<1>2. /\ k \in 0..Len(l) /\ SoundBlocks(f, inUse) /\ Fits(f[l[k]], n)
      /\ \A b \in Block : f[b].ta = blk[b].ta /\ (b \notin Range(l) => f[b] = blk[b])
      /\ \A j \in 1..Len(l) : j # k => f[l[j]].bs # {}
  BY <1>1, SearchIs
<1>3. Len(l) \in Nat /\ k \in 1..Len(l)
  BY <1>2
<1>4. PICK b \in Block : b = l[k] /\ b \in Range(l)
  BY <1>3, RangeIs
<1>5. PICK o, s : o = Made(b, f[b], n) /\ s = With(f[b], n)
  OBVIOUS
<1>6. blk' = [f EXCEPT ![b] = s] /\ inUse' = inUse \cup {o}
  BY <1>1, <1>4, <1>5 DEF Serve, Uses, Made
<1>7. PICK g, P : g = blk' /\ P = inUse'
  OBVIOUS
<1>8. Fits(f[b], n)
  BY <1>2, <1>4
<1>9. /\ SoundBlocks(g, inUse \cup {o}) /\ g[b] = s /\ s.bs # {} /\ s.ta = f[b].ta
      /\ \A c \in Block : c # b => g[c] = f[c]
  <2>1. g = [f EXCEPT ![b] = s] /\ f \in [Block -> BlockRecord]
    BY <1>2, <1>6, <1>7 DEF SoundBlocks
  <2>2. SoundBlocks(g, inUse \cup {o})
    BY ONLY <1>2, <1>5, <1>8, <2>1, n \in 1..Units, ServeIs
  <2>3. f[b] \in BlockRecord /\ In(inUse, b) \in Objects /\ SoundFor(f[b], In(inUse, b))
    BY <1>2, InIs DEF SoundBlocks
  <2>4. s.bs # {} /\ s.ta = f[b].ta
    BY <1>5, <1>8, <2>3, WithIs
  <2> QED
    BY <2>1, <2>2, <2>4
<1>10. ASSUME NEW j \in 1..Len(l) PROVE g[l[j]].bs # {}
  <2>1. PICK c \in Block : c = l[j]
    OBVIOUS
  <2>2. CASE c = b
    BY <1>9, <2>1, <2>2
  <2>3. CASE c # b
    <3>1. j # k /\ g[c] = f[c]
      BY <1>4, <1>9, <2>1, <2>3
    <3>2. f[c].bs # {}
      BY <1>2, <2>1, <3>1
    <3> QED
      BY <2>1, <3>1, <3>2
  <2> QED
    BY <2>2, <2>3
<1>11. \A c \in Block : g[c].ta = blk[c].ta /\ (c \notin Range(l) => g[c] = blk[c])
  <2> TAKE c \in Block
  <2>1. CASE c = b
    BY <1>2, <1>4, <1>9, <2>1
  <2>2. CASE c # b
    BY <1>2, <1>9, <2>2
  <2> QED
    BY <2>1, <2>2
<1> QED
  BY <1>3, <1>6, <1>7, <1>9, <1>10, <1>11

\* What an alloc() of a small object leaves that found no block.
LEMMA LeftIs ==
    ASSUME HeapInv, NEW t \in Thread, NEW n \in 1..Units, NEW aligned, Failed(t, n, aligned),
           NEW f, f = LeftBlocks(t, aligned), NEW m, m = LeftList(t, aligned)
    PROVE  /\ SoundBlocks(f, inUse)
           /\ \A b \in Block : f[b].ta = blk[b].ta /\ (b \notin Range(lsa[t]) => f[b] = blk[b])
           /\ m \in Seq(Small) /\ m \in Seq(Block) /\ IsInjective(m) /\ \A b : b \in Range(m) <=> b \in Range(lsa[t])
           /\ \A j \in 1..Len(m) : f[m[j]].bs # {}
<1>1. PICK l \in Seq(Block) : l = lsa[t] /\ l \in Seq(Small)
  BY OneList DEF HeapInv
<1>2. SoundBlocks(blk, inUse) /\ IsInjective(l) /\ BusyBehind(l, blk)
  BY <1>1 DEF HeapInv, SmallListed, Busy
<1>3. Small \subseteq Block
  BY DEF Block
<1>4. CASE aligned
  <2>1. f = blk /\ m = l /\ ~FrontFits(l, n)
    BY <1>1, <1>4 DEF LeftBlocks, LeftList, Failed
  <2>2. ASSUME NEW j \in 1..Len(l) PROVE blk[l[j]].bs # {}
    <3>1. CASE j = 1
      <4>1. PICK b \in Block : b = l[1]
        BY <3>1
      <4>2. ~Fits(blk[b], n)
        BY <2>1, <3>1, <4>1 DEF FrontFits
      <4>3. blk[b] \in BlockRecord /\ SoundFor(blk[b], In(inUse, b))
        BY <1>2 DEF SoundBlocks
      <4> QED
        BY <3>1, <4>1, <4>2, <4>3, FullIs
    <3>2. CASE j # 1
      <4>1. j \in 2..Len(l)
        BY <3>2
      <4> QED
        BY <1>2, <4>1 DEF BusyBehind
    <3> QED
      BY <3>1, <3>2
  <2> QED
    BY <1>1, <1>2, <2>1, <2>2
<1>5. CASE ~aligned
  <2>1. f = Searched(l, 0) /\ m = Reordered(l, 0) /\ 0 = ServerFor(l, n)
    BY <1>1, <1>5 DEF LeftBlocks, LeftList, Failed
  <2>2. /\ SoundBlocks(f, inUse)
        /\ \A b \in Block : f[b].ta = blk[b].ta /\ (b \notin Range(l) => f[b] = blk[b])
        /\ \A j \in 1..Len(l) : f[l[j]].bs # {}
    <3>1. PICK k : k = 0
      OBVIOUS
    <3>2. /\ SoundBlocks(f, inUse)
          /\ \A b \in Block : f[b].ta = blk[b].ta /\ (b \notin Range(l) => f[b] = blk[b])
          /\ \A j \in 1..Len(l) : j # k => f[l[j]].bs # {}
      BY <1>2, <2>1, <3>1, SearchIs
    <3>3. \A j \in 1..Len(l) : j # k
      BY <3>1
    <3> QED
      BY <3>2, <3>3
  <2>3. /\ m \in Seq(Small) /\ IsInjective(m) /\ \A b : b \in Range(m) <=> b \in Range(l)
    <3>1. 0 \in 0..Len(l)
      OBVIOUS
    <3> QED
      BY <1>1, <1>2, <2>1, <3>1, ReorderedIs
  <2>4. ASSUME NEW j \in 1..Len(m) PROVE f[m[j]].bs # {}
    <3>1. PICK c : c = m[j]
      OBVIOUS
    <3>2. c \in Range(l)
      BY <2>3, <3>1, RangeIs
    <3>3. PICK i \in 1..Len(l) : l[i] = c
      BY <3>2, RangeIs
    <3> QED
      BY <2>2, <3>1, <3>3
  <2>5. m \in Seq(Block)
    BY <1>3, <2>3
  <2> QED
    BY <1>1, <2>2, <2>3, <2>4, <2>5
<1> QED
  BY <1>4, <1>5

-----------------------------------------------------------------------------
(***************************************************************************)
(* The steps.                                                              *)
(***************************************************************************)
\* The lists and what they hold.
LEMMA ListsAre ==
    ASSUME HeapInv, NEW t \in Thread
    PROVE  /\ llb \in [Thread -> Seq(Large)] /\ \A u \in Thread : IsInjective(llb[u])
           /\ lla \in [Thread -> Seq(Large)] /\ \A u \in Thread : IsInjective(lla[u])
           /\ lsa \in [Thread -> Seq(Small)] /\ \A u \in Thread : IsInjective(lsa[u])
           /\ Moved(llb, llb, Large, t, {}, {}) /\ Moved(lla, lla, Large, t, {}, {})
           /\ Moved(lsa, lsa, Small, t, {}, {})
           /\ lsa[t] \in Seq(Block) /\ lla[t] \in Seq(Block)
           /\ BusyBehind(lsa[t], blk) /\ BusyBehind(lla[t], blk)
<1>1. /\ llb \in [Thread -> Seq(Large)] /\ \A u \in Thread : IsInjective(llb[u])
      /\ lla \in [Thread -> Seq(Large)] /\ \A u \in Thread : IsInjective(lla[u])
      /\ lsa \in [Thread -> Seq(Small)] /\ \A u \in Thread : IsInjective(lsa[u])
  BY DEF HeapInv, ListTypes, LargeListed, SmallListed
<1>2. lsa[t] \in Seq(Block) /\ lla[t] \in Seq(Block) /\ BusyBehind(lsa[t], blk) /\ BusyBehind(lla[t], blk)
  BY OneList DEF HeapInv, Busy
<1> QED
  BY <1>1, <1>2, StaysIs

\* Only blocks of one list of t change.
LEMMA BusyOne ==
    ASSUME HeapInv, NEW t \in Thread,
           \A u \in Thread : u # t => lsa'[u] = lsa[u] /\ lla'[u] = lla[u],
           \/ /\ \A b \in Block : Serves(b) /\ b \notin Range(lsa[t]) => blk'[b].bs = blk[b].bs
              /\ lla'[t] = lla[t] /\ BusyBehind(lsa'[t], blk')
           \/ /\ \A b \in Block : Serves(b) /\ b \notin Range(lla[t]) => blk'[b].bs = blk[b].bs
              /\ lsa'[t] = lsa[t] /\ BusyBehind(lla'[t], blk')
    PROVE  Busy'
<1>1. /\ \A u \in Thread : Range(lsa[u]) \subseteq Small /\ Range(lla[u]) \subseteq Large
      /\ Small \subseteq Block /\ Large \subseteq Block
  BY OneList DEF HeapInv, Block
<1>2. /\ \A u \in Thread : u # t => \A b : b \in Range(lsa[u]) \/ b \in Range(lla[u]) =>
            b \notin Range(lsa[t]) /\ b \notin Range(lla[t])
      /\ \A b : ~(b \in Range(lsa[t]) /\ b \in Range(lla[t]))
  BY OneList DEF HeapInv
<1>3. \A u \in Thread : u # t => \A b : b \in Range(lsa[u]) \/ b \in Range(lla[u]) => blk'[b].bs = blk[b].bs
  BY <1>1, <1>2 DEF Serves
<1>4. PICK f, g : f = blk /\ g = blk'
  OBVIOUS
<1>5. BusyBehind(lsa'[t], blk') /\ BusyBehind(lla'[t], blk')
  <2>1. CASE /\ \A b \in Block : Serves(b) /\ b \notin Range(lsa[t]) => blk'[b].bs = blk[b].bs
             /\ lla'[t] = lla[t] /\ BusyBehind(lsa'[t], blk')
    <3>1. PICK m \in Seq(Block) : m = lla[t] /\ IsInjective(m) /\ BusyBehind(m, f)
      BY <1>4, ListsAre
    <3>2. \A b \in Range(m) : f[b].bs # {} => g[b].bs # {}
      BY <1>1, <1>2, <1>4, <2>1, <3>1 DEF Serves
    <3>3. BusyBehind(m, g)
      BY <3>1, <3>2, BusyStays
    <3> QED
      BY <1>4, <2>1, <3>1, <3>3
  <2>2. CASE /\ \A b \in Block : Serves(b) /\ b \notin Range(lla[t]) => blk'[b].bs = blk[b].bs
             /\ lsa'[t] = lsa[t] /\ BusyBehind(lla'[t], blk')
    <3>1. PICK m \in Seq(Block) : m = lsa[t] /\ IsInjective(m) /\ BusyBehind(m, f)
      BY <1>4, ListsAre
    <3>2. \A b \in Range(m) : f[b].bs # {} => g[b].bs # {}
      BY <1>1, <1>2, <1>4, <2>2, <3>1 DEF Serves
    <3>3. BusyBehind(m, g)
      BY <3>1, <3>2, BusyStays
    <3> QED
      BY <1>4, <2>2, <3>1, <3>3
  <2> QED
    BY <2>1, <2>2
<1> QED
  BY <1>3, <1>5, BusyMove DEF HeapInv

\* An alloc() that a small block of the list serves.
LEMMA SmallServes ==
    ASSUME HeapInv, NEW t \in Thread, NEW n \in 1..Units, NEW k, k = ServerFor(lsa[t], n), k # 0,
           Serve(lsa[t], n, k), lsa' = [lsa EXCEPT ![t] = Reordered(lsa[t], k)],
           UNCHANGED <<lhb, hbits, llb, lbits, lla>>
    PROVE  HeapInv'
<1>1. PICK l \in Seq(Block) : l = lsa[t] /\ l \in Seq(Small) /\ IsInjective(l) /\ BusyBehind(l, blk)
  BY ListsAre
<1>2. SoundBlocks(blk, inUse)
  BY DEF HeapInv
<1>3. /\ k \in 1..Len(l) /\ SoundBlocks(blk', inUse')
      /\ \A b \in Block : blk'[b].ta = blk[b].ta /\ (b \notin Range(l) => blk'[b] = blk[b])
      /\ \A j \in 1..Len(l) : blk'[l[j]].bs # {}
  BY <1>1, <1>2, ServedIs
<1>4. PICK m : m = Reordered(l, k)
  OBVIOUS
<1>5. m \in Seq(Small) /\ IsInjective(m) /\ \A z : z \in Range(m) <=> z \in Range(l)
  BY <1>1, <1>3, <1>4, ReorderedIs
<1>6. PICK g : g = blk'
  OBVIOUS
<1>7. BusyBehind(m, g)
  <2>1. k \in 0..Len(l) /\ \A j \in 1..Len(l) : j # k => g[l[j]].bs # {}
    BY <1>3, <1>6
  <2> QED
    BY ONLY <1>1, <1>4, <2>1, BusyReordered
<1>8. lsa' = [lsa EXCEPT ![t] = m]
  BY <1>1, <1>4
<1>9. lsa'[t] = m /\ \A u \in Thread : u # t => lsa'[u] = lsa[u]
  BY <1>8, ListsAre
<1>10. Moved(lsa, lsa', Small, t, {}, {})
  BY <1>1, <1>5, <1>8, ListsAre, MovedIs
<1>11. Busy'
  BY <1>1, <1>3, <1>6, <1>7, <1>9, BusyOne
<1>12. HugeTypes' /\ HugeListed' /\ Moved(llb, llb', Large, t, {}, {}) /\ Moved(lla, lla', Large, t, {}, {})
  BY ListsAre DEF HeapInv, HugeTypes, HugeListed
<1> QED
  BY <1>1, <1>3, <1>10, <1>11, <1>12, StaysInv DEF Serves

\* An alloc() that a large block of the list serves.
LEMMA LargeServes ==
    ASSUME HeapInv, NEW t \in Thread, NEW n \in 1..Units, AllocLarge(t, n)
    PROVE  HeapInv'
<1>1. PICK l \in Seq(Block) : l = lla[t] /\ l \in Seq(Large) /\ IsInjective(l) /\ BusyBehind(l, blk)
  BY ListsAre
<1>2. PICK k : k = ServerFor(l, n)
  OBVIOUS
<1>3. SoundBlocks(blk, inUse)
  BY DEF HeapInv
<1>4. /\ k # 0 /\ Serve(l, n, k) /\ lla' = [lla EXCEPT ![t] = Reordered(l, k)]
      /\ UNCHANGED <<lhb, hbits, llb, lbits, lsa>>
  BY <1>1, <1>2 DEF AllocLarge
<1>5. /\ k \in 1..Len(l) /\ SoundBlocks(blk', inUse')
      /\ \A b \in Block : blk'[b].ta = blk[b].ta /\ (b \notin Range(l) => blk'[b] = blk[b])
      /\ \A j \in 1..Len(l) : blk'[l[j]].bs # {}
  BY <1>1, <1>2, <1>3, <1>4, ServedIs
<1>6. PICK m : m = Reordered(l, k)
  OBVIOUS
<1>7. m \in Seq(Large) /\ IsInjective(m) /\ \A z : z \in Range(m) <=> z \in Range(l)
  BY <1>1, <1>5, <1>6, ReorderedIs
<1>8. PICK g : g = blk'
  OBVIOUS
<1>9. BusyBehind(m, g)
  <2>1. k \in 0..Len(l) /\ \A j \in 1..Len(l) : j # k => g[l[j]].bs # {}
    BY <1>5, <1>8
  <2> QED
    BY <1>1, <1>6, <2>1, BusyReordered
<1>10. lla' = [lla EXCEPT ![t] = m]
  BY <1>4, <1>6
<1>11. lla'[t] = m /\ \A u \in Thread : u # t => lla'[u] = lla[u]
  BY <1>10, ListsAre
<1>12. Moved(lla, lla', Large, t, {}, {})
  BY <1>1, <1>7, <1>10, ListsAre, MovedIs
<1>13. Busy'
  BY <1>1, <1>4, <1>5, <1>8, <1>9, <1>11, BusyOne
<1>14. HugeTypes' /\ HugeListed' /\ Moved(llb, llb', Large, t, {}, {}) /\ Moved(lsa, lsa', Small, t, {}, {})
  BY <1>4, ListsAre DEF HeapInv, HugeTypes, HugeListed
<1> QED
  BY <1>1, <1>4, <1>5, <1>12, <1>13, <1>14, StaysInv DEF Serves

\* A blank block that t takes serves n units.
LEMMA NewServes ==
    ASSUME NEW f, SoundBlocks(f, inUse), NEW b \in Block, f[b] = Blank, NEW n \in 1..Units, NEW t \in Thread,
           ServeNew(t, b, n, f)
    PROVE  /\ SoundBlocks(blk', inUse') /\ blk'[b].bs # {} /\ blk'[b].ta = t
           /\ \A c \in Block : c # b => blk'[c] = f[c]
<1>1. PICK o, q, r : o = Made(b, f[b], n) /\ q = [With(f[b], n) EXCEPT !.ta = t] /\ r = With(f[b], n)
  OBVIOUS
<1>2. PICK g, P : g = blk' /\ P = inUse'
  OBVIOUS
<1>3. g = [f EXCEPT ![b] = q] /\ P = inUse \cup {o}
  BY <1>1, <1>2 DEF ServeNew, Uses, Made
<1>4. SoundBlocks(f, inUse) /\ b \in Block /\ f[b] = Blank /\ n \in 1..Units /\ t \in Thread
  OBVIOUS
<1>5. SoundBlocks(g, inUse \cup {o})
  BY ONLY <1>1, <1>3, <1>4, ServeNewIs
<1>6. f[b] \in BlockRecord /\ In(inUse, b) \in Objects /\ SoundFor(f[b], In(inUse, b)) /\ Fits(f[b], n)
  BY InIs, BlankIs, AllocAssumption DEF SoundBlocks, Fits
<1>7. r \in BlockRecord /\ r.bs # {} /\ SoundFor(r, In(inUse, b) \cup {<<b, f[b].bit, n>>})
  BY <1>1, <1>6, WithIs
<1>8. q = [r EXCEPT !.ta = t] /\ t \in Thread \cup {None}
  BY <1>1
<1>9. q.ta = t /\ q.bs = r.bs
  BY ONLY <1>7, <1>8, OwnerIs
<1>10. g[b] = q /\ \A c \in Block : c # b => g[c] = f[c]
  BY <1>3 DEF SoundBlocks
<1> QED
  BY <1>2, <1>3, <1>5, <1>7, <1>9, <1>10

\* The small block that is cut was free.
LEMMA CutIs ==
    ASSUME ListTypes, NEW b \in Small, lbits[b[1]] # 1..PerLarge, Cut(b)
    PROVE  /\ lbits' \in [Large -> SUBSET (1..PerLarge)] /\ b[2] \notin lbits[b[1]]
           /\ \A s \in Small : s[2] \in lbits'[s[1]] <=> s[2] \in lbits[s[1]] \/ s = b
<1>1. PICK c \in Large, j \in 1..PerLarge : c = b[1] /\ j = b[2] /\ b = <<c, j>>
  BY SmallIs
<1>2. j \notin lbits[c]
  <2>1. PICK T : T = 1..PerLarge \ lbits[c]
    OBVIOUS
  <2>2. lbits[c] \in SUBSET (1..PerLarge) /\ lbits[c] # 1..PerLarge
    BY <1>1 DEF ListTypes
  <2>3. PICK i \in 1..PerLarge : i \notin lbits[c]
    BY ONLY <2>2
  <2>4. T # {} /\ T \in SUBSET Nat
    BY <2>1, <2>3
  <2>5. j = Lowest(T)
    BY <1>1, <2>1 DEF Cut
  <2> QED
    BY <2>1, <2>4, <2>5, LowestIs
<1>3. lbits' = [lbits EXCEPT ![c] = @ \cup {j}]
  BY <1>1 DEF Cut
<1>4. /\ lbits' \in [Large -> SUBSET (1..PerLarge)] /\ lbits'[c] = lbits[c] \cup {j}
      /\ \A d \in Large : d # c => lbits'[d] = lbits[d]
  BY <1>3 DEF ListTypes
<1>5. ASSUME NEW s \in Small PROVE s[2] \in lbits'[s[1]] <=> s[2] \in lbits[s[1]] \/ s = b
  <2>1. PICK d \in Large, i \in 1..PerLarge : d = s[1] /\ i = s[2] /\ s = <<d, i>>
    BY SmallIs
  <2>2. s = b <=> d = c /\ i = j
    BY <1>1, <2>1
  <2>3. i \in lbits'[d] <=> i \in lbits[d] \/ (d = c /\ i = j)
    BY <1>4
  <2> QED
    BY <2>1, <2>2, <2>3
<1> QED
  BY <1>1, <1>2, <1>4, <1>5

\* A small block is cut, and serves.
LEMMA NewSmall ==
    ASSUME HeapInv, NEW t \in Thread, NEW n \in 1..Units, NEW aligned, Failed(t, n, aligned),
           NEW b \in Small, HugeTypes', HugeListed', lbits[b[1]] # 1..PerLarge, Cut(b),
           NEW InB \in SUBSET Large, Moved(llb, llb', Large, t, InB, {}), lla' = lla,
           \A c \in Large : c[2] \in hbits'[c[1]] <=> c[2] \in hbits[c[1]] \/ c \in InB,
           \A c \in InB : c[2] \notin hbits[c[1]],
           b[1] \in InB \/ b[1] \in Range(llb[t]),
           lsa' = [lsa EXCEPT ![t] = <<b>> \o LeftList(t, aligned)],
           ServeNew(t, b, n, LeftBlocks(t, aligned))
    PROVE  HeapInv'
<1>1. PICK f, m : f = LeftBlocks(t, aligned) /\ m = LeftList(t, aligned)
  OBVIOUS
<1>2. /\ SoundBlocks(f, inUse)
      /\ \A c \in Block : f[c].ta = blk[c].ta /\ (c \notin Range(lsa[t]) => f[c] = blk[c])
      /\ m \in Seq(Small) /\ m \in Seq(Block) /\ IsInjective(m) /\ \A c : c \in Range(m) <=> c \in Range(lsa[t])
      /\ \A j \in 1..Len(m) : f[m[j]].bs # {}
  <2>1. HeapInv /\ t \in Thread /\ n \in 1..Units /\ Failed(t, n, aligned)
    OBVIOUS
  <2> QED
    BY ONLY <1>1, <2>1, LeftIs
<1>3. /\ lbits' \in [Large -> SUBSET (1..PerLarge)] /\ b[2] \notin lbits[b[1]]
      /\ \A s \in Small : s[2] \in lbits'[s[1]] <=> s[2] \in lbits[s[1]] \/ s = b
  BY CutIs DEF HeapInv
<1>4. ~Serves(b) /\ b \in Block
  <2>1. \A u \in Thread : b \notin Range(lsa[u])
    BY <1>3 DEF HeapInv, SmallListed
  <2>2. \A u \in Thread : b \notin Range(lla[u])
    <3>1. b \notin Large
      BY SmallIs
    <3> QED
      BY <3>1, OneList DEF HeapInv
  <2> QED
    BY <2>1, <2>2 DEF Serves, Block
<1>5. f[b] = Blank
  <2>1. blk[b] = Blank
    BY <1>4 DEF HeapInv, OwnersKnown, Serves
  <2>2. b \notin Range(lsa[t])
    BY <1>4 DEF Serves
  <2> QED
    BY <1>2, <1>4, <2>1, <2>2
<1>6. PICK g, P : g = blk' /\ P = inUse'
  OBVIOUS
<1>7. SoundBlocks(g, P) /\ g[b].bs # {} /\ g[b].ta = t /\ \A c \in Block : c # b => g[c] = f[c]
  <2>1. ServeNew(t, b, n, f)
    BY <1>1
  <2> QED
    BY <1>2, <1>4, <1>5, <1>6, <2>1, NewServes
<1>8. PICK k : k = <<b>> \o m
  OBVIOUS
<1>9. b \notin Range(m)
  BY <1>2, <1>4 DEF Serves
<1>10. k \in Seq(Small) /\ IsInjective(k) /\ \A z : z \in Range(k) <=> z = b \/ z \in Range(m)
  BY <1>2, <1>8, <1>9, PushedIs
<1>11. lsa' = [lsa EXCEPT ![t] = k]
  BY <1>1, <1>8
<1>12. lsa'[t] = k /\ \A u \in Thread : u # t => lsa'[u] = lsa[u]
  BY <1>11, ListsAre
<1>13. PICK e, i : e = {} /\ e \in SUBSET Small /\ e \in SUBSET Large /\ i = {b} /\ i \in SUBSET Small
  <2>1. {} \in SUBSET Small /\ {} \in SUBSET Large /\ {b} \in SUBSET Small
    OBVIOUS
  <2> QED
    BY ONLY <2>1
<1>14. Moved(lsa, lsa', Small, t, i, e)
  <2>1. \A z : z \in Range(k) <=> (z \in Range(lsa[t]) /\ z \notin e) \/ z \in i
    BY <1>2, <1>10, <1>13
  <2> QED
    BY <1>10, <1>11, <2>1, ListsAre, MovedIs
<1>15. Moved(lla, lla', Large, t, e, e) /\ Moved(llb, llb', Large, t, InB, e)
  BY <1>13, ListsAre
<1>16. LargeListed' /\ SmallListed'
  <2>1. \A c \in Large : c[2] \in hbits'[c[1]] <=> (c[2] \in hbits[c[1]] /\ c \notin e \cup e) \/ c \in InB \cup e
    BY <1>13
  <2>2. \A s \in Small : s[2] \in lbits'[s[1]] <=> (s[2] \in lbits[s[1]] /\ s \notin e) \/ s \in i
    BY <1>3, <1>13
  <2>3. \A c \in InB \cup e : c[2] \notin hbits[c[1]] /\ c \notin InB \cap e
    BY <1>13
  <2>4. \A c \in e : /\ c \in Range(llb[t]) /\ c \notin InB \cup e /\ c \in Range(lla[t])
                     /\ c \in Range(lsa[t]) /\ c \notin i
    BY <1>13
  <2>7. \A s \in Small : s[1] \in e /\ s[2] \in lbits[s[1]] => s \in e
    BY <1>13
  <2>5. \A s \in i : s[1] \in InB \/ (s[1] \in Range(llb[t]) /\ s[1] \notin e)
    BY <1>13
  <2>6. LargeListed /\ SmallListed
    BY DEF HeapInv
  <2> QED
    BY ONLY <1>3, <1>13, <1>14, <1>15, <2>1, <2>2, <2>3, <2>4, <2>5, <2>6, <2>7, t \in Thread, InB \in SUBSET Large,
            HugeTypes', TreeMoves
<1>17. \A c \in Block : c # b => blk'[c].ta = blk[c].ta /\ (c \notin Range(lsa[t]) => blk'[c] = blk[c])
  BY <1>2, <1>6, <1>7
<1>18. OwnersKnown'
  <2>1. \A c \in i \cup e : ~Serves(c) /\ blk'[c].ta = t
    BY <1>4, <1>6, <1>7, <1>13
  <2>2. \A c \in e : c \in Range(lsa[t]) /\ c \in Range(lla[t]) /\ blk'[c] = Blank
    BY <1>13
  <2>3. \A c \in Block : Serves(c) /\ c \notin e \cup e => blk'[c].ta = blk[c].ta
    BY <1>4, <1>17
  <2>4. \A c \in Block : ~Serves(c) /\ c \notin i \cup e => blk'[c] = blk[c] \/ blk'[c] = Blank
    BY <1>13, <1>17 DEF Serves
  <2>5. ListTypes /\ OwnersKnown
    BY DEF HeapInv
  <2> QED
    BY ONLY <1>13, <1>14, <1>15, <2>1, <2>2, <2>3, <2>4, <2>5, t \in Thread, OwnersMove
<1>19. Busy'
  <2>1. \A j \in 1..Len(m) : g[m[j]].bs # {}
    <3> TAKE j \in 1..Len(m)
    <3>1. PICK c : c = m[j]
      OBVIOUS
    <3>2. c \in Range(m) /\ c \in Block
      BY <1>2, <3>1, RangeIs
    <3>3. c # b /\ g[c] = f[c]
      BY <1>7, <1>9, <3>2
    <3> QED
      BY <1>2, <3>1, <3>3
  <2>2. BusyBehind(k, g)
    BY ONLY <1>2, <1>4, <1>8, <1>9, <2>1, BusyPushed
  <2>3. BusyBehind(lsa'[t], blk')
    BY <1>6, <1>12, <2>2
  <2>4. \A c \in Block : Serves(c) /\ c \notin Range(lsa[t]) => blk'[c].bs = blk[c].bs
    BY <1>4, <1>17
  <2> QED
    BY <1>12, <2>3, <2>4, BusyOne
<1>20. ListTypes'
  BY <1>3, <1>14, <1>15 DEF Moved, ListTypes
<1> QED
  BY <1>6, <1>7, <1>16, <1>18, <1>19, <1>20 DEF HeapInv

\* The list of t with b in front.
LEMMA MovedPushed ==
    ASSUME NEW S, NEW l \in [Thread -> Seq(S)], \A u \in Thread : IsInjective(l[u]), NEW t \in Thread,
           NEW k \in 0..Len(l[t]), NEW b \in S, b \notin Range(l[t]), NEW m, m = Reordered(l[t], k),
           NEW p, p = <<b>> \o m, NEW lp, lp = [l EXCEPT ![t] = p], NEW i, i = {b}
    PROVE  /\ Moved(l, lp, S, t, i, {})
           /\ m \in Seq(S) /\ IsInjective(m) /\ \A z : z \in Range(m) <=> z \in Range(l[t])
<1>1. l[t] \in Seq(S) /\ IsInjective(l[t])
  OBVIOUS
<1>2. m \in Seq(S) /\ IsInjective(m) /\ \A z : z \in Range(m) <=> z \in Range(l[t])
  BY <1>1, ReorderedIs
<1>3. p \in Seq(S) /\ IsInjective(p) /\ \A z : z \in Range(p) <=> z = b \/ z \in Range(m)
  BY <1>2, PushedIs
<1>4. \A z : z \in Range(p) <=> (z \in Range(l[t]) /\ z \notin {}) \/ z \in i
  BY <1>2, <1>3
<1>5. Moved(l, lp, S, t, i, {})
  BY <1>3, <1>4, MovedIs
<1> QED
  BY <1>2, <1>5

\* The list of t is searched.
LEMMA MovedReordered ==
    ASSUME NEW S, NEW l \in [Thread -> Seq(S)], \A u \in Thread : IsInjective(l[u]), NEW t \in Thread,
           NEW k \in 0..Len(l[t]), NEW lp, lp = [l EXCEPT ![t] = Reordered(@, k)]
    PROVE  Moved(l, lp, S, t, {}, {})
<1>1. PICK m : m = Reordered(l[t], k)
  OBVIOUS
<1>2. l[t] \in Seq(S) /\ IsInjective(l[t])
  OBVIOUS
<1>3. m \in Seq(S) /\ IsInjective(m) /\ \A z : z \in Range(m) <=> z \in Range(l[t])
  BY <1>1, <1>2, ReorderedIs
<1>4. lp = [l EXCEPT ![t] = m]
  BY <1>1
<1>5. \A z : z \in Range(m) <=> (z \in Range(l[t]) /\ z \notin {}) \/ z \in {}
  BY <1>3
<1> QED
  BY <1>3, <1>4, <1>5, MovedIs

\* alloc() cuts a small block from a large one of the list,
LEMMA CutsInv ==
    ASSUME HeapInv, NEW t \in Thread, NEW n \in 1..Units, NEW aligned, Failed(t, n, aligned),
           NEW b \in Small, Cuts(t, n, b, aligned)
    PROVE  HeapInv'
<1>1. PICK k : k = Server(llb[t], Tries, Whole)
  OBVIOUS
<1>2. /\ k # 0 /\ b[1] = llb[t][k] /\ Cut(b) /\ llb' = [llb EXCEPT ![t] = Reordered(@, k)]
      /\ lsa' = [lsa EXCEPT ![t] = <<b>> \o LeftList(t, aligned)] /\ ServeNew(t, b, n, LeftBlocks(t, aligned))
      /\ lhb' = lhb /\ hbits' = hbits /\ lla' = lla
  BY <1>1 DEF Cuts
<1>3. PICK l \in Seq(Large) : l = llb[t]
  BY ListsAre
<1>4. k \in 0..Len(l) /\ l[k] \in Whole /\ k \in 1..Len(l)
  BY <1>1, <1>2, <1>3, ServerIs, AllocAssumption
<1>5. lbits[b[1]] # 1..PerLarge /\ b[1] \in Range(llb[t])
  BY <1>2, <1>3, <1>4, RangeIs DEF Whole
<1>6. Moved(llb, llb', Large, t, {}, {})
  BY <1>2, <1>3, <1>4, ListsAre, MovedReordered
<1>7. HugeTypes' /\ HugeListed'
  BY <1>2 DEF HeapInv, HugeTypes, HugeListed
<1>8. PICK e : e = {} /\ e \in SUBSET Large
  OBVIOUS
<1>9. /\ Moved(llb, llb', Large, t, e, {})
      /\ \A c \in Large : c[2] \in hbits'[c[1]] <=> c[2] \in hbits[c[1]] \/ c \in e
      /\ \A c \in e : c[2] \notin hbits[c[1]]
  BY <1>2, <1>6, <1>8
<1> QED
  BY <1>2, <1>5, <1>7, <1>8, <1>9, NewSmall

\* ... or from a new one,
LEMMA CutsNewInv ==
    ASSUME HeapInv, NEW t \in Thread, NEW n \in 1..Units, NEW aligned, Failed(t, n, aligned),
           NEW b \in Small, CutsNew(t, n, b, aligned)
    PROVE  HeapInv'
<1>1. PICK c \in Large : c = b[1]
  BY SmallIs
<1>2. /\ TakeLarge(c) /\ Cut(b) /\ llb' = [llb EXCEPT ![t] = <<c>> \o Reordered(@, 0)]
      /\ lsa' = [lsa EXCEPT ![t] = <<b>> \o LeftList(t, aligned)] /\ ServeNew(t, b, n, LeftBlocks(t, aligned))
      /\ lla' = lla
  BY <1>1 DEF CutsNew
<1>3. /\ HugeTypes' /\ HugeListed'
      /\ c[2] \notin hbits[c[1]]
      /\ \A d \in Large : d[2] \in hbits'[d[1]] <=> d[2] \in hbits[d[1]] \/ d = c
  BY <1>2, TakeIs DEF HeapInv
<1>4. \A u \in Thread : c \notin Range(llb[u])
  BY <1>3 DEF HeapInv, LargeListed
<1>5. lbits[b[1]] # 1..PerLarge
  <2>1. lbits[c] = {}
    BY <1>4 DEF HeapInv, LargeListed
  <2>2. 1 \in 1..PerLarge
    BY AllocAssumption
  <2> QED
    BY <1>1, <2>1, <2>2
<1>6. PICK i : i = {c} /\ i \in SUBSET Large
  <2>1. {c} \in SUBSET Large
    OBVIOUS
  <2> QED
    BY ONLY <2>1
<1>7. Moved(llb, llb', Large, t, i, {})
  <2>1. PICK k : k = 0 /\ k \in 0..Len(llb[t])
    BY ListsAre
  <2>2. PICK m, p : m = Reordered(llb[t], k) /\ p = <<c>> \o m
    OBVIOUS
  <2>3. llb' = [llb EXCEPT ![t] = p]
    BY <1>2, <2>1, <2>2
  <2>4. llb \in [Thread -> Seq(Large)] /\ \A u \in Thread : IsInjective(llb[u])
    BY ListsAre
  <2>5. c \notin Range(llb[t])
    BY <1>4
  <2> QED
    BY ONLY <1>6, <2>1, <2>2, <2>3, <2>4, <2>5, t \in Thread, c \in Large, MovedPushed
<1>8. /\ Moved(llb, llb', Large, t, i, {})
      /\ \A d \in Large : d[2] \in hbits'[d[1]] <=> d[2] \in hbits[d[1]] \/ d \in i
      /\ \A d \in i : d[2] \notin hbits[d[1]]
      /\ b[1] \in i
  BY <1>1, <1>3, <1>6, <1>7
<1> QED
  BY <1>2, <1>3, <1>5, <1>6, <1>8, NewSmall

\* ... or finds no memory.
LEMMA CutsNoneInv ==
    ASSUME HeapInv, NEW t \in Thread, NEW n \in 1..Units, NEW aligned, Failed(t, n, aligned),
           CutsNone(t, aligned)
    PROVE  HeapInv'
<1>1. PICK f, m : f = LeftBlocks(t, aligned) /\ m = LeftList(t, aligned)
  OBVIOUS
<1>2. /\ SoundBlocks(f, inUse)
      /\ \A c \in Block : f[c].ta = blk[c].ta /\ (c \notin Range(lsa[t]) => f[c] = blk[c])
      /\ m \in Seq(Small) /\ m \in Seq(Block) /\ IsInjective(m) /\ \A c : c \in Range(m) <=> c \in Range(lsa[t])
      /\ \A j \in 1..Len(m) : f[m[j]].bs # {}
  BY <1>1, LeftIs
<1>3. /\ NoLarge /\ llb' = [llb EXCEPT ![t] = Reordered(@, 0)] /\ lsa' = [lsa EXCEPT ![t] = m] /\ blk' = f
      /\ lbits' = lbits /\ lla' = lla /\ inUse' = inUse
  BY <1>1 DEF CutsNone
<1>4. HugeTypes' /\ HugeListed' /\ hbits' = hbits
  BY <1>3, NoneIs DEF HeapInv
<1>5. Moved(llb, llb', Large, t, {}, {}) /\ Moved(lla, lla', Large, t, {}, {})
  <2>1. 0 \in 0..Len(llb[t])
    BY ListsAre
  <2> QED
    BY <1>3, <2>1, ListsAre, MovedReordered
<1>6. Moved(lsa, lsa', Small, t, {}, {})
  BY <1>2, <1>3, ListsAre, MovedIs
<1>7. Busy'
  <2>1. BusyBehind(m, f)
    <3>1. \A j \in 2..Len(m) : j \in 1..Len(m)
      BY <1>2
    <3> QED
      BY <1>2, <3>1 DEF BusyBehind
  <2>2. lsa'[t] = m /\ \A u \in Thread : u # t => lsa'[u] = lsa[u]
    BY <1>3, ListsAre
  <2> QED
    BY <1>2, <1>3, <2>1, <2>2, BusyOne
<1> QED
  BY <1>2, <1>3, <1>4, <1>5, <1>6, <1>7, StaysInv DEF Serves

\* The lists stay, and one block changes that serves.
LEMMA KeptInv ==
    ASSUME HeapInv, NEW t \in Thread, UNCHANGED <<lhb, hbits, llb, lbits, lsa, lla>>,
           SoundBlocks(blk', inUse'), NEW b \in Block, Serves(b), blk'[b].ta = blk[b].ta,
           \A c \in Block : c # b => blk'[c] = blk[c],
           \/ blk'[b].bs # {}
           \/ b = lsa[t][1] /\ b \in Range(lsa[t])
           \/ b = lla[t][1] /\ b \in Range(lla[t])
    PROVE  HeapInv'
<1>1. PICK f, g : f = blk /\ g = blk'
  OBVIOUS
<1>2. ASSUME NEW u \in Thread, NEW l \in Seq(Block), l = lsa[u] \/ l = lla[u]
      PROVE  BusyBehind(l, g)
  <2>1. IsInjective(l) /\ BusyBehind(l, f)
    BY <1>1, <1>2, ListsAre
  <2>2. \A c \in Range(l) : f[c].bs # {} => g[c].bs # {} \/ c = l[1]
    <3> TAKE c \in Range(l)
    <3>1. c \in Block
      BY RangeIs
    <3>2. CASE c # b
      BY <1>1, <3>1, <3>2
    <3>3. CASE c = b
      <4>1. b \in Range(lsa[t]) => u = t /\ l = lsa[u]
        BY <1>2, <3>3, OneList DEF HeapInv
      <4>2. b \in Range(lla[t]) => u = t /\ l = lla[u]
        BY <1>2, <3>3, OneList DEF HeapInv
      <4> QED
        BY <1>1, <3>3, <4>1, <4>2
    <3> QED
      BY <3>2, <3>3
  <2> QED
    BY <2>1, <2>2, BusyStays
<1>3. Busy'
  <2>1. \A u \in Thread : BusyBehind(lsa'[u], blk') /\ BusyBehind(lla'[u], blk')
    <3> TAKE u \in Thread
    <3>1. lsa[u] \in Seq(Block) /\ lla[u] \in Seq(Block)
      BY ListsAre
    <3> QED
      BY <1>1, <1>2, <3>1
  <2> QED
    BY <2>1 DEF Busy
<1>4. /\ HugeTypes' /\ HugeListed' /\ Moved(llb, llb', Large, t, {}, {})
      /\ Moved(lla, lla', Large, t, {}, {}) /\ Moved(lsa, lsa', Small, t, {}, {})
  BY ListsAre DEF HeapInv, HugeTypes, HugeListed
<1> QED
  BY <1>3, <1>4, StaysInv

\* An object lies in a block that serves, and is one of those the block says.
LEMMA ObjectIs ==
    ASSUME HeapInv, NEW o \in inUse
    PROVE  /\ o[1] \in Block /\ Serves(o[1]) /\ o \in In(inUse, o[1]) /\ o[2] \in blk[o[1]].bs
           /\ blk[o[1]] \in BlockRecord /\ In(inUse, o[1]) \in Objects /\ SoundFor(blk[o[1]], In(inUse, o[1]))
<1>1. PICK b \in Block : b = o[1]
  BY DEF HeapInv, SoundBlocks, Objects
<1>2. o \in In(inUse, b) /\ blk[b] \in BlockRecord /\ In(inUse, b) \in Objects /\ SoundFor(blk[b], In(inUse, b))
  BY <1>1, InIs DEF HeapInv, SoundBlocks, In
<1>3. o[2] \in blk[b].bs
  BY <1>2 DEF SoundFor
<1>4. blk[b] # Blank
  BY <1>3, BlankIs
<1>5. Serves(b)
  BY <1>4 DEF HeapInv, OwnersKnown, Serves
<1> QED
  BY <1>1, <1>2, <1>3, <1>5

\* free() by another thread sets a bit of _xbs.
LEMMA FreeElsewhereInv ==
    ASSUME HeapInv, NEW t \in Thread, NEW o \in inUse, FreeElsewhere(t, o)
    PROVE  HeapInv'
<1>1. PICK b \in Block : b = o[1]
  BY ObjectIs
<1>2. PICK r, s, O, g : r = blk[b] /\ s = Marked(r, o[2]) /\ O = In(inUse, b) /\ g = blk'
  OBVIOUS
<1>3. r \in BlockRecord /\ O \in Objects /\ SoundFor(r, O) /\ o \in O /\ Serves(b) /\ r.bs # {}
  BY <1>1, <1>2, ObjectIs
<1>4. s \in BlockRecord /\ s.ta = r.ta /\ s.bs = r.bs /\ SoundFor(s, O \ {o})
  <2>1. s = Marked(r, o[2])
    BY <1>2
  <2>2. s \in BlockRecord /\ s.ta = r.ta /\ SoundFor(s, O \ {o})
    BY ONLY <1>3, <2>1, MarkedIs
  <2>3. s.bs = r.bs
    BY <1>3, <2>1 DEF Marked, BlockRecord
  <2> QED
    BY <2>2, <2>3
<1>5. /\ g = [blk EXCEPT ![b] = s] /\ inUse' = inUse \ {o}
      /\ UNCHANGED <<lhb, hbits, llb, lbits, lsa, lla>>
  BY <1>1, <1>2 DEF FreeElsewhere, Marked
<1>6. SoundBlocks(g, inUse \ {o}) /\ g[b] = s /\ \A c \in Block : c # b => g[c] = blk[c]
  <2>1. SoundBlocks(blk, inUse) /\ g = [blk EXCEPT ![o[1]] = s] /\ SoundFor(s, In(inUse, o[1]) \ {o})
    BY <1>1, <1>2, <1>4, <1>5 DEF HeapInv
  <2>2. SoundBlocks(g, inUse \ {o})
    BY ONLY <1>1, <1>4, <2>1, o \in inUse, LosesIs
  <2>3. g[b] = s /\ \A c \in Block : c # b => g[c] = blk[c]
    BY <1>5, <2>1 DEF SoundBlocks
  <2> QED
    BY <2>2, <2>3
<1> QED
  BY <1>2, <1>3, <1>4, <1>5, <1>6, KeptInv

\* realloc() in place.
LEMMA ReallocInPlaceInv ==
    ASSUME HeapInv, NEW t \in Thread, NEW o \in inUse, NEW n \in 1..Units, ReallocInPlace(t, o, n)
    PROVE  HeapInv'
<1>1. PICK b \in Block : b = o[1]
  BY ObjectIs
<1>2. PICK r, s, O, g, v, P : /\ r = blk[b] /\ s = [r EXCEPT !.bit = o[2] + n] /\ O = In(inUse, b) /\ g = blk'
                              /\ v = <<b, o[2], n>> /\ P = inUse'
  OBVIOUS
<1>3. r \in BlockRecord /\ O \in Objects /\ SoundFor(r, O) /\ o \in O /\ Serves(b) /\ r.bs # {}
  BY <1>1, <1>2, ObjectIs
<1>4. n > o[3] /\ r.bit = o[2] + o[3] /\ o[2] + n <= Units
  BY <1>1, <1>2 DEF ReallocInPlace
<1>5. s \in BlockRecord /\ s.ta = r.ta /\ s.bs = r.bs /\ (O \ {o}) \cup {v} \in Objects /\ SoundFor(s, (O \ {o}) \cup {v})
  BY <1>2, <1>3, <1>4, GrownIs
<1>6. /\ g = [blk EXCEPT ![b] = s] /\ P = (inUse \ {o}) \cup {v}
      /\ UNCHANGED <<lhb, hbits, llb, lbits, lsa, lla>>
  BY <1>1, <1>2 DEF ReallocInPlace
<1>7. blk \in [Block -> BlockRecord] /\ inUse \in Objects /\ \A c \in Block : SoundFor(blk[c], In(inUse, c))
  BY DEF HeapInv, SoundBlocks
<1>8. g \in [Block -> BlockRecord] /\ g[b] = s /\ \A c \in Block : c # b => g[c] = blk[c]
  BY <1>5, <1>6, <1>7
<1>9. SoundBlocks(g, P)
  <2>1. P \in Objects
    BY <1>5, <1>6, <1>7 DEF Objects
  <2>2. In(P, b) = (O \ {o}) \cup {v} /\ \A c \in Block : c # b => In(P, c) = In(inUse, c)
    BY <1>1, <1>2, <1>6 DEF In
  <2>3. \A c \in Block : SoundFor(g[c], In(P, c))
    BY <1>5, <1>7, <1>8, <2>2
  <2> QED
    BY <1>8, <2>1, <2>3 DEF SoundBlocks
<1> QED
  BY <1>2, <1>3, <1>5, <1>6, <1>8, <1>9, KeptInv

\* The owner frees an object: what is left of its block.
LEMMA FreedHere ==
    ASSUME HeapInv, NEW o \in inUse, NEW b, b = o[1], NEW s, s = Freed(blk[b], o[2]),
           NEW f, f = [blk EXCEPT ![b] = s]
    PROVE  /\ s \in BlockRecord /\ s.ta = blk[b].ta /\ SoundFor(s, In(inUse, b) \ {o})
           /\ SoundBlocks(f, inUse \ {o})
           /\ HasBits(s) <=> ~Emptied(blk[b], o[2])
           /\ Emptied(blk[b], o[2]) => BlankButOwned(s) /\ In(inUse, b) \ {o} = {}
<1>1. b \in Block
  BY ObjectIs
<1>2. PICK r, O, i : r = blk[b] /\ O = In(inUse, b) /\ i = o[2]
  OBVIOUS
<1>3. r \in BlockRecord /\ O \in Objects /\ SoundFor(r, O) /\ o \in O /\ i \in r.bs
  BY <1>2, ObjectIs
<1>4. s = Freed(r, o[2])
  BY <1>2
<1>5. HasBits(s) <=> ~Emptied(r, o[2])
  BY ONLY <1>3, <1>4, FreedIs
<1>6. s \in BlockRecord /\ s.ta = r.ta /\ SoundFor(s, O \ {o})
  BY ONLY <1>3, <1>4, FreedIs
<1>7. Emptied(r, o[2]) => BlankButOwned(s)
  BY ONLY <1>3, <1>4, FreedIs
<1>8. Emptied(r, o[2]) => O \ {o} = {}
  BY ONLY <1>3, <1>4, FreedIs
<1>9. SoundBlocks(f, inUse \ {o})
  <2>1. SoundBlocks(blk, inUse) /\ f = [blk EXCEPT ![o[1]] = s] /\ SoundFor(s, In(inUse, o[1]) \ {o})
    BY <1>2, <1>6 DEF HeapInv
  <2> QED
    BY ONLY <1>6, <2>1, o \in inUse, LosesIs
<1> QED
  BY <1>2, <1>5, <1>6, <1>7, <1>8, <1>9

\* A block that others of its list are behind, or that is not empty, stays.
LEMMA FreeStays ==
    ASSUME HeapInv, NEW t \in Thread, NEW o \in inUse, NEW b, b = o[1], blk[b].ta = t,
           ~Emptied(blk[b], o[2]) \/ (b \in Small /\ b = lsa[t][1]) \/ (b \in Large /\ b = lla[t][1]),
           blk' = [blk EXCEPT ![b] = Freed(@, o[2])], inUse' = inUse \ {o},
           UNCHANGED <<lhb, hbits, llb, lbits, lsa, lla>>
    PROVE  HeapInv'
<1>1. b \in Block /\ Serves(b) /\ blk \in [Block -> BlockRecord]
  BY ObjectIs DEF HeapInv, SoundBlocks
<1>2. PICK s, g : s = Freed(blk[b], o[2]) /\ g = blk'
  OBVIOUS
<1>3. g = [blk EXCEPT ![b] = s]
  BY <1>2
<1>4. /\ s.ta = blk[b].ta
      /\ SoundBlocks(g, inUse \ {o})
      /\ ~Emptied(blk[b], o[2]) => s.bs # {}
  <2>1. s = Freed(blk[b], o[2])
    BY <1>2
  <2>2. SoundBlocks(g, inUse \ {o})
    BY ONLY HeapInv, o \in inUse, b = o[1], <1>3, <2>1, FreedHere
  <2>3. s.ta = blk[b].ta /\ (~Emptied(blk[b], o[2]) => HasBits(s))
    BY <2>1, FreedHere
  <2> QED
    BY <2>2, <2>3 DEF HasBits
<1>5. g[b] = s /\ \A c \in Block : c # b => g[c] = blk[c]
  BY <1>1, <1>3
<1>6. (b \in Small => b \in Range(lsa[t])) /\ (b \in Large => b \in Range(lla[t]))
  BY <1>1, Named DEF HeapInv
<1> QED
  BY <1>1, <1>2, <1>4, <1>5, <1>6, KeptInv

\* A large block that is decommitted.
LEMMA ZeroedIs ==
    ASSUME NEW f, NEW O, SoundBlocks(f, O), NEW c \in Large,
           \A a \in Block : a = c \/ (a \in Small /\ a[1] = c) => ~(f[a].bs # {}),
           NEW g, g = Zeroed(f, c)
    PROVE  /\ SoundBlocks(g, O)
           /\ \A a \in Block : a = c \/ (a \in Small /\ a[1] = c) => g[a] = Blank
           /\ \A a \in Block : ~(a = c \/ (a \in Small /\ a[1] = c)) => g[a] = f[a]
<1>1. g = [a \in Block |-> IF a = c \/ (a \in Small /\ a[1] = c) THEN Blank ELSE f[a]]
  BY DEF Zeroed
<1>2. /\ \A a \in Block : a = c \/ (a \in Small /\ a[1] = c) => g[a] = Blank
      /\ \A a \in Block : ~(a = c \/ (a \in Small /\ a[1] = c)) => g[a] = f[a]
  BY <1>1
<1>3. f \in [Block -> BlockRecord] /\ O \in Objects /\ \A a \in Block : SoundFor(f[a], In(O, a))
  BY DEF SoundBlocks
<1>4. g \in [Block -> BlockRecord]
  BY <1>1, <1>3, BlankIs
<1>5. ASSUME NEW a \in Block PROVE SoundFor(g[a], In(O, a))
  <2>1. CASE a = c \/ (a \in Small /\ a[1] = c)
    <3>1. PICK r, P : r = f[a] /\ P = In(O, a)
      OBVIOUS
    <3>2. ~(r.bs # {}) /\ SoundFor(r, P)
      BY <1>3, <2>1, <3>1
    <3>3. P = {}
      BY <3>2 DEF SoundFor
    <3> QED
      BY <1>2, <2>1, <3>1, <3>3, BlankIs
  <2>2. CASE ~(a = c \/ (a \in Small /\ a[1] = c))
    BY <1>2, <1>3, <2>2
  <2> QED
    BY <2>1, <2>2
<1> QED
  BY <1>2, <1>3, <1>4, <1>5 DEF SoundBlocks

\* The bit of a small block is cleared.
LEMMA UncutIs ==
    ASSUME ListTypes, NEW b \in Small, lbits' = [lbits EXCEPT ![b[1]] = @ \ {b[2]}]
    PROVE  /\ lbits' \in [Large -> SUBSET (1..PerLarge)]
           /\ \A s \in Small : s[2] \in lbits'[s[1]] <=> s[2] \in lbits[s[1]] /\ s # b
<1>1. PICK c \in Large, j \in 1..PerLarge : c = b[1] /\ j = b[2] /\ b = <<c, j>>
  BY SmallIs
<1>2. lbits' = [lbits EXCEPT ![c] = @ \ {j}]
  BY <1>1
<1>3. /\ lbits' \in [Large -> SUBSET (1..PerLarge)] /\ lbits'[c] = lbits[c] \ {j}
      /\ \A d \in Large : d # c => lbits'[d] = lbits[d]
  BY <1>2 DEF ListTypes
<1>4. ASSUME NEW s \in Small PROVE s[2] \in lbits'[s[1]] <=> s[2] \in lbits[s[1]] /\ s # b
  <2>1. PICK d \in Large, i \in 1..PerLarge : d = s[1] /\ i = s[2] /\ s = <<d, i>>
    BY SmallIs
  <2>2. s = b <=> d = c /\ i = j
    BY <1>1, <2>1
  <2>3. i \in lbits'[d] <=> i \in lbits[d] /\ ~(d = c /\ i = j)
    BY <1>3
  <2> QED
    BY <2>1, <2>2, <2>3
<1> QED
  BY <1>3, <1>4

\* The list of t without b.
LEMMA MovedDropped ==
    ASSUME NEW S, NEW l \in [Thread -> Seq(S)], \A u \in Thread : IsInjective(l[u]), NEW t \in Thread,
           NEW b, b \in Range(l[t]), NEW m, m = Drop(l[t], b), NEW lp, lp = [l EXCEPT ![t] = m], NEW i, i = {b}
    PROVE  Moved(l, lp, S, t, {}, i)
<1>1. l[t] \in Seq(S) /\ IsInjective(l[t])
  OBVIOUS
<1>2. m \in Seq(S) /\ IsInjective(m) /\ \A z : z \in Range(m) <=> z # b /\ z \in Range(l[t])
  BY <1>1, DroppedIs
<1>3. \A z : z \in Range(m) <=> (z \in Range(l[t]) /\ z \notin i) \/ z \in {}
  BY <1>2
<1> QED
  BY <1>2, <1>3, MovedIs

\* A small block goes back, and its large one if that is in OutB.
LEMMA SmallGoes ==
    ASSUME HeapInv, NEW t \in Thread, NEW b \in Small, b \in Range(lsa[t]), b # lsa[t][1],
           lsa' = [lsa EXCEPT ![t] = Drop(@, b)], lla' = lla,
           lbits' = [lbits EXCEPT ![b[1]] = @ \ {b[2]}],
           NEW OutB \in SUBSET Large, Moved(llb, llb', Large, t, {}, OutB),
           \A c \in OutB : c \in Range(llb[t]),
           \A s \in Small : s[1] \in OutB /\ s[2] \in lbits[s[1]] => s = b,
           HugeTypes', HugeListed',
           \A c \in Large : c[2] \in hbits'[c[1]] <=> c[2] \in hbits[c[1]] /\ c \notin OutB,
           SoundBlocks(blk', inUse'), blk'[b] = Blank,
           \A a \in Block : Serves(a) /\ a # b => blk'[a] = blk[a],
           \A a \in Block : ~Serves(a) => blk'[a] = blk[a] \/ blk'[a] = Blank
    PROVE  HeapInv'
<1>1. PICK e, i : e = {} /\ e \in SUBSET Small /\ e \in SUBSET Large /\ i = {b} /\ i \in SUBSET Small
  <2>1. {} \in SUBSET Small /\ {} \in SUBSET Large /\ {b} \in SUBSET Small
    OBVIOUS
  <2> QED
    BY ONLY <2>1
<1>2. PICK l \in Seq(Block) : l = lsa[t] /\ IsInjective(l) /\ BusyBehind(l, blk)
  BY ListsAre
<1>3. PICK m, g : m = Drop(l, b) /\ g = blk'
  OBVIOUS
<1>4. lsa' = [lsa EXCEPT ![t] = m] /\ m = Drop(lsa[t], b)
  BY <1>2, <1>3
<1>5. /\ Moved(lsa, lsa', Small, t, e, i)
      /\ Moved(lla, lla', Large, t, e, e) /\ Moved(llb, llb', Large, t, e, OutB)
  <2>1. lsa \in [Thread -> Seq(Small)] /\ \A u \in Thread : IsInjective(lsa[u])
    BY ListsAre
  <2>2. Moved(lsa, lsa', Small, t, {}, i)
    BY ONLY <1>1, <1>4, <2>1, t \in Thread, b \in Range(lsa[t]), MovedDropped
  <2> QED
    BY <1>1, <2>2, ListsAre
<1>6. /\ lbits' \in [Large -> SUBSET (1..PerLarge)]
      /\ \A s \in Small : s[2] \in lbits'[s[1]] <=> s[2] \in lbits[s[1]] /\ s # b
  BY UncutIs DEF HeapInv
<1>7. LargeListed' /\ SmallListed'
  <2>1. \A c \in Large : c[2] \in hbits'[c[1]] <=> (c[2] \in hbits[c[1]] /\ c \notin OutB \cup e) \/ c \in e \cup e
    BY <1>1
  <2>2. \A s \in Small : s[2] \in lbits'[s[1]] <=> (s[2] \in lbits[s[1]] /\ s \notin i) \/ s \in e
    BY <1>1, <1>6
  <2>3. \A c \in e \cup e : c[2] \notin hbits[c[1]] /\ c \notin e \cap e
    BY <1>1
  <2>4. \A c \in OutB : c \in Range(llb[t]) /\ c \notin e \cup e
    BY <1>1
  <2>5. \A c \in e : c \in Range(lla[t]) /\ c \notin e \cup e
    BY <1>1
  <2>6. \A s \in i : s \in Range(lsa[t]) /\ s \notin e
    BY <1>1
  <2>7. \A s \in e : s[1] \in e \/ (s[1] \in Range(llb[t]) /\ s[1] \notin OutB)
    BY <1>1
  <2>8. \A s \in Small : s[1] \in OutB /\ s[2] \in lbits[s[1]] => s \in i
    BY <1>1
  <2>9. LargeListed /\ SmallListed
    BY DEF HeapInv
  <2> QED
    BY ONLY <1>1, <1>5, <1>6, <2>1, <2>2, <2>3, <2>4, <2>5, <2>6, <2>7, <2>8, <2>9, t \in Thread,
            OutB \in SUBSET Large, HugeTypes', TreeMoves
<1>8. OwnersKnown'
  <2>1. \A c \in e \cup e : ~Serves(c) /\ blk'[c].ta = t
    BY <1>1
  <2>2. \A c \in i : c \in Range(lsa[t]) /\ blk'[c] = Blank
    BY <1>1
  <2>3. \A c \in e : c \in Range(lla[t]) /\ blk'[c] = Blank
    BY <1>1
  <2>4. \A c \in Block : Serves(c) /\ c \notin i \cup e => blk'[c].ta = blk[c].ta
    BY <1>1
  <2>5. \A c \in Block : ~Serves(c) /\ c \notin e \cup e => blk'[c] = blk[c] \/ blk'[c] = Blank
    BY <1>1
  <2>6. ListTypes /\ OwnersKnown
    BY DEF HeapInv
  <2> QED
    BY ONLY <1>1, <1>5, <2>1, <2>2, <2>3, <2>4, <2>5, <2>6, t \in Thread, OwnersMove
<1>9. Busy'
  <2>1. PICK f : f = blk
    OBVIOUS
  <2>2. \A c \in Range(l) : c # b => g[c].bs = f[c].bs
    <3> TAKE c \in Range(l)
    <3>1. c \in Block /\ Serves(c)
      BY <1>2, RangeIs DEF Serves
    <3> QED
      BY <1>3, <2>1, <3>1
  <2>3. BusyBehind(m, g)
    BY <1>2, <1>3, <2>1, <2>2, BusyDropped
  <2>4. lsa'[t] = m /\ \A u \in Thread : u # t => lsa'[u] = lsa[u]
    BY <1>4, ListsAre
  <2>5. \A c \in Block : Serves(c) /\ c \notin Range(lsa[t]) => blk'[c].bs = blk[c].bs
    OBVIOUS
  <2> QED
    BY <1>3, <2>3, <2>4, <2>5, BusyOne
<1>10. ListTypes'
  BY <1>5, <1>6 DEF Moved, ListTypes
<1> QED
  BY <1>7, <1>8, <1>9, <1>10 DEF HeapInv

\* free() of a small object by its thread.
LEMMA FreeSmallInv ==
    ASSUME HeapInv, NEW t \in Thread, NEW o \in inUse, FreeSmall(t, o)
    PROVE  HeapInv'
<1>1. PICK b \in Small : b = o[1] /\ blk[b].ta = t
  BY DEF FreeSmall
<1>2. b \in Block /\ b \in Range(lsa[t])
  BY <1>1, ObjectIs, Named DEF HeapInv
<1>3. CASE ~(Emptied(blk[b], o[2]) /\ b # lsa[t][1])
  <2>1. /\ blk' = [blk EXCEPT ![b] = Freed(@, o[2])] /\ inUse' = inUse \ {o}
        /\ UNCHANGED <<lhb, hbits, llb, lbits, lsa, lla>>
    BY <1>1, <1>3 DEF FreeSmall
  <2> QED
    BY <1>1, <1>3, <2>1, FreeStays
<1>4. CASE Emptied(blk[b], o[2]) /\ b # lsa[t][1]
  <2>1. PICK c \in Large : c = b[1]
    BY SmallIs
  <2>2. c \in Range(llb[t]) /\ b[2] \in lbits[c]
    BY <1>2, <2>1 DEF HeapInv, SmallListed
  <2>3. c[2] \in hbits[c[1]] /\ ~Serves(c) /\ c \in Block
    <3>1. c[2] \in hbits[c[1]] /\ \A u \in Thread : c \notin Range(lla[u])
      BY <2>2 DEF HeapInv, LargeListed
    <3>2. \A u \in Thread : c \notin Range(lsa[u])
      <4>1. c \notin Small /\ c \in Block
        BY LargeIs
      <4> QED
        BY <4>1, OneList DEF HeapInv
    <3> QED
      BY <3>1, <3>2, LargeIs DEF Serves
  <2>4. PICK s, f : s = Freed(blk[b], o[2]) /\ f = [blk EXCEPT ![b] = Blank]
    OBVIOUS
  <2>5. BlankButOwned(s) /\ In(inUse, b) \ {o} = {}
    BY <1>1, <1>4, <2>4, FreedHere
  <2>6. f = [blk EXCEPT ![b] = [Freed(@, o[2]) EXCEPT !.ta = None]]
    BY <2>4, <2>5 DEF BlankButOwned
  <2>7. SoundBlocks(f, inUse \ {o})
    <3>1. PICK r : r = Blank
      OBVIOUS
    <3>2. SoundBlocks(blk, inUse) /\ f = [blk EXCEPT ![o[1]] = r] /\ SoundFor(r, In(inUse, o[1]) \ {o}) /\ r \in BlockRecord
      BY <1>1, <2>4, <2>5, <3>1, BlankIs DEF HeapInv
    <3> QED
      BY ONLY <3>2, o \in inUse, LosesIs
  <2>8. f[b] = Blank /\ \A a \in Block : a # b => f[a] = blk[a]
    BY <1>2, <2>4 DEF HeapInv, SoundBlocks
  <2>9. /\ inUse' = inUse \ {o} /\ lla' = lla
        /\ lsa' = [lsa EXCEPT ![t] = Drop(@, b)]
        /\ lbits' = [lbits EXCEPT ![b[1]] = @ \ {b[2]}]
    BY <1>1, <1>4 DEF FreeSmall
  <2>10. \A a \in Block : ~Serves(a) => blk[a] = Blank
    BY DEF HeapInv, OwnersKnown, Serves
  <2>11. CASE ~(lbits[c] = {b[2]} /\ c # llb[t][1])
    <3>1. blk' = f /\ llb' = llb /\ lhb' = lhb /\ hbits' = hbits
      BY <1>1, <1>4, <2>1, <2>6, <2>11 DEF FreeSmall
    <3>2. PICK e : e = {} /\ e \in SUBSET Large
      <4>1. {} \in SUBSET Large
        OBVIOUS
      <4> QED
        BY ONLY <4>1
    <3>3. /\ Moved(llb, llb', Large, t, {}, e)
          /\ \A d \in Large : d[2] \in hbits'[d[1]] <=> d[2] \in hbits[d[1]] /\ d \notin e
          /\ \A d \in e : d \in Range(llb[t])
          /\ \A a \in Small : a[1] \in e /\ a[2] \in lbits[a[1]] => a = b
      BY <3>1, <3>2, ListsAre
    <3>4. HugeTypes' /\ HugeListed'
      BY <3>1 DEF HeapInv, HugeTypes, HugeListed
    <3>5. /\ SoundBlocks(blk', inUse') /\ blk'[b] = Blank
          /\ \A a \in Block : Serves(a) /\ a # b => blk'[a] = blk[a]
          /\ \A a \in Block : ~Serves(a) => blk'[a] = blk[a] \/ blk'[a] = Blank
      BY <2>7, <2>8, <2>9, <3>1
    <3> QED
      BY ONLY HeapInv, t \in Thread, b \in Small, <1>2, <1>4, <2>9, <3>2, <3>3, <3>4, <3>5, SmallGoes
  <2>12. CASE lbits[c] = {b[2]} /\ c # llb[t][1]
    <3>1. blk' = Zeroed(f, c) /\ llb' = [llb EXCEPT ![t] = Drop(@, c)] /\ GiveLarge(c)
      BY <1>1, <1>4, <2>1, <2>6, <2>12 DEF FreeSmall
    <3>2. /\ HugeTypes' /\ HugeListed'
          /\ \A d \in Large : d[2] \in hbits'[d[1]] <=> d[2] \in hbits[d[1]] /\ d # c
      BY <2>3, <3>1, GiveIs DEF HeapInv
    <3>3. PICK i : i = {c} /\ i \in SUBSET Large
      <4>1. {c} \in SUBSET Large
        OBVIOUS
      <4> QED
        BY ONLY <4>1
    <3>4. Moved(llb, llb', Large, t, {}, i)
      <4>1. llb \in [Thread -> Seq(Large)] /\ \A u \in Thread : IsInjective(llb[u])
        BY ListsAre
      <4>2. PICK m : m = Drop(llb[t], c)
        OBVIOUS
      <4>3. llb' = [llb EXCEPT ![t] = m]
        BY <3>1, <4>2
      <4>4. c \in Range(llb[t])
        BY <2>2
      <4> QED
        BY ONLY <3>3, <4>1, <4>2, <4>3, <4>4, t \in Thread, MovedDropped
    <3>5. \A a \in Small : a[1] = c /\ a[2] \in lbits[a[1]] => a = b
      BY <1>1, <2>1, <2>12, SmallIs
    <3>6. /\ \A d \in Large : d[2] \in hbits'[d[1]] <=> d[2] \in hbits[d[1]] /\ d \notin i
          /\ \A d \in i : d \in Range(llb[t])
          /\ \A a \in Small : a[1] \in i /\ a[2] \in lbits[a[1]] => a = b
      BY <2>2, <3>2, <3>3, <3>5
    <3>7. ASSUME NEW a \in Block, a = c \/ (a \in Small /\ a[1] = c)
          PROVE  (a = b \/ ~Serves(a)) /\ f[a] = Blank
      <4>1. a = b \/ ~Serves(a)
        <5>1. CASE a = c
          BY <2>3, <5>1
        <5>2. CASE a \in Small /\ a[1] = c /\ a # b
          <6>1. \A u \in Thread : a \notin Range(lsa[u])
            BY <3>5, <5>2 DEF HeapInv, SmallListed
          <6>2. \A u \in Thread : a \notin Range(lla[u])
            <7>1. a \notin Large
              BY <5>2, SmallIs
            <7> QED
              BY <7>1, OneList DEF HeapInv
          <6> QED
            BY <6>1, <6>2 DEF Serves
        <5> QED
          BY <3>7, <5>1, <5>2
      <4> QED
        BY <2>8, <2>10, <4>1
    <3>8. PICK g : g = blk'
      OBVIOUS
    <3>9. /\ SoundBlocks(g, inUse \ {o})
          /\ \A a \in Block : a = c \/ (a \in Small /\ a[1] = c) => g[a] = Blank
          /\ \A a \in Block : ~(a = c \/ (a \in Small /\ a[1] = c)) => g[a] = f[a]
      <4>1. \A a \in Block : a = c \/ (a \in Small /\ a[1] = c) => ~(f[a].bs # {})
        BY <3>7, BlankIs
      <4>2. g = Zeroed(f, c)
        BY <3>1, <3>8
      <4> QED
        BY ONLY <2>7, <4>1, <4>2, c \in Large, ZeroedIs
    <3>10. /\ SoundBlocks(blk', inUse') /\ blk'[b] = Blank
           /\ \A a \in Block : Serves(a) /\ a # b => blk'[a] = blk[a]
           /\ \A a \in Block : ~Serves(a) => blk'[a] = blk[a] \/ blk'[a] = Blank
      <4>1. g[b] = Blank
        BY <1>2, <2>1, <3>9
      <4>2. \A a \in Block : Serves(a) /\ a # b => g[a] = blk[a]
        BY <2>8, <3>7, <3>9
      <4>3. \A a \in Block : ~Serves(a) => g[a] = blk[a] \/ g[a] = Blank
        BY <2>8, <2>10, <3>9
      <4> QED
        BY <2>9, <3>8, <3>9, <4>1, <4>2, <4>3
    <3> QED
      BY ONLY HeapInv, t \in Thread, b \in Small, <1>2, <1>4, <2>9, <3>2, <3>3, <3>4, <3>6, <3>10, SmallGoes
  <2> QED
    BY <2>11, <2>12
<1> QED
  BY <1>3, <1>4

\* A large block comes to the list of those that serve, or leaves it.
LEMMA LargeMoves ==
    ASSUME HeapInv, NEW t \in Thread, NEW In1 \in SUBSET Large, NEW Out1 \in SUBSET Large,
           Moved(lla, lla', Large, t, In1, Out1), lsa' = lsa, lbits' = lbits,
           Moved(llb, llb', Large, t, {}, {}),
           HugeTypes', HugeListed',
           \A c \in Large : c[2] \in hbits'[c[1]] <=> (c[2] \in hbits[c[1]] /\ c \notin Out1) \/ c \in In1,
           \A c \in In1 : c[2] \notin hbits[c[1]] /\ blk'[c].ta = t,
           \A c \in Out1 : c \in Range(lla[t]) /\ blk'[c] = Blank,
           SoundBlocks(blk', inUse'),
           \A a \in Block : Serves(a) /\ a \notin Out1 =>
              blk'[a].ta = blk[a].ta /\ (a \notin Range(lla[t]) => blk'[a] = blk[a]),
           \A a \in Block : ~Serves(a) /\ a \notin In1 => blk'[a] = blk[a] \/ blk'[a] = Blank,
           BusyBehind(lla'[t], blk'), \A u \in Thread : u # t => lla'[u] = lla[u]
    PROVE  HeapInv'
<1>1. PICK e : e = {} /\ e \in SUBSET Small /\ e \in SUBSET Large
  <2>1. {} \in SUBSET Small /\ {} \in SUBSET Large
    OBVIOUS
  <2> QED
    BY ONLY <2>1
<1>2. /\ Moved(lsa, lsa', Small, t, e, e) /\ Moved(llb, llb', Large, t, e, e)
      /\ lbits' \in [Large -> SUBSET (1..PerLarge)]
  BY <1>1, ListsAre DEF HeapInv, ListTypes
<1>3. \A c \in In1 : ~Serves(c) /\ c \in Block
  <2> TAKE c \in In1
  <2>1. c \notin Small /\ c \in Block
    BY LargeIs
  <2>2. \A u \in Thread : c \notin Range(lsa[u])
    BY <2>1, OneList DEF HeapInv
  <2>3. \A u \in Thread : c \notin Range(lla[u])
    BY DEF HeapInv, LargeListed
  <2> QED
    BY <2>1, <2>2, <2>3 DEF Serves
<1>4. \A c \in Out1 : c \notin In1
  <2> TAKE c \in Out1
  <2>1. Serves(c)
    BY DEF Serves
  <2> QED
    BY <1>3, <2>1
<1>5. LargeListed' /\ SmallListed'
  <2>1. \A c \in Large : c[2] \in hbits'[c[1]] <=> (c[2] \in hbits[c[1]] /\ c \notin e \cup Out1) \/ c \in e \cup In1
    BY <1>1
  <2>2. \A s \in Small : s[2] \in lbits'[s[1]] <=> (s[2] \in lbits[s[1]] /\ s \notin e) \/ s \in e
    BY <1>1
  <2>3. \A c \in e \cup In1 : c[2] \notin hbits[c[1]] /\ c \notin e \cap In1
    BY <1>1
  <2>4. \A c \in e : c \in Range(llb[t]) /\ c \notin e \cup In1
    BY <1>1
  <2>5. \A c \in Out1 : c \in Range(lla[t]) /\ c \notin e \cup In1
    BY <1>1, <1>4
  <2>6. \A s \in e : s \in Range(lsa[t]) /\ s \notin e
    BY <1>1
  <2>7. \A s \in e : s[1] \in e \/ (s[1] \in Range(llb[t]) /\ s[1] \notin e)
    BY <1>1
  <2>8. \A s \in Small : s[1] \in e /\ s[2] \in lbits[s[1]] => s \in e
    BY <1>1
  <2>9. LargeListed /\ SmallListed /\ Moved(lla, lla', Large, t, In1, Out1)
    BY DEF HeapInv
  <2> QED
    BY ONLY <1>1, <1>2, <2>1, <2>2, <2>3, <2>4, <2>5, <2>6, <2>7, <2>8, <2>9, t \in Thread,
            In1 \in SUBSET Large, Out1 \in SUBSET Large, HugeTypes', TreeMoves
<1>6. OwnersKnown'
  <2>1. \A c \in e \cup In1 : ~Serves(c) /\ blk'[c].ta = t
    BY <1>1, <1>3
  <2>2. \A c \in e : c \in Range(lsa[t]) /\ blk'[c] = Blank
    BY <1>1
  <2>3. \A c \in Out1 : c \in Range(lla[t]) /\ blk'[c] = Blank
    OBVIOUS
  <2>4. \A c \in Block : Serves(c) /\ c \notin e \cup Out1 => blk'[c].ta = blk[c].ta
    BY <1>1
  <2>5. \A c \in Block : ~Serves(c) /\ c \notin e \cup In1 => blk'[c] = blk[c] \/ blk'[c] = Blank
    BY <1>1
  <2>6. ListTypes /\ OwnersKnown /\ Moved(lla, lla', Large, t, In1, Out1)
    BY DEF HeapInv
  <2> QED
    BY ONLY <1>1, <1>2, <2>1, <2>2, <2>3, <2>4, <2>5, <2>6, t \in Thread, In1 \in SUBSET Large,
            Out1 \in SUBSET Large, OwnersMove
<1>7. Busy'
  <2>1. \A c \in Block : Serves(c) /\ c \notin Range(lla[t]) => blk'[c].bs = blk[c].bs
    <3> SUFFICES ASSUME NEW c \in Block, Serves(c), c \notin Range(lla[t]) PROVE blk'[c].bs = blk[c].bs
      OBVIOUS
    <3>1. c \notin Out1
      OBVIOUS
    <3>2. blk'[c] = blk[c]
      BY <3>1
    <3> QED
      BY <3>2
  <2> QED
    BY <2>1, BusyOne
<1>8. ListTypes'
  BY <1>2 DEF Moved, ListTypes
<1> QED
  BY <1>5, <1>6, <1>7, <1>8 DEF HeapInv

\* free() of a large object by its thread.
LEMMA FreeLargeInv ==
    ASSUME HeapInv, NEW t \in Thread, NEW o \in inUse, FreeLarge(t, o)
    PROVE  HeapInv'
<1>1. PICK b \in Large : b = o[1] /\ blk[b].ta = t
  BY DEF FreeLarge
<1>2. b \in Block /\ b \in Range(lla[t]) /\ b \notin Small
  BY <1>1, ObjectIs, Named, LargeIs DEF HeapInv
<1>3. CASE ~(Emptied(blk[b], o[2]) /\ b # lla[t][1])
  <2>1. /\ blk' = [blk EXCEPT ![b] = Freed(@, o[2])] /\ inUse' = inUse \ {o}
        /\ UNCHANGED <<lhb, hbits, llb, lbits, lsa, lla>>
    BY <1>1, <1>3 DEF FreeLarge
  <2> QED
    BY <1>1, <1>3, <2>1, FreeStays
<1>4. CASE Emptied(blk[b], o[2]) /\ b # lla[t][1]
  <2>1. PICK s, f : s = Freed(blk[b], o[2]) /\ f = [blk EXCEPT ![b] = s]
    OBVIOUS
  <2>2. /\ lla' = [lla EXCEPT ![t] = Drop(@, b)] /\ GiveLarge(b) /\ blk' = Zeroed(f, b)
        /\ lsa' = lsa /\ llb' = llb /\ lbits' = lbits /\ inUse' = inUse \ {o}
    BY <1>1, <1>4, <2>1 DEF FreeLarge
  <2>3. SoundBlocks(f, inUse \ {o}) /\ ~HasBits(s)
    <3>1. SoundBlocks(f, inUse \ {o})
      BY ONLY HeapInv, o \in inUse, <1>1, <2>1, FreedHere
    <3>2. ~HasBits(s)
      BY <1>1, <1>4, <2>1, FreedHere
    <3> QED
      BY <3>1, <3>2
  <2>4. f[b] = s /\ \A a \in Block : a # b => f[a] = blk[a]
    BY <1>2, <2>1 DEF HeapInv, SoundBlocks
  <2>5. b[2] \in hbits[b[1]] /\ \A u \in Thread : b \notin Range(llb[u])
    BY <1>2 DEF HeapInv, LargeListed
  <2>6. /\ HugeTypes' /\ HugeListed'
        /\ \A d \in Large : d[2] \in hbits'[d[1]] <=> d[2] \in hbits[d[1]] /\ d # b
    BY <2>2, <2>5, GiveIs DEF HeapInv
  <2>7. ASSUME NEW a \in Small, a[1] = b PROVE ~Serves(a) /\ blk[a] = Blank
    <3>1. \A u \in Thread : a \notin Range(lsa[u])
      BY <2>5, <2>7 DEF HeapInv, SmallListed
    <3>2. \A u \in Thread : a \notin Range(lla[u])
      <4>1. a \notin Large
        BY SmallIs
      <4> QED
        BY <4>1, OneList DEF HeapInv
    <3> QED
      BY <3>1, <3>2, SmallIs DEF HeapInv, OwnersKnown, Serves
  <2>8. PICK g : g = blk'
    OBVIOUS
  <2>9. /\ SoundBlocks(g, inUse \ {o})
        /\ \A a \in Block : a = b \/ (a \in Small /\ a[1] = b) => g[a] = Blank
        /\ \A a \in Block : ~(a = b \/ (a \in Small /\ a[1] = b)) => g[a] = f[a]
    <3>1. \A a \in Block : a = b \/ (a \in Small /\ a[1] = b) => ~(f[a].bs # {})
      <4> SUFFICES ASSUME NEW a \in Block, a = b \/ (a \in Small /\ a[1] = b) PROVE ~(f[a].bs # {})
        OBVIOUS
      <4>1. CASE a = b
        BY <2>3, <2>4, <4>1 DEF HasBits
      <4>2. CASE a # b
        BY <2>4, <2>7, <4>2, BlankIs
      <4> QED
        BY <4>1, <4>2
    <3>2. g = Zeroed(f, b)
      BY <2>2, <2>8
    <3> QED
      BY ONLY <2>3, <3>1, <3>2, b \in Large, ZeroedIs
  <2>10. g[b] = Blank
    BY <1>2, <2>9
  <2>11. \A a \in Block : Serves(a) /\ a # b => g[a] = blk[a]
    BY <2>4, <2>7, <2>9
  <2>12. \A a \in Block : ~Serves(a) => g[a] = blk[a] \/ g[a] = Blank
    BY <2>4, <2>9
  <2>13. PICK l, m : l = lla[t] /\ m = Drop(l, b)
    OBVIOUS
  <2>14. l \in Seq(Block) /\ IsInjective(l) /\ BusyBehind(l, blk)
    BY <2>13, ListsAre
  <2>15. lla' = [lla EXCEPT ![t] = m] /\ m = Drop(lla[t], b)
    BY <2>2, <2>13
  <2>16. lla'[t] = m /\ \A u \in Thread : u # t => lla'[u] = lla[u]
    BY <2>15, ListsAre
  <2>17. PICK i : i = {b} /\ i \in SUBSET Large
    <3>1. {b} \in SUBSET Large
      OBVIOUS
    <3> QED
      BY ONLY <3>1
  <2>18. Moved(lla, lla', Large, t, {}, i)
    <3>1. lla \in [Thread -> Seq(Large)] /\ \A u \in Thread : IsInjective(lla[u])
      BY ListsAre
    <3> QED
      BY ONLY <1>2, <2>15, <2>17, <3>1, t \in Thread, MovedDropped
  <2>19. BusyBehind(m, g)
    <3>1. PICK h : h = blk
      OBVIOUS
    <3>2. \A c \in Range(l) : c # b => g[c].bs = h[c].bs
      <4> TAKE c \in Range(l)
      <4>1. c \in Block /\ Serves(c)
        BY <2>13, <2>14, RangeIs DEF Serves
      <4> QED
        BY <2>11, <3>1, <4>1
    <3>3. b \in Range(l) /\ b # l[1] /\ BusyBehind(l, h)
      BY <1>2, <1>4, <2>13, <2>14, <3>1
    <3> QED
      BY ONLY <2>13, <2>14, <3>2, <3>3, BusyDropped
  <2>20. PICK e : e = {} /\ e \in SUBSET Large
    <3>1. {} \in SUBSET Large
      OBVIOUS
    <3> QED
      BY ONLY <3>1
  <2>21. /\ Moved(lla, lla', Large, t, e, i) /\ Moved(llb, llb', Large, t, {}, {})
         /\ \A c \in Large : c[2] \in hbits'[c[1]] <=> (c[2] \in hbits[c[1]] /\ c \notin i) \/ c \in e
         /\ \A c \in e : c[2] \notin hbits[c[1]] /\ blk'[c].ta = t
         /\ \A c \in i : c \in Range(lla[t]) /\ blk'[c] = Blank
         /\ SoundBlocks(blk', inUse')
         /\ \A a \in Block : Serves(a) /\ a \notin i =>
              blk'[a].ta = blk[a].ta /\ (a \notin Range(lla[t]) => blk'[a] = blk[a])
         /\ \A a \in Block : ~Serves(a) /\ a \notin e => blk'[a] = blk[a] \/ blk'[a] = Blank
         /\ BusyBehind(lla'[t], blk')
    <3>1. Moved(lla, lla', Large, t, e, i) /\ Moved(llb, llb', Large, t, {}, {})
      BY <2>2, <2>18, <2>20, ListsAre
    <3>2. /\ \A c \in Large : c[2] \in hbits'[c[1]] <=> (c[2] \in hbits[c[1]] /\ c \notin i) \/ c \in e
          /\ \A c \in e : c[2] \notin hbits[c[1]] /\ blk'[c].ta = t
      BY <2>6, <2>17, <2>20
    <3>3. /\ \A c \in i : c \in Range(lla[t]) /\ blk'[c] = Blank
          /\ SoundBlocks(blk', inUse')
      BY <1>2, <2>2, <2>8, <2>9, <2>10, <2>17
    <3>4. \A a \in Block : Serves(a) /\ a \notin i =>
              blk'[a].ta = blk[a].ta /\ (a \notin Range(lla[t]) => blk'[a] = blk[a])
      BY <2>8, <2>11, <2>17
    <3>5. \A a \in Block : ~Serves(a) /\ a \notin e => blk'[a] = blk[a] \/ blk'[a] = Blank
      BY <2>8, <2>12
    <3>6. BusyBehind(lla'[t], blk')
      BY <2>8, <2>16, <2>19
    <3> QED
      BY <3>1, <3>2, <3>3, <3>4, <3>5, <3>6
  <2> QED
    <3>1. /\ lsa' = lsa /\ lbits' = lbits /\ HugeTypes' /\ HugeListed'
          /\ \A u \in Thread : u # t => lla'[u] = lla[u]
      BY <2>2, <2>6, <2>16
    <3>2. i \in SUBSET Large /\ e \in SUBSET Large
      BY <2>17, <2>20
    <3> QED
      BY ONLY HeapInv, t \in Thread, <2>21, <3>1, <3>2, LargeMoves
<1> QED
  BY <1>3, <1>4

\* alloc() of a large object that no block of the list serves.
LEMMA LargeNewInv ==
    ASSUME HeapInv, NEW t \in Thread, NEW n \in 1..Units, AllocLargeNew(t, n)
    PROVE  HeapInv'
<1>1. PICK l \in Seq(Block) : l = lla[t] /\ l \in Seq(Large) /\ IsInjective(l) /\ BusyBehind(l, blk)
  BY ListsAre
<1>2. PICK f, m : f = Searched(l, 0) /\ m = Reordered(l, 0)
  OBVIOUS
<1>3. /\ SoundBlocks(f, inUse)
      /\ \A b \in Block : f[b].ta = blk[b].ta /\ (b \notin Range(l) => f[b] = blk[b])
      /\ \A j \in 1..Len(l) : f[l[j]].bs # {}
  <2>1. PICK k : k = 0 /\ k = ServerFor(l, n)
    BY <1>1 DEF AllocLargeNew
  <2>2. f = Searched(l, k) /\ SoundBlocks(blk, inUse)
    BY <1>2, <2>1 DEF HeapInv
  <2>3. /\ SoundBlocks(f, inUse)
        /\ \A b \in Block : f[b].ta = blk[b].ta /\ (b \notin Range(l) => f[b] = blk[b])
        /\ \A j \in 1..Len(l) : j # k => f[l[j]].bs # {}
    BY <1>1, <2>1, <2>2, SearchIs
  <2>4. \A j \in 1..Len(l) : j # k
    BY <2>1
  <2> QED
    BY <2>3, <2>4
<1>4. m \in Seq(Large) /\ IsInjective(m) /\ \A z : z \in Range(m) <=> z \in Range(l)
  <2>1. 0 \in 0..Len(l)
    OBVIOUS
  <2> QED
    BY <1>1, <1>2, <2>1, ReorderedIs
<1>5. \A j \in 1..Len(m) : m[j] \in Block /\ m[j] \in Range(l) /\ f[m[j]].bs # {}
  <2> TAKE j \in 1..Len(m)
  <2>1. PICK c : c = m[j]
    OBVIOUS
  <2>2. c \in Range(l)
    BY <1>4, <2>1, RangeIs
  <2>3. PICK i \in 1..Len(l) : l[i] = c
    BY <2>2, RangeIs
  <2>4. c \in Block
    BY <2>3
  <2> QED
    BY <1>3, <2>1, <2>2, <2>3, <2>4
<1>6. lsa' = lsa /\ llb' = llb /\ lbits' = lbits
  BY DEF AllocLargeNew
<1>7. CASE NoLarge /\ lla' = [lla EXCEPT ![t] = m] /\ blk' = f /\ inUse' = inUse
  <2>1. HugeTypes' /\ HugeListed' /\ hbits' = hbits
    BY <1>7, NoneIs DEF HeapInv
  <2>2. /\ Moved(llb, llb', Large, t, {}, {}) /\ Moved(lsa, lsa', Small, t, {}, {})
        /\ Moved(lla, lla', Large, t, {}, {})
    BY <1>1, <1>4, <1>6, <1>7, ListsAre, MovedIs
  <2>3. BusyBehind(m, f)
    <3>1. \A j \in 2..Len(m) : j \in 1..Len(m)
      BY <1>4
    <3> QED
      BY <1>5, <3>1 DEF BusyBehind
  <2>4. lla'[t] = m /\ \A u \in Thread : u # t => lla'[u] = lla[u]
    BY <1>7, ListsAre
  <2>5. Busy'
    BY <1>1, <1>3, <1>6, <1>7, <2>3, <2>4, BusyOne
  <2> QED
    BY <1>1, <1>3, <1>6, <1>7, <2>1, <2>2, <2>5, StaysInv DEF Serves
<1>8. ASSUME NEW b \in Large, TakeLarge(b), lla' = [lla EXCEPT ![t] = <<b>> \o m], ServeNew(t, b, n, f)
      PROVE  HeapInv'
  <2>1. /\ HugeTypes' /\ HugeListed'
        /\ b[2] \notin hbits[b[1]]
        /\ \A c \in Large : c[2] \in hbits'[c[1]] <=> c[2] \in hbits[c[1]] \/ c = b
    BY <1>8, TakeIs DEF HeapInv
  <2>2. ~Serves(b) /\ b \in Block /\ b \notin Range(l) /\ b \notin Range(m)
    <3>1. b \notin Small /\ b \in Block
      BY LargeIs
    <3>2. \A u \in Thread : b \notin Range(lsa[u])
      BY <3>1, OneList DEF HeapInv
    <3>3. \A u \in Thread : b \notin Range(lla[u])
      BY <2>1 DEF HeapInv, LargeListed
    <3> QED
      BY <1>1, <1>4, <3>1, <3>2, <3>3 DEF Serves
  <2>3. f[b] = Blank
    BY <1>3, <2>2 DEF HeapInv, OwnersKnown, Serves
  <2>4. /\ SoundBlocks(blk', inUse') /\ blk'[b].ta = t
        /\ \A c \in Block : c # b => blk'[c] = f[c]
    BY <1>3, <1>8, <2>2, <2>3, NewServes
  <2>5. PICK g : g = blk'
    OBVIOUS
  <2>6. PICK p, i : p = <<b>> \o m /\ i = {b} /\ i \in SUBSET Large
    <3>1. {b} \in SUBSET Large
      OBVIOUS
    <3> QED
      BY ONLY <3>1
  <2>7. lla' = [lla EXCEPT ![t] = p]
    BY <1>8, <2>6
  <2>8. lla'[t] = p /\ \A u \in Thread : u # t => lla'[u] = lla[u]
    BY <2>7, ListsAre
  <2>9. Moved(lla, lla', Large, t, i, {})
    <3>1. PICK k : k = 0 /\ k \in 0..Len(lla[t])
      BY ListsAre
    <3>2. m = Reordered(lla[t], k) /\ b \notin Range(lla[t])
      BY <1>1, <1>2, <2>2, <3>1
    <3>3. lla \in [Thread -> Seq(Large)] /\ \A u \in Thread : IsInjective(lla[u])
      BY ListsAre
    <3> QED
      BY ONLY <2>6, <2>7, <3>1, <3>2, <3>3, t \in Thread, b \in Large, MovedPushed
  <2>10. BusyBehind(p, g)
    <3>1. \A j \in 1..Len(m) : g[m[j]].bs # {}
      <4> TAKE j \in 1..Len(m)
      <4>1. PICK c \in Block : c = m[j] /\ c \in Range(l) /\ f[c].bs # {}
        BY <1>5
      <4>2. g[c] = f[c]
        BY <2>2, <2>4, <2>5, <4>1
      <4> QED
        BY <4>1, <4>2
    <3>2. m \in Seq(Block)
      <4>1. Large \subseteq Block
        BY DEF Block
      <4> QED
        BY <1>4, <4>1
    <3> QED
      BY ONLY <1>4, <2>2, <2>6, <3>1, <3>2, BusyPushed
  <2>11. PICK e : e = {} /\ e \in SUBSET Large
    <3>1. {} \in SUBSET Large
      OBVIOUS
    <3> QED
      BY ONLY <3>1
  <2>12. /\ Moved(lla, lla', Large, t, i, e) /\ Moved(llb, llb', Large, t, {}, {})
         /\ \A c \in Large : c[2] \in hbits'[c[1]] <=> (c[2] \in hbits[c[1]] /\ c \notin e) \/ c \in i
         /\ \A c \in i : c[2] \notin hbits[c[1]] /\ blk'[c].ta = t
         /\ \A c \in e : c \in Range(lla[t]) /\ blk'[c] = Blank
    <3>1. Moved(lla, lla', Large, t, i, e) /\ Moved(llb, llb', Large, t, {}, {})
      BY <1>6, <2>9, <2>11, ListsAre
    <3>2. \A c \in Large : c[2] \in hbits'[c[1]] <=> (c[2] \in hbits[c[1]] /\ c \notin e) \/ c \in i
      BY <2>1, <2>6, <2>11
    <3>3. \A c \in i : c[2] \notin hbits[c[1]] /\ blk'[c].ta = t
      BY <2>1, <2>4, <2>6
    <3>4. \A c \in e : c \in Range(lla[t]) /\ blk'[c] = Blank
      BY <2>11
    <3> QED
      BY <3>1, <3>2, <3>3, <3>4
  <2>13. \A a \in Block : Serves(a) /\ a \notin e =>
            blk'[a].ta = blk[a].ta /\ (a \notin Range(lla[t]) => blk'[a] = blk[a])
    <3> SUFFICES ASSUME NEW a \in Block, Serves(a)
                 PROVE  blk'[a].ta = blk[a].ta /\ (a \notin Range(lla[t]) => blk'[a] = blk[a])
      OBVIOUS
    <3>1. a # b /\ blk'[a] = f[a]
      BY <2>2, <2>4
    <3> QED
      BY <1>1, <1>3, <3>1
  <2>14. \A a \in Block : ~Serves(a) /\ a \notin i => blk'[a] = blk[a] \/ blk'[a] = Blank
    <3> SUFFICES ASSUME NEW a \in Block, ~Serves(a), a \notin i PROVE blk'[a] = blk[a]
      OBVIOUS
    <3>1. a # b /\ a \notin Range(l)
      BY <1>1, <2>6 DEF Serves
    <3> QED
      BY <1>3, <2>4, <3>1
  <2>15. /\ BusyBehind(lla'[t], blk') /\ \A u \in Thread : u # t => lla'[u] = lla[u]
         /\ SoundBlocks(blk', inUse')
    BY <2>4, <2>5, <2>8, <2>10
  <2> QED
    <3>1. i \in SUBSET Large /\ e \in SUBSET Large
      BY <2>6, <2>11
    <3> QED
      BY ONLY HeapInv, t \in Thread, <1>6, <2>1, <2>12, <2>13, <2>14, <2>15, <3>1, LargeMoves
<1> QED
  BY <1>1, <1>2, <1>7, <1>8 DEF AllocLargeNew

\* Nothing was allocated yet.
LEMMA AllocInitInv == AllocInit => HeapInv
<1> SUFFICES ASSUME AllocInit PROVE HeapInv
  OBVIOUS
<1>1. PICK e : e = <<>> /\ e \in Seq(Huge) /\ e \in Seq(Large) /\ e \in Seq(Small) /\ e \in Seq(Block) /\ Len(e) = 0
  <2>1. <<>> \in Seq(Huge) /\ <<>> \in Seq(Large) /\ <<>> \in Seq(Small) /\ <<>> \in Seq(Block) /\ Len(<<>>) = 0
    OBVIOUS
  <2> QED
    BY ONLY <2>1
<1>2. IsInjective(e) /\ \A z : z \notin Range(e)
  <2>1. \A i \in 1..Len(e) : FALSE
    BY <1>1
  <2>2. e \in Seq(Huge)
    BY <1>1
  <2> QED
    BY ONLY <2>1, <2>2, RangeIs
<1>3. /\ lhb = e /\ hbits = [h \in Huge |-> {}]
      /\ llb = [t \in Thread |-> e] /\ lbits = [b \in Large |-> {}]
      /\ lsa = [t \in Thread |-> e] /\ lla = [t \in Thread |-> e]
      /\ blk = [b \in Block |-> Blank] /\ inUse = {}
  BY <1>1 DEF AllocInit
<1>4. /\ \A t \in Thread : llb[t] = e /\ lsa[t] = e /\ lla[t] = e
      /\ \A h \in Huge : hbits[h] = {}
      /\ \A b \in Large : lbits[b] = {}
      /\ \A b \in Block : blk[b] = Blank
  BY <1>3
<1>5. HugeTypes /\ HugeListed
  BY <1>1, <1>2, <1>3, <1>4 DEF HugeTypes, HugeListed
<1>6. ListTypes
  BY <1>1, <1>3 DEF ListTypes
<1>7. LargeListed
  BY <1>2, <1>4, LargeIs DEF LargeListed
<1>8. SmallListed
  BY <1>2, <1>4, SmallIs DEF SmallListed
<1>9. SoundBlocks(blk, inUse)
  <2>1. blk \in [Block -> BlockRecord] /\ inUse \in Objects
    BY <1>3, BlankIs
  <2>2. \A b : In(inUse, b) = {}
    BY <1>3 DEF In
  <2>3. \A b \in Block : SoundFor(blk[b], In(inUse, b))
    BY <1>4, <2>2, BlankIs
  <2> QED
    BY <2>1, <2>3 DEF SoundBlocks
<1>10. OwnersKnown
  BY <1>2, <1>4 DEF OwnersKnown
<1>11. Busy
  <2>1. \A i \in 2..Len(e) : FALSE
    BY <1>1
  <2>2. BusyBehind(e, blk)
    BY <2>1 DEF BusyBehind
  <2> QED
    BY <1>4, <2>2 DEF Busy
<1> QED
  BY <1>5, <1>6, <1>7, <1>8, <1>9, <1>10, <1>11 DEF HeapInv

\* Every call, and every outcome of it, keeps the invariant.
LEMMA AllocStep == HeapInv /\ [AllocNext]_allocVars => HeapInv'
<1> SUFFICES ASSUME HeapInv, [AllocNext]_allocVars PROVE HeapInv'
  OBVIOUS
<1>1. ASSUME NEW t \in Thread, NEW n \in 1..Units, AllocSmall(t, n) PROVE HeapInv'
  <2>1. PICK k : k = ServerFor(lsa[t], n)
    OBVIOUS
  <2>2. /\ k # 0 /\ Serve(lsa[t], n, k) /\ lsa' = [lsa EXCEPT ![t] = Reordered(lsa[t], k)]
        /\ UNCHANGED <<lhb, hbits, llb, lbits, lla>>
    BY <1>1, <2>1 DEF AllocSmall
  <2> QED
    BY <2>1, <2>2, SmallServes
<1>2. ASSUME NEW t \in Thread, NEW n \in 1..Units, AllocSmallAligned(t, n) PROVE HeapInv'
  <2>1. PICK k : k = 1 /\ k = ServerFor(lsa[t], n)
    BY <1>2 DEF AllocSmallAligned, ServerFor
  <2>2. lsa' = [lsa EXCEPT ![t] = Reordered(lsa[t], k)]
    <3>1. Reordered(lsa[t], k) = lsa[t]
      BY <2>1 DEF Reordered
    <3>2. lsa' = lsa /\ lsa \in [Thread -> Seq(Small)]
      BY <1>2, ListsAre DEF AllocSmallAligned
    <3> QED
      BY <3>1, <3>2
  <2>3. k # 0 /\ Serve(lsa[t], n, k) /\ UNCHANGED <<lhb, hbits, llb, lbits, lla>>
    BY <1>2, <2>1 DEF AllocSmallAligned
  <2> QED
    BY <2>1, <2>2, <2>3, SmallServes
<1>3. ASSUME NEW t \in Thread, NEW n \in 1..Units, NEW aligned \in BOOLEAN, AllocCut(t, n, aligned) PROVE HeapInv'
  <2>1. Failed(t, n, aligned)
    BY <1>3 DEF AllocCut
  <2>2. CASE CutsNone(t, aligned)
    BY <2>1, <2>2, CutsNoneInv
  <2>3. ASSUME NEW b \in Small, Cuts(t, n, b, aligned) PROVE HeapInv'
    BY <2>1, <2>3, CutsInv
  <2>4. ASSUME NEW b \in Small, CutsNew(t, n, b, aligned) PROVE HeapInv'
    BY <2>1, <2>4, CutsNewInv
  <2> QED
    BY <1>3, <2>2, <2>3, <2>4 DEF AllocCut
<1>4. CASE UNCHANGED allocVars
  BY <1>4 DEF allocVars, HeapInv, HugeTypes, HugeListed, ListTypes, LargeListed, SmallListed, OwnersKnown, Busy
<1>5. ASSUME NEW t \in Thread, NEW o \in inUse,
             \/ FreeSmall(t, o) \/ FreeLarge(t, o) \/ FreeElsewhere(t, o)
             \/ \E n \in 1..Units : ReallocInPlace(t, o, n)
      PROVE  HeapInv'
  BY <1>5, FreeSmallInv, FreeLargeInv, FreeElsewhereInv, ReallocInPlaceInv
<1> QED
  BY <1>1, <1>2, <1>3, <1>4, <1>5, LargeServes, LargeNewInv DEF AllocNext

\* The invariant says more than BlocksAccounted.
LEMMA HeapInvAccounts == HeapInv => BlocksAccounted
<1> SUFFICES ASSUME HeapInv PROVE BlocksAccounted
  OBVIOUS
<1>1. \A l \in Lists : IsInjective(l)
  BY DEF HeapInv, HugeListed, LargeListed, SmallListed, Lists
<1>2. ASSUME NEW b \in Large
      PROVE  Cardinality({t \in Thread : b \in Range(llb[t])}) + Cardinality({t \in Thread : b \in Range(lla[t])})
                = IF b[2] \in hbits[b[1]] THEN 1 ELSE 0
  <2>1. PICK K, L : K = {t \in Thread : b \in Range(llb[t])} /\ L = {t \in Thread : b \in Range(lla[t])}
    OBVIOUS
  <2>2. Cardinality({}) = 0 /\ \A t \in Thread : Cardinality({t}) = 1
    BY FS_EmptySet, FS_Singleton
  <2>3. CASE b[2] \notin hbits[b[1]]
    <3>1. K = {} /\ L = {}
      BY <2>1, <2>3 DEF HeapInv, LargeListed
    <3>2. Cardinality(K) = 0 /\ Cardinality(L) = 0
      BY <2>2, <3>1
    <3>3. Cardinality(K) + Cardinality(L) = 0
      BY <3>2
    <3> QED
      BY <2>1, <2>3, <3>3
  <2>4. ASSUME NEW t \in Thread, b \in Range(llb[t]) PROVE K = {t} /\ L = {} /\ b[2] \in hbits[b[1]]
    BY <2>1, <2>4 DEF HeapInv, LargeListed
  <2>5. ASSUME NEW t \in Thread, b \in Range(lla[t]) PROVE K = {} /\ L = {t} /\ b[2] \in hbits[b[1]]
    BY <2>1, <2>5 DEF HeapInv, LargeListed
  <2>6. CASE b[2] \in hbits[b[1]]
    <3>1. PICK t \in Thread : b \in Range(llb[t]) \/ b \in Range(lla[t])
      BY <2>6 DEF HeapInv, LargeListed
    <3>2. (K = {t} /\ L = {}) \/ (K = {} /\ L = {t})
      BY <2>4, <2>5, <3>1
    <3>3. Cardinality(K) + Cardinality(L) = 1
      BY <2>2, <3>2
    <3> QED
      BY <2>1, <2>6, <3>3
  <2> QED
    BY <2>3, <2>6
<1>3. ASSUME NEW o \in inUse PROVE o[1] \in Range(lsa[blk[o[1]].ta]) \cup Range(lla[blk[o[1]].ta])
  <2>1. o[1] \in Block /\ Serves(o[1])
    BY ObjectIs
  <2>2. PICK t \in Thread : o[1] \in Range(lsa[t]) \/ o[1] \in Range(lla[t])
    BY <2>1 DEF Serves
  <2>3. blk[o[1]].ta = t
    BY <2>1, <2>2 DEF HeapInv, OwnersKnown
  <2> QED
    BY <2>2, <2>3
<1>4. ASSUME NEW o \in inUse, NEW p \in inUse, o[1] = p[1], o # p
      PROVE  o[2] + o[3] <= p[2] \/ p[2] + p[3] <= o[2]
  <2>1. PICK b, r, O : b = o[1] /\ r = blk[b] /\ O = In(inUse, b)
    OBVIOUS
  <2>2. o \in O /\ p \in O /\ o[2] \in r.bs /\ p[2] \in r.bs /\ SoundFor(r, O) /\ O \in Objects
    BY <1>4, <2>1, ObjectIs
  <2>3. /\ o[2] # p[2]
        /\ o[2] < p[2] => o[2] + o[3] <= p[2]
        /\ p[2] < o[2] => p[2] + p[3] <= o[2]
    BY <1>4, <2>2 DEF SoundFor
  <2>4. o[2] \in Nat /\ p[2] \in Nat
    BY <2>2 DEF Objects
  <2> QED
    BY ONLY <2>3, <2>4
<1>5. BlocksListed
  BY <1>1, <1>2, <1>3, <1>4 DEF BlocksListed, HeapInv, HugeListed, SmallListed
<1>6. FreeBlocksBlank
  BY DEF FreeBlocksBlank, HeapInv, OwnersKnown, LargeListed
<1>7. TriedBlocksInUse
  BY DEF TriedBlocksInUse, HeapInv, Busy, BusyBehind, Empty
<1> QED
  BY <1>5, <1>6, <1>7 DEF BlocksAccounted

\* No block of the allocator (mem/src/mem.cc) is lost, in two lists, or given
\* back while an object in it is in use; a block that is handed out again is
\* blank; and what try_hard_alloc() is called for is never empty.
THEOREM AllocSpecAccounts == AllocSpec => []BlocksAccounted
<1>1. AllocInit => HeapInv
  BY AllocInitInv
<1>2. HeapInv /\ [AllocNext]_allocVars => HeapInv'
  BY AllocStep
<1>3. HeapInv => BlocksAccounted
  BY HeapInvAccounts
<1> QED
  BY <1>1, <1>2, <1>3, PTL DEF AllocSpec

-----------------------------------------------------------------------------
(***************************************************************************)
(* Static objects lie apart and are destroyed in reverse order.  The       *)
(* invariant says what a block holds: one that is not the last is full, so *)
(* that ~Dealloc counts its destructors from the size of a block alone;    *)
(* and those that have run are those behind the loops.                     *)
(***************************************************************************)

Piece == [blk : Nat, at : Nat, n : Nat, a : Nat]

\* Objects lie in their blocks, those of the last one before p.
Laid(bl, p, objs) ==
    /\ bl \in Seq(Nat) /\ p \in 0..BlkSize /\ objs \in Seq(Piece)
    /\ bl = <<>> => p = 0
    /\ \A j \in 1..Len(objs) :
          /\ objs[j].blk \in 1..Len(bl) /\ objs[j].a # 0
          /\ (bl[objs[j].blk] + objs[j].at) % objs[j].a = 0
          /\ objs[j].at + objs[j].n <= BlkSize
          /\ objs[j].blk = Len(bl) => objs[j].at + objs[j].n <= p
    /\ \A h \in 1..Len(objs), j \in 1..Len(objs) :
          h < j /\ objs[h].blk = objs[j].blk => objs[h].at + objs[h].n <= objs[j].at

LaidOut == sa = [blk |-> sa.blk, p |-> sa.p, objs |-> sa.objs] /\ Laid(sa.blk, sa.p, sa.objs)

FullBlock == BlkSize \div FSize

\* The blocks of destructors: p is behind a whole number of them.
Counts ==
    /\ dx = [k \in 1..Classes |-> dx[k]]
    /\ \A k \in 1..Classes :
          /\ dx[k].blk \in Seq(Nat)
          /\ dx[k].blk = <<>> => dx[k].p = 0
          /\ \E c \in 0..FullBlock : dx[k].p = c * FSize

\* ~Dealloc looks for a destructor here.
Looked(k, i, c) ==
    k \in 1..Classes /\ i \in 1..Len(dx[k].blk) /\ c \in Nat /\ c < Holds(k, i)

\* Destructors lie exactly where ~Dealloc looks for them.
AsLooked ==
    /\ made \in Seq(Nat \X Nat \X Nat)
    /\ \A j \in 1..Len(made) : \E k, i, c \in Nat :
          Looked(k, i, c) /\ made[j] = <<k, i, c * FSize>>
    /\ \A k, i, c \in Nat :
          Looked(k, i, c) => \E j \in 1..Len(made) : made[j] = <<k, i, c * FSize>>

Below(e, f) == e[1] < f[1] \/ (e[1] = f[1] /\ (e[2] < f[2] \/ (e[2] = f[2] /\ e[3] < f[3])))

\* Those of a class lie one behind the other.
InOrder ==
    \A h \in 1..Len(made), j \in 1..Len(made) :
       h < j /\ made[h][1] = made[j][1] => Below(made[h], made[j])

Turns ==
    /\ turn \in [class : 0..Classes + 1, i : Nat, x : Nat]
    /\ turn.class \in 1..Classes =>
          /\ turn.i \in 0..Len(dx[turn.class].blk)
          /\ turn.i = 0 => turn.x = 0
          /\ turn.i > 0 => turn.x <= Holds(turn.class, turn.i)
    /\ turn.class \notin 1..Classes => turn.i = 0 /\ turn.x = 0

\* The loops are past e when they are at t.
Past(t, e) ==
    \/ e[1] > t.class
    \/ e[1] = t.class /\ (e[2] > t.i \/ (e[2] = t.i /\ e[3] >= t.x * FSize))

\* What the loops have come past has run.
RanExactly ==
    /\ ran \in Seq(Nat \X Nat \X Nat)
    /\ \A n \in 1..Len(ran) : Past(turn, ran[n]) /\ \E j \in 1..Len(made) : ran[n] = made[j]
    /\ \A j \in 1..Len(made) : Past(turn, made[j]) => \E n \in 1..Len(ran) : ran[n] = made[j]
    /\ \A m \in 1..Len(ran), n \in 1..Len(ran) : m < n => Below(ran[n], ran[m])

StaticInv == LaidOut /\ Counts /\ AsLooked /\ InOrder /\ Turns /\ RanExactly

LEMMA RoundsUp ==
    ASSUME NEW n \in Nat, NEW a \in Nat \ {0}
    PROVE  /\ RoundUp(n, a) \in Nat /\ RoundUp(n, a) >= n /\ RoundUp(n, a) < n + a
           /\ RoundUp(n, a) % a = 0
<1> DEFINE q == (n + a - 1) \div a
<1>1. q \in Nat
  BY SMT
<1>2. q * a <= n + a - 1 /\ n + a - 1 < q * a + a
  BY SMT
<1>3. q * a \in Nat
  BY <1>1, SMT
<1>4. (q * a) % a = 0
  BY <1>1, SMT
<1> QED
  BY <1>1, <1>2, <1>3, <1>4, SMT DEF RoundUp

LEMMA RoundsToOne ==
    ASSUME NEW n \in Nat
    PROVE  RoundUp(n, 1) = n
  BY SMT DEF RoundUp

LEMMA Multiples ==
    ASSUME NEW f \in Nat \ {0}, NEW b \in Nat, NEW c \in Nat
    PROVE  /\ b * f \in Nat /\ (b * f) \div f = b
           /\ b < c => b * f + f <= c * f
           /\ (b + 1) * f = b * f + f
           /\ (c \div f) \in Nat /\ (c \div f) * f <= c /\ c < (c \div f) * f + f
<1>1. b * f \in Nat /\ (b + 1) * f = b * f + f
  BY SMT
<1>2. (b * f) \div f = b
  BY SMT
<1>3. ASSUME b < c PROVE b * f + f <= c * f
  <2>1. PICK d \in Nat : c = b + 1 + d
    <3>1. c - b - 1 \in Nat /\ c = b + 1 + (c - b - 1)
      BY <1>3
    <3> QED
      BY <3>1
  <2>2. c * f = b * f + f + d * f /\ d * f \in Nat
    BY <2>1, SMT
  <2> QED
    BY <1>1, <2>2, SMT
<1>4. (c \div f) \in Nat /\ (c \div f) * f <= c /\ c < (c \div f) * f + f
  BY SMT
<1> QED
  BY <1>1, <1>2, <1>3, <1>4

\* An object behind the others in the last block, or in a new one, is apart from them.
LEMMA LaidMore ==
    ASSUME NEW bl, NEW p, NEW objs, Laid(bl, p, objs),
           NEW blks \in Seq(Nat), NEW o \in Piece,
           \/ blks = bl /\ bl # <<>> /\ o.at >= p
           \/ \E y \in Nat : blks = Append(bl, y),
           o.blk = Len(blks), o.a # 0, (blks[Len(blks)] + o.at) % o.a = 0,
           NEW q \in 0..BlkSize, o.at + o.n <= q
    PROVE  Laid(blks, q, Append(objs, o))
<1> DEFINE os == Append(objs, o)
<1>0. BlkSize \in Nat
  BY StaticAssumption DEF StaticAssumption
<1>1. bl \in Seq(Nat) /\ p \in 0..BlkSize /\ objs \in Seq(Piece) /\ Len(bl) \in Nat
  BY DEF Laid
<1>2. /\ Len(blks) \in Nat \ {0} /\ \A i \in 1..Len(bl) : i \in 1..Len(blks) /\ blks[i] = bl[i]
      /\ \/ Len(blks) = Len(bl) /\ o.at >= p
         \/ Len(blks) = Len(bl) + 1
  <2>1. CASE blks = bl /\ bl # <<>> /\ o.at >= p
    <3>1. Len(bl) # 0
      BY <2>1, <1>1, EmptySeq
    <3> QED
      BY <2>1, <3>1, <1>1
  <2>2. CASE \E y \in Nat : blks = Append(bl, y)
    <3>1. PICK y \in Nat : blks = Append(bl, y)
      BY <2>2
    <3>2. Len(blks) = Len(bl) + 1 /\ \A i \in 1..Len(bl) : blks[i] = bl[i]
      BY <3>1, <1>1, AppendProperties
    <3> QED
      BY <3>2, <1>1
  <2> QED
    BY <2>1, <2>2
<1>3. /\ os \in Seq(Piece) /\ Len(os) = Len(objs) + 1 /\ os[Len(os)] = o /\ Len(objs) \in Nat
      /\ \A j \in 1..Len(objs) : os[j] = objs[j] /\ objs[j] \in Piece
  BY <1>1
<1>4. o.at \in Nat /\ o.n \in Nat /\ o.blk \in Nat /\ \A j \in 1..Len(objs) :
         objs[j].at \in Nat /\ objs[j].n \in Nat /\ objs[j].blk \in Nat
  BY <1>3 DEF Piece
<1>5. \A j \in 1..Len(objs) :
         /\ objs[j].blk \in 1..Len(bl) /\ objs[j].a # 0
         /\ (bl[objs[j].blk] + objs[j].at) % objs[j].a = 0
         /\ objs[j].at + objs[j].n <= BlkSize
         /\ objs[j].blk = Len(bl) => objs[j].at + objs[j].n <= p
  BY DEF Laid
<1>6. \A h \in 1..Len(objs), j \in 1..Len(objs) :
         h < j /\ objs[h].blk = objs[j].blk => objs[h].at + objs[h].n <= objs[j].at
  BY DEF Laid
<1>7. \A h \in 1..Len(objs) :
         /\ objs[h].blk = o.blk => objs[h].at + objs[h].n <= o.at
         /\ objs[h].blk = Len(blks) => objs[h].at + objs[h].n <= q
  <2> TAKE h \in 1..Len(objs)
  <2>1. /\ objs[h].blk \in 1..Len(bl) /\ objs[h].at + objs[h].n <= BlkSize
        /\ objs[h].blk = Len(bl) => objs[h].at + objs[h].n <= p
        /\ objs[h].at \in Nat /\ objs[h].n \in Nat /\ objs[h].blk \in Nat
    BY <1>4, <1>5
  <2>2. p \in Nat /\ q \in Nat /\ o.at \in Nat /\ o.n \in Nat /\ o.at + o.n <= q /\ o.blk = Len(blks)
    BY <1>0, <1>1, <1>4
  <2> QED
    <3> DEFINE u == objs[h].blk
               e == objs[h].at + objs[h].n
               k == Len(bl)
               b == Len(blks)
    <3>1. u \in Nat /\ u <= k /\ e \in Nat /\ k \in Nat
      BY ONLY <1>1, <2>1
    <3>2. u = k => e <= p
      BY ONLY <2>1
    <3>3. (b = k /\ o.at >= p) \/ b = k + 1
      BY ONLY <1>2
    <3> HIDE DEF u, e, k, b
    <3>4. (u = o.blk => e <= o.at) /\ (u = b => e <= q)
      BY <3>1, <3>2, <3>3, <2>2 DEF b
    <3> QED
      BY <3>4 DEF u, e, b
<1> HIDE DEF os
<1>8. ASSUME NEW j \in 1..Len(os)
      PROVE  /\ os[j].blk \in 1..Len(blks) /\ os[j].a # 0
             /\ (blks[os[j].blk] + os[j].at) % os[j].a = 0
             /\ os[j].at + os[j].n <= BlkSize
             /\ os[j].blk = Len(blks) => os[j].at + os[j].n <= q
  <2>1. CASE j \in 1..Len(objs)
    <3>1. os[j] = objs[j]
      BY <2>1, <1>3
    <3>2. objs[j].blk \in 1..Len(blks) /\ blks[objs[j].blk] = bl[objs[j].blk]
      BY <2>1, <1>2, <1>5
    <3> QED
      BY <2>1, <3>1, <3>2, <1>5, <1>7
  <2>2. CASE j = Len(os)
    <3>1. os[j] = o
      BY <2>2, <1>3
    <3>2. o.at + o.n <= BlkSize
      BY <1>0, <1>4
    <3> QED
      BY <3>1, <3>2, <1>2
  <2> QED
    BY <2>1, <2>2, <1>3
<1>9. ASSUME NEW h \in 1..Len(os), NEW j \in 1..Len(os), h < j, os[h].blk = os[j].blk
      PROVE  os[h].at + os[h].n <= os[j].at
  <2>1. h \in 1..Len(objs) /\ os[h] = objs[h]
    BY <1>3, <1>9
  <2>2. CASE j \in 1..Len(objs)
    BY <2>1, <2>2, <1>3, <1>6, <1>9
  <2>3. CASE j = Len(os)
    BY <2>1, <2>3, <1>3, <1>7, <1>9
  <2> QED
    BY <2>2, <2>3, <1>3
<1>10. blks = <<>> => q = 0
  BY <1>2
<1> QED
  BY <1>3, <1>8, <1>9, <1>10 DEF Laid, os

\* MemBlocks::alloc() keeps objects apart.
LEMMA AllocLays ==
    ASSUME NEW m, Laid(m.blk, m.p, m.objs), NEW n \in Nat \ {0}, NEW a \in Nat \ {0},
           NEW new \in Nat, n + 2 * a <= BlkSize
    PROVE  LET r == MemAlloc(m, n, a, new)
           IN  /\ r = [blk |-> r.blk, p |-> r.p, objs |-> r.objs]
               /\ Laid(r.blk, r.p, r.objs)
<1> DEFINE from == IF m.blk = <<>> THEN new ELSE m.blk[Len(m.blk)]
           p == RoundUp(from + m.p, a)
           l == RoundUp(n, a)
           fits == p + l <= from + BlkSize
           y == IF fits THEN from ELSE new
           q == IF fits THEN p ELSE Start(new, a)
           blks == IF m.blk = <<>> \/ ~fits THEN Append(m.blk, y) ELSE m.blk
           o == [blk |-> Len(blks), at |-> q - y, n |-> n, a |-> a]
<1>1. /\ m.blk \in Seq(Nat) /\ m.p \in Nat /\ m.p <= BlkSize /\ (m.blk = <<>> => m.p = 0)
      /\ BlkSize \in Nat
  BY StaticAssumption DEF Laid, StaticAssumption
<1>2. MemAlloc(m, n, a, new) = [blk |-> blks, p |-> q - y + l, objs |-> Append(m.objs, o)]
  BY DEF MemAlloc
<1>3. from \in Nat /\ Len(m.blk) \in Nat
  BY <1>1
<1>4. /\ p \in Nat /\ p >= from + m.p
      /\ l \in Nat /\ l >= n /\ l < n + a
      /\ Start(new, a) \in Nat /\ Start(new, a) >= new /\ Start(new, a) < new + a
  <2>1. from + m.p \in Nat /\ n \in Nat
    BY <1>1, <1>3
  <2>2. p \in Nat /\ p >= from + m.p
    BY <2>1, RoundsUp
  <2>3. l \in Nat /\ l >= n /\ l < n + a
    BY <2>1, RoundsUp
  <2>4. Start(new, a) \in Nat /\ Start(new, a) >= new /\ Start(new, a) < new + a
    BY RoundsUp DEF Start
  <2> QED
    BY <2>2, <2>3, <2>4
<1>5. y \in Nat /\ q \in Nat /\ q >= y
  <2> DEFINE s == Start(new, a)
  <2>1. s \in Nat /\ s >= new
    BY <1>4
  <2> HIDE DEF from, p, l, s
  <2>2. (y = from /\ q = p) \/ (y = new /\ q = s)
    BY DEF s
  <2> HIDE DEF y, q
  <2> QED
    BY <2>1, <2>2, <1>1, <1>3, <1>4
<1>10. q % a = 0
  <2>1. from + m.p \in Nat
    BY <1>1, <1>3
  <2>2. p % a = 0
    BY <2>1, RoundsUp
  <2>3. Start(new, a) % a = 0
    BY RoundsUp DEF Start
  <2> HIDE DEF p
  <2> QED
    BY <2>2, <2>3
<1>6. /\ q - y \in Nat /\ q - y + l \in 0..BlkSize /\ y + (q - y) = q
      /\ q - y + n <= q - y + l
  <2> DEFINE s == Start(new, a)
  <2>1. s \in Nat /\ s < new + a
    BY <1>4
  <2> HIDE DEF from, p, l, s
  <2>2. (y = from /\ q = p /\ p + l <= from + BlkSize) \/ (y = new /\ q = s)
    BY DEF s
  <2> HIDE DEF y, q
  <2> QED
    BY <2>1, <2>2, <1>1, <1>3, <1>4, <1>5
<1>7. /\ blks \in Seq(Nat) /\ Len(blks) \in Nat \ {0} /\ blks[Len(blks)] = y
      /\ \/ blks = m.blk /\ m.blk # <<>> /\ q - y >= m.p
         \/ \E z \in Nat : blks = Append(m.blk, z)
  <2>1. CASE m.blk = <<>> \/ ~fits
    BY <2>1, <1>1, <1>5
  <2>2. CASE ~(m.blk = <<>> \/ ~fits)
    <3>1. y = from /\ q = p /\ blks = m.blk /\ from = m.blk[Len(m.blk)] /\ Len(m.blk) # 0
      BY <2>2, <1>1
    <3>3. p \in Nat /\ from \in Nat /\ p >= from + m.p /\ m.p \in Nat
      BY <1>1, <1>3, <1>4
    <3> HIDE DEF from, p, l, y, q, blks
    <3>2. q - y >= m.p
      <4> HIDE DEF fits, o
      <4> QED
        BY ONLY <3>1, <3>3
    <3> QED
      BY <3>1, <3>2, <2>2, <1>1, <1>3
  <2> QED
    BY <2>1, <2>2
<1> HIDE DEF from, p, l, fits, y, q, blks
<1>8. o \in Piece /\ o.blk = Len(blks) /\ o.at = q - y /\ o.n = n /\ o.a = a
  BY <1>6, <1>7 DEF Piece
<1> HIDE DEF o
<1>9. Laid(blks, q - y + l, Append(m.objs, o))
  <2>1. (blks[Len(blks)] + o.at) % o.a = 0
    BY <1>10, <1>6, <1>7, <1>8
  <2>2. o.at + o.n <= q - y + l
    BY <1>6, <1>8
  <2>3. \/ blks = m.blk /\ m.blk # <<>> /\ o.at >= m.p
        \/ \E z \in Nat : blks = Append(m.blk, z)
    BY <1>7, <1>8
  <2>4. o.blk = Len(blks) /\ o.a # 0
    BY <1>8
  <2> QED
    BY <2>1, <2>2, <2>3, <2>4, <1>6, <1>7, <1>8, LaidMore
<1> QED
  BY <1>2, <1>9

\* In pieces of one size, it takes the next one of the last block that is not full.
LEMMA AllocPiece ==
    ASSUME NEW m, m.blk \in Seq(Nat), NEW c \in 0..FullBlock, m.p = c * FSize,
           m.blk = <<>> => m.p = 0, NEW new \in Nat
    PROVE  LET r == MemAlloc(m, FSize, 1, new)
               more == m.blk # <<>> /\ c < FullBlock
           IN  /\ r.blk = IF more THEN m.blk ELSE Append(m.blk, new)
               /\ r.p = IF more THEN m.p + FSize ELSE FSize
               /\ m.blk # <<>> /\ ~more => c = FullBlock
<1> USE StaticAssumption DEF StaticAssumption
<1> DEFINE from == IF m.blk = <<>> THEN new ELSE m.blk[Len(m.blk)]
<1>0. FSize \in Nat \ {0} /\ BlkSize \in Nat /\ FSize <= BlkSize
  BY DEF StaticAssumption
<1>10. FullBlock \in Nat /\ c \in Nat
  BY <1>0, Multiples DEF FullBlock
<1>1. /\ FSize \in Nat \ {0} /\ BlkSize \in Nat /\ FSize <= BlkSize /\ from \in Nat /\ m.p \in Nat
      /\ FullBlock \in Nat /\ c \in Nat
  <2>1. m.p \in Nat
    BY <1>0, <1>10, Multiples
  <2>2. from \in Nat
    BY DEF StaticAssumption
  <2> QED
    BY <1>0, <1>10, <2>1, <2>2
<1>2. RoundUp(from + m.p, 1) = from + m.p /\ RoundUp(FSize, 1) = FSize /\ Start(new, 1) = new
  BY <1>1, RoundsToOne DEF Start
<1>3. FullBlock * FSize <= BlkSize /\ BlkSize < FullBlock * FSize + FSize /\ FullBlock * FSize \in Nat
  BY <1>1, Multiples DEF FullBlock
<1>4. c < FullBlock <=> m.p + FSize <= BlkSize
  <2>1. CASE c < FullBlock
    <3>1. c * FSize + FSize <= FullBlock * FSize
      BY <2>1, <1>1, Multiples
    <3> QED
      BY <2>1, <3>1, <1>1, <1>3
  <2>2. CASE c = FullBlock
    BY <2>2, <1>1, <1>3
  <2> QED
    BY <2>1, <2>2, <1>1
<1>5. MemAlloc(m, FSize, 1, new) =
        LET fits == from + m.p + FSize <= from + BlkSize
            y == IF fits THEN from ELSE new
            q == IF fits THEN from + m.p ELSE new
            blks == IF m.blk = <<>> \/ ~fits THEN Append(m.blk, y) ELSE m.blk
        IN  [blk |-> blks, p |-> q - y + FSize,
             objs |-> Append(m.objs, [blk |-> Len(blks), at |-> q - y, n |-> FSize, a |-> 1])]
  BY <1>2 DEF MemAlloc
<1> HIDE DEF from
<1>6. from + m.p + FSize <= from + BlkSize <=> m.p + FSize <= BlkSize
  BY <1>1
<1>7. CASE m.blk = <<>>
  <2>1. from + m.p + FSize <= from + BlkSize /\ from = new /\ m.p = 0
    BY <1>1, <1>6, <1>7 DEF from
  <2> QED
    BY <1>1, <1>5, <1>7, <2>1
<1>8. CASE m.blk # <<>> /\ c < FullBlock
  BY <1>1, <1>4, <1>5, <1>6, <1>8
<1>9. CASE m.blk # <<>> /\ ~(c < FullBlock)
  BY <1>1, <1>4, <1>5, <1>6, <1>9
<1> QED
  BY <1>7, <1>8, <1>9

LEMMA HoldsAre ==
    ASSUME Counts, NEW k \in 1..Classes
    PROVE  \E c \in 0..FullBlock :
              /\ dx[k].p = c * FSize
              /\ \A i \in 1..Len(dx[k].blk) : Holds(k, i) = IF i = Len(dx[k].blk) THEN c ELSE FullBlock
<1>1. PICK c \in 0..FullBlock : dx[k].p = c * FSize
  BY DEF Counts
<1>2. FSize \in Nat \ {0} /\ BlkSize \in Nat
  BY StaticAssumption DEF StaticAssumption
<1>3. c \in Nat
  BY <1>2, Multiples DEF FullBlock
<1>4. (c * FSize) \div FSize = c
  BY <1>2, <1>3, Multiples
<1>5. ASSUME NEW i \in 1..Len(dx[k].blk)
      PROVE  Holds(k, i) = IF i = Len(dx[k].blk) THEN c ELSE FullBlock
  BY <1>1, <1>4 DEF Holds, FullBlock
<1> QED
  BY <1>1, <1>5

LEMMA HoldsNat ==
    ASSUME Counts, NEW k \in 1..Classes, NEW i \in 1..Len(dx[k].blk)
    PROVE  Holds(k, i) \in Nat
<1>1. FullBlock \in Nat
  BY StaticAssumption, Multiples DEF StaticAssumption, FullBlock
<1> QED
  BY <1>1, HoldsAre

\* A destructor is added behind all of its class.
LEMMA AddsPiece ==
    ASSUME Counts, NEW k \in 1..Classes, NEW new \in Nat,
           dx' = [dx EXCEPT ![k] = MemAlloc(dx[k], FSize, 1, new)]
    PROVE  /\ Counts'
           /\ \E i0, c0 \in Nat :
                 /\ i0 = Len(dx'[k].blk) /\ dx'[k].p - FSize = c0 * FSize
                 /\ \A h, i, c \in Nat :
                       Looked(h, i, c)' <=> (Looked(h, i, c) \/ (h = k /\ i = i0 /\ c = c0))
                 /\ \A i, c \in Nat : Looked(k, i, c) => i < i0 \/ (i = i0 /\ c < c0)
<1> DEFINE r == MemAlloc(dx[k], FSize, 1, new)
<1>1. FSize \in Nat \ {0} /\ BlkSize \in Nat /\ FSize <= BlkSize
  BY StaticAssumption DEF StaticAssumption
<1>2. FullBlock \in Nat \ {0} /\ FullBlock * FSize \in Nat
  <2>1. FullBlock \in Nat /\ BlkSize < FullBlock * FSize + FSize /\ FullBlock * FSize \in Nat
    BY <1>1, Multiples DEF FullBlock
  <2>2. FullBlock = 0 => FullBlock * FSize = 0
    BY <1>1
  <2> QED
    BY <2>1, <2>2, <1>1
<1>3. PICK c0 \in 0..FullBlock :
         /\ dx[k].p = c0 * FSize
         /\ \A i \in 1..Len(dx[k].blk) :
               Holds(k, i) = IF i = Len(dx[k].blk) THEN c0 ELSE FullBlock
  BY HoldsAre
<1>4. /\ dx = [h \in 1..Classes |-> dx[h]]
      /\ \A h \in 1..Classes :
            /\ dx[h].blk \in Seq(Nat)
            /\ dx[h].blk = <<>> => dx[h].p = 0
            /\ \E c \in 0..FullBlock : dx[h].p = c * FSize
  BY DEF Counts
<1>5. /\ dx' = [h \in 1..Classes |-> dx'[h]] /\ dx'[k] = r
      /\ \A h \in 1..Classes : h # k => dx'[h] = dx[h]
  BY <1>4
<1> DEFINE more == dx[k].blk # <<>> /\ c0 < FullBlock
<1>6. /\ r.blk = IF more THEN dx[k].blk ELSE Append(dx[k].blk, new)
      /\ r.p = IF more THEN dx[k].p + FSize ELSE FSize
      /\ dx[k].blk # <<>> /\ ~more => c0 = FullBlock
  BY <1>3, <1>4, AllocPiece
<1> HIDE DEF r
<1> DEFINE n == Len(dx[k].blk)
           c1 == IF more THEN c0 ELSE 0
           i1 == IF more THEN n ELSE n + 1
<1>7. n \in Nat /\ (dx[k].blk = <<>> <=> n = 0) /\ c1 \in Nat /\ c1 + 1 \in 0..FullBlock
  BY <1>2, <1>4, EmptySeq
<1>8. /\ r.blk \in Seq(Nat) /\ Len(r.blk) = i1 /\ r.blk # <<>> /\ i1 \in Nat \ {0}
      /\ r.p = (c1 + 1) * FSize
  <2>1. CASE more
    <3>1. (c0 + 1) * FSize = c0 * FSize + FSize
      BY <1>1, <1>2, Multiples
    <3> QED
      BY <2>1, <3>1, <1>3, <1>4, <1>6, <1>7
  <2>2. CASE ~more
    <3>1. (0 + 1) * FSize = FSize
      BY <1>1
    <3>2. r.blk = Append(dx[k].blk, new) /\ r.p = FSize
      BY <2>2, <1>6
    <3>3. /\ Append(dx[k].blk, new) \in Seq(Nat) /\ Len(Append(dx[k].blk, new)) = n + 1
          /\ Append(dx[k].blk, new) # <<>>
      BY <1>4, AppendProperties, EmptySeq
    <3> QED
      BY <2>2, <3>1, <3>2, <3>3, <1>7
  <2> QED
    BY <2>1, <2>2
<1>9. Counts'
  BY <1>4, <1>5, <1>7, <1>8 DEF Counts
<1>10. \A h \in 1..Classes : h # k => \A i : Holds(h, i)' = Holds(h, i)
  BY <1>5 DEF Holds
<1>11. ASSUME NEW i \in 1..Len(dx'[k].blk)
       PROVE  Holds(k, i)' = IF i = i1 THEN c1 + 1 ELSE FullBlock
  <2>1. ((c1 + 1) * FSize) \div FSize = c1 + 1
    <3>1. c1 + 1 \in Nat
      BY <1>7
    <3> HIDE DEF c1
    <3> QED
      BY <3>1, <1>1, Multiples
  <2>2. Holds(k, i)' = (IF i = i1 THEN (c1 + 1) * FSize ELSE BlkSize) \div FSize
    BY <1>5, <1>8 DEF Holds
  <2> QED
    BY <2>1, <2>2 DEF FullBlock
<1>12. r.p - FSize = c1 * FSize
  <2>1. (c1 + 1) * FSize = c1 * FSize + FSize /\ c1 * FSize \in Nat
    BY <1>1, <1>7, Multiples
  <2> QED
    BY <2>1, <1>1, <1>8
<1>13. ASSUME NEW i \in Nat, NEW c \in Nat
       PROVE  /\ Looked(k, i, c)' <=> (Looked(k, i, c) \/ (i = i1 /\ c = c1))
              /\ Looked(k, i, c) => i < i1 \/ (i = i1 /\ c < c1)
  <2>1. Looked(k, i, c) <=> i \in 1..n /\ c < (IF i = n THEN c0 ELSE FullBlock)
    BY <1>3 DEF Looked
  <2>2. Looked(k, i, c)' <=> i \in 1..i1 /\ c < (IF i = i1 THEN c1 + 1 ELSE FullBlock)
    BY <1>5, <1>8, <1>11 DEF Looked
  <2>3. CASE more
    <3>1. i1 = n /\ c1 = c0 /\ n # 0 /\ c0 \in Nat
      BY <2>3, <1>2, <1>7
    <3> QED
      BY <2>1, <2>2, <3>1, <1>2, <1>7
  <2>4. CASE ~more
    <3>1. i1 = n + 1 /\ c1 = 0 /\ (n # 0 => c0 = FullBlock)
      BY <2>4, <1>6, <1>7
    <3> QED
      BY <2>1, <2>2, <3>1, <1>2, <1>7
  <2> QED
    BY <2>3, <2>4
<1>14. ASSUME NEW h \in Nat, h # k, NEW i \in Nat, NEW c \in Nat
       PROVE  Looked(h, i, c)' <=> Looked(h, i, c)
  BY <1>5, <1>10, <1>14 DEF Looked
<1>15. \A h, i, c \in Nat :
          Looked(h, i, c)' <=> (Looked(h, i, c) \/ (h = k /\ i = i1 /\ c = c1))
  BY <1>13, <1>14
<1>16. i1 = Len(dx'[k].blk) /\ dx'[k].p - FSize = c1 * FSize /\ i1 \in Nat /\ c1 \in Nat
  BY <1>5, <1>7, <1>8, <1>12
<1> HIDE DEF i1, c1
<1> QED
  BY <1>9, <1>13, <1>15, <1>16

LEMMA StaticInitInv == StaticInit => StaticInv
<1> SUFFICES ASSUME StaticInit PROVE StaticInv
  OBVIOUS
<1>0. BlkSize \in Nat /\ FSize \in Nat \ {0} /\ Classes \in Nat /\ FullBlock \in Nat
  BY StaticAssumption, Multiples DEF StaticAssumption, FullBlock
<1>1. LaidOut
  BY <1>0 DEF StaticInit, NoBlocks, LaidOut, Laid
<1>2. \A k \in 1..Classes : dx[k].blk = <<>> /\ dx[k].p = 0
  BY DEF StaticInit, NoBlocks
<1>3. Counts
  <2>1. 0 \in 0..FullBlock /\ 0 = 0 * FSize
    BY <1>0
  <2>2. dx = [k \in 1..Classes |-> dx[k]]
    BY DEF StaticInit
  <2>3. \A k \in 1..Classes : dx[k].blk \in Seq(Nat) /\ \E c \in 0..FullBlock : dx[k].p = c * FSize
    <3> TAKE k \in 1..Classes
    <3>1. dx[k].blk = <<>> /\ dx[k].p = 0
      BY <1>2
    <3>2. <<>> \in Seq(Nat)
      OBVIOUS
    <3> QED
      BY <2>1, <3>1, <3>2
  <2> QED
    BY <1>2, <2>2, <2>3 DEF Counts
<1>4. AsLooked
  BY <1>2 DEF StaticInit, AsLooked, Looked
<1>5. InOrder /\ RanExactly
  BY DEF StaticInit, InOrder, RanExactly
<1>6. Turns
  BY <1>0 DEF StaticInit, Turns
<1> QED
  BY <1>1, <1>3, <1>4, <1>5, <1>6 DEF StaticInv

LEMMA AddedStays ==
    ASSUME AsLooked, UNCHANGED <<dx, made>>
    PROVE  AsLooked'
<1>1. \A k, i, c : Looked(k, i, c)' <=> Looked(k, i, c)
  BY DEF Looked, Holds
<1>2. ASSUME NEW j \in 1..Len(made')
      PROVE  \E k, i, c \in Nat : Looked(k, i, c)' /\ made'[j] = <<k, i, c * FSize>>
  <2>1. PICK k \in Nat, i \in Nat, c \in Nat : Looked(k, i, c) /\ made[j] = <<k, i, c * FSize>>
    BY DEF AsLooked
  <2> QED
    BY <2>1, <1>1
<1>3. ASSUME NEW k \in Nat, NEW i \in Nat, NEW c \in Nat, Looked(k, i, c)'
      PROVE  \E j \in 1..Len(made') : made'[j] = <<k, i, c * FSize>>
  <2>1. Looked(k, i, c)
    BY <1>1, <1>3
  <2>2. PICK j \in 1..Len(made) : made[j] = <<k, i, c * FSize>>
    BY <2>1 DEF AsLooked
  <2> QED
    BY <2>2
<1>4. made' \in Seq(Nat \X Nat \X Nat)
  BY DEF AsLooked
<1> QED
  BY <1>2, <1>3, <1>4 DEF AsLooked

LEMMA SAllocInv ==
    ASSUME StaticInv, NEW n \in ObjSize, SAlloc(n)
    PROVE  StaticInv'
<1> DEFINE a == IF 2 * n <= CacheLine THEN 1 ELSE CacheLine
<1>1. PICK new \in Places : sa' = MemAlloc(sa, n, a, new)
  BY DEF SAlloc
<1>2. new \in Nat /\ n \in Nat \ {0} /\ a \in Nat \ {0} /\ n + 2 * a <= BlkSize
  BY StaticAssumption DEF StaticAssumption
<1> HIDE DEF a
<1>3. LaidOut'
  BY <1>1, <1>2, AllocLays DEF StaticInv, LaidOut
<1>4. UNCHANGED <<dx, made, ran, turn>>
  BY DEF SAlloc
<1> QED
  <2>1. Counts' /\ Turns'
    BY <1>4 DEF StaticInv, Counts, Turns, Holds
  <2>2. AsLooked'
    BY <1>4, AddedStays DEF StaticInv
  <2>3. InOrder'
    BY <1>4 DEF StaticInv, InOrder, Below
  <2>4. RanExactly'
    BY <1>4 DEF StaticInv, RanExactly, Below, Past
  <2> QED
    BY <1>3, <2>1, <2>2, <2>3, <2>4 DEF StaticInv

LEMMA MadeAre ==
    ASSUME AsLooked, NEW j \in 1..Len(made)
    PROVE  /\ made[j] \in Nat \X Nat \X Nat
           /\ \E c \in Nat : Looked(made[j][1], made[j][2], c) /\ made[j][3] = c * FSize
           /\ made[j][1] \in 1..Classes /\ made[j][2] \in 1..Len(dx[made[j][1]].blk)
<1>1. PICK k \in Nat, i \in Nat, c \in Nat : Looked(k, i, c) /\ made[j] = <<k, i, c * FSize>>
  BY DEF AsLooked
<1>2. made[j][1] = k /\ made[j][2] = i /\ made[j][3] = c * FSize
  BY <1>1
<1>4. made[j] \in Nat \X Nat \X Nat
  BY DEF AsLooked
<1>5. k \in 1..Classes /\ i \in 1..Len(dx[k].blk)
  BY <1>1 DEF Looked
<1> QED
  BY <1>1, <1>2, <1>4, <1>5

\* Before the program ends, nothing has run.
LEMMA NoneRan ==
    ASSUME StaticInv, turn.class = Classes + 1
    PROVE  ran = <<>> /\ \A e \in Nat \X Nat \X Nat : e[1] \in 1..Classes => ~Past(turn, e)
<1>1. Classes \in Nat
  BY StaticAssumption DEF StaticAssumption
<1>2. \A e \in Nat \X Nat \X Nat : e[1] \in 1..Classes => ~Past(turn, e)
  BY <1>1 DEF Past
<1>3. \A j \in 1..Len(made) : ~Past(turn, made[j])
  <2> TAKE j \in 1..Len(made)
  <2>1. made[j] \in Nat \X Nat \X Nat /\ made[j][1] \in 1..Classes
    BY MadeAre DEF StaticInv
  <2> QED
    BY <1>2, <2>1
<1>4. Len(ran) \in Nat /\ \A n \in 1..Len(ran) : FALSE
  BY <1>3 DEF StaticInv, RanExactly
<1>5. Len(ran) = 0
  BY <1>4
<1> QED
  BY <1>2, <1>5, EmptySeq DEF StaticInv, RanExactly

LEMMA AddDestructorInv ==
    ASSUME StaticInv, NEW k \in 1..Classes, AddDestructor(k)
    PROVE  StaticInv'
<1>1. PICK new \in Places :
         LET m == MemAlloc(dx[k], FSize, 1, new) IN
         /\ dx' = [dx EXCEPT ![k] = m]
         /\ made' = Append(made, <<k, Len(m.blk), m.p - FSize>>)
  BY DEF AddDestructor
<1>2. /\ new \in Nat /\ Counts /\ AsLooked /\ InOrder /\ Turns /\ RanExactly /\ LaidOut
      /\ FSize \in Nat \ {0} /\ Classes \in Nat /\ k \in Nat
  BY StaticAssumption DEF StaticInv, StaticAssumption
<1>3. dx'[k] = MemAlloc(dx[k], FSize, 1, new)
  BY <1>1, <1>2 DEF Counts
<1>4. /\ Counts'
      /\ \E i0, c0 \in Nat :
            /\ i0 = Len(dx'[k].blk) /\ dx'[k].p - FSize = c0 * FSize
            /\ \A h, i, c \in Nat :
                  Looked(h, i, c)' <=> (Looked(h, i, c) \/ (h = k /\ i = i0 /\ c = c0))
            /\ \A i, c \in Nat : Looked(k, i, c) => i < i0 \/ (i = i0 /\ c < c0)
  BY <1>1, <1>2, AddsPiece
<1>5. PICK i0, c0 \in Nat :
            /\ i0 = Len(dx'[k].blk) /\ dx'[k].p - FSize = c0 * FSize
            /\ \A h, i, c \in Nat :
                  Looked(h, i, c)' <=> (Looked(h, i, c) \/ (h = k /\ i = i0 /\ c = c0))
            /\ \A i, c \in Nat : Looked(k, i, c) => i < i0 \/ (i = i0 /\ c < c0)
  BY <1>4
<1> DEFINE e == <<k, i0, c0 * FSize>>
<1>6. made' = Append(made, e) /\ e \in Nat \X Nat \X Nat /\ e[1] = k /\ e[2] = i0 /\ e[3] = c0 * FSize
  BY <1>1, <1>2, <1>3, <1>5, Multiples
<1>7. UNCHANGED <<sa, ran, turn>> /\ turn.class = Classes + 1
  BY DEF AddDestructor, Open
<1>8. /\ made \in Seq(Nat \X Nat \X Nat) /\ made' \in Seq(Nat \X Nat \X Nat)
      /\ Len(made) \in Nat /\ Len(made') = Len(made) + 1 /\ made'[Len(made')] = e
      /\ \A j \in 1..Len(made) : made'[j] = made[j]
      /\ \A j \in 1..Len(made') : j \in 1..Len(made) \/ j = Len(made')
  BY <1>2, <1>6 DEF AsLooked
<1> HIDE DEF e
<1>9. AsLooked'
  <2>1. ASSUME NEW j \in 1..Len(made')
        PROVE  \E h, i, c \in Nat : Looked(h, i, c)' /\ made'[j] = <<h, i, c * FSize>>
    <3>1. CASE j \in 1..Len(made)
      <4>1. PICK h, i, c \in Nat : Looked(h, i, c) /\ made[j] = <<h, i, c * FSize>>
        BY <1>2, <3>1 DEF AsLooked
      <4> QED
        BY <4>1, <1>5, <1>8, <3>1
    <3>2. CASE j = Len(made')
      BY <3>2, <1>2, <1>5, <1>8 DEF e
    <3> QED
      BY <3>1, <3>2, <1>8
  <2>2. ASSUME NEW h \in Nat, NEW i \in Nat, NEW c \in Nat, Looked(h, i, c)'
        PROVE  \E j \in 1..Len(made') : made'[j] = <<h, i, c * FSize>>
    <3>1. CASE Looked(h, i, c)
      <4>1. PICK j \in 1..Len(made) : made[j] = <<h, i, c * FSize>>
        BY <3>1, <1>2 DEF AsLooked
      <4> QED
        <5>1. j \in 1..Len(made') /\ made'[j] = made[j]
          BY <1>8
        <5> QED
          BY <4>1, <5>1
    <3>2. CASE h = k /\ i = i0 /\ c = c0
      <4>1. Len(made') \in 1..Len(made') /\ made'[Len(made')] = <<h, i, c * FSize>>
        BY <3>2, <1>8 DEF e
      <4> QED
        BY <4>1
    <3> QED
      BY <2>2, <3>1, <3>2, <1>5
  <2> QED
    BY <2>1, <2>2, <1>8 DEF AsLooked
<1>10. \A j \in 1..Len(made) : made[j] \in Nat \X Nat \X Nat
  BY <1>8
<1>11. ASSUME NEW h \in 1..Len(made), made[h][1] = k
       PROVE  Below(made[h], e)
  <2>1. PICK c \in Nat : Looked(made[h][1], made[h][2], c) /\ made[h][3] = c * FSize
    BY <1>2, <1>11, MadeAre
  <2> DEFINE i == made[h][2]
  <2>4. Looked(k, i, c) /\ made[h][1] = k /\ i \in Nat /\ made[h][3] = c * FSize
    BY <2>1, <1>10, <1>11
  <2> HIDE DEF i
  <2>2. i < i0 \/ (i = i0 /\ c < c0)
    BY <2>4, <1>5
  <2>3. c < c0 => c * FSize < c0 * FSize
    <3>1. c < c0 => c * FSize + FSize <= c0 * FSize
      BY <1>2, Multiples
    <3>2. c * FSize \in Nat /\ c0 * FSize \in Nat
      BY <1>2, Multiples
    <3> QED
      BY <3>1, <3>2, <1>2
  <2> QED
    BY <2>2, <2>3, <2>4, <1>6 DEF Below, i
<1>12. InOrder'
  <2> SUFFICES ASSUME NEW h \in 1..Len(made'), NEW j \in 1..Len(made'),
                      h < j, made'[h][1] = made'[j][1]
               PROVE  Below(made'[h], made'[j])
    BY DEF InOrder, Below
  <2>5. h \in 1..Len(made') /\ j \in 1..Len(made') /\ h < j
    OBVIOUS
  <2>1. h \in 1..Len(made) /\ made'[h] = made[h]
    <3>1. Len(made) \in Nat /\ Len(made') = Len(made) + 1
      BY <1>8
    <3>2. h \in 1..Len(made)
      BY ONLY <2>5, <3>1
    <3> QED
      BY <3>2, <1>8
  <2>2. CASE j \in 1..Len(made)
    BY <2>1, <2>2, <1>2, <1>8 DEF InOrder
  <2>3. CASE j = Len(made')
    BY <2>1, <2>3, <1>6, <1>8, <1>11
  <2> QED
    BY <2>2, <2>3, <1>8
<1>13. Turns'
  BY <1>2, <1>7 DEF Turns
<1>14. RanExactly'
  <2>1. ran = <<>> /\ \A f \in Nat \X Nat \X Nat : f[1] \in 1..Classes => ~Past(turn, f)
    BY <1>7, NoneRan
  <2>2. \A f : Past(turn', f) = Past(turn, f)
    BY <1>7 DEF Past
  <2>3. ASSUME NEW j \in 1..Len(made') PROVE ~Past(turn, made'[j])
    <3>1. made'[j] \in Nat \X Nat \X Nat /\ made'[j][1] \in 1..Classes
      <4>1. PICK h, i, c \in Nat : Looked(h, i, c)' /\ made'[j] = <<h, i, c * FSize>>
        BY <1>9 DEF AsLooked
      <4> QED
        BY <4>1, <1>8 DEF Looked
    <3> QED
      BY <3>1, <2>1
  <2> QED
    BY <2>1, <2>2, <2>3, <1>7 DEF RanExactly
<1>15. LaidOut'
  BY <1>2, <1>7 DEF LaidOut, Laid
<1> QED
  BY <1>4, <1>9, <1>12, <1>13, <1>14, <1>15 DEF StaticInv

\* What the loops have not come past lies below what they have.
LEMMA PastLiesAbove ==
    ASSUME Turns, NEW e \in Nat \X Nat \X Nat, NEW f \in Nat \X Nat \X Nat, Past(turn, e), ~Past(turn, f)
    PROVE  Below(f, e)
<1>1. /\ e[1] \in Nat /\ e[2] \in Nat /\ e[3] \in Nat
      /\ f[1] \in Nat /\ f[2] \in Nat /\ f[3] \in Nat
  OBVIOUS
<1>2. turn.class \in Nat /\ turn.i \in Nat /\ turn.x * FSize \in Nat
  <2>1. turn.class \in Nat /\ turn.i \in Nat /\ turn.x \in Nat /\ FSize \in Nat \ {0}
    BY StaticAssumption DEF Turns, StaticAssumption
  <2> QED
    BY <2>1, Multiples
<1>3. \/ e[1] > turn.class
      \/ e[1] = turn.class /\ (e[2] > turn.i \/ (e[2] = turn.i /\ e[3] >= turn.x * FSize))
  BY DEF Past
<1>4. /\ f[1] <= turn.class
      /\ f[1] = turn.class => f[2] <= turn.i /\ (f[2] = turn.i => f[3] < turn.x * FSize)
  BY <1>1, <1>2 DEF Past
<1> DEFINE z == turn.x * FSize
<1> HIDE DEF z
<1>5. \/ e[1] > turn.class
      \/ e[1] = turn.class /\ (e[2] > turn.i \/ (e[2] = turn.i /\ e[3] >= z))
  BY <1>3 DEF z
<1>6. /\ f[1] <= turn.class /\ z \in Nat
      /\ f[1] = turn.class => f[2] <= turn.i /\ (f[2] = turn.i => f[3] < z)
  BY <1>2, <1>4 DEF z
<1> QED
  BY <1>1, <1>2, <1>5, <1>6 DEF Below

\* A step of the loops that comes past no destructor runs none.
LEMMA TurnMoves ==
    ASSUME StaticInv, UNCHANGED <<sa, dx, made, ran>>, Turns',
           \A j \in 1..Len(made) : Past(turn', made[j]) <=> Past(turn, made[j])
    PROVE  StaticInv'
<1>1. LaidOut' /\ Counts' /\ InOrder'
  BY DEF StaticInv, LaidOut, Laid, Counts, InOrder, Below
<1>2. AsLooked'
  BY AddedStays DEF StaticInv
<1>3. RanExactly'
  <2>1. ASSUME NEW n \in 1..Len(ran)
        PROVE  Past(turn', ran[n]) /\ \E j \in 1..Len(made) : ran[n] = made[j]
    <3>1. PICK j \in 1..Len(made) : ran[n] = made[j]
      BY DEF StaticInv, RanExactly
    <3>2. Past(turn, made[j])
      BY <3>1 DEF StaticInv, RanExactly
    <3>3. Past(turn', made[j])
      BY <3>2
    <3> QED
      BY <3>1, <3>3
  <2>2. ASSUME NEW j \in 1..Len(made), Past(turn', made[j])
        PROVE  \E n \in 1..Len(ran) : ran[n] = made[j]
    BY <2>2 DEF StaticInv, RanExactly
  <2>3. /\ ran' \in Seq(Nat \X Nat \X Nat)
        /\ \A m \in 1..Len(ran), n \in 1..Len(ran) : m < n => Below(ran[n], ran[m])
    BY DEF StaticInv, RanExactly
  <2>4. ran' = ran /\ made' = made
    OBVIOUS
  <2>5. \A n \in 1..Len(ran') : Past(turn', ran'[n]) /\ \E j \in 1..Len(made') : ran'[n] = made'[j]
    BY <2>1, <2>4
  <2>6. \A j \in 1..Len(made') : Past(turn', made'[j]) => \E n \in 1..Len(ran') : ran'[n] = made'[j]
    BY <2>2, <2>4
  <2> QED
    <3>1. /\ ran' \in Seq(Nat \X Nat \X Nat)
          /\ \A m \in 1..Len(ran'), n \in 1..Len(ran') : m < n => Below(ran'[n], ran'[m])
      BY <2>3, <2>4
    <3>2. \A e, f : Below(e, f)' <=> Below(e, f)
      BY DEF Below
    <3> QED
      BY <3>1, <2>5, <2>6 DEF RanExactly
<1> QED
  BY <1>1, <1>2, <1>3 DEF StaticInv

\* Where the loops begin with a block of a class.
LEMMA BeginsBlock ==
    ASSUME StaticInv, UNCHANGED <<sa, dx, made, ran>>, NEW k \in 1..Classes,
           NEW i \in 0..Len(dx[k].blk), turn' = InBlock(k, i)
    PROVE  /\ Turns'
           /\ turn'.class = k /\ turn'.i = i
           /\ \A j \in 1..Len(made) :
                 Past(turn', made[j]) <=> (made[j][1] > k \/ (made[j][1] = k /\ made[j][2] > i))
<1>1. FSize \in Nat \ {0} /\ Classes \in Nat /\ Counts /\ AsLooked
  BY StaticAssumption DEF StaticAssumption, StaticInv
<1>2. Len(dx[k].blk) \in Nat
  BY <1>1 DEF Counts
<1>3. i > 0 => Holds(k, i) \in Nat
  BY <1>1, <1>2, HoldsNat
<1>4. turn' = [class |-> k, i |-> i, x |-> IF i = 0 THEN 0 ELSE Holds(k, i)]
  BY DEF InBlock
<1>5. \A h, g : Holds(h, g)' = Holds(h, g)
  BY DEF Holds
<1>6. Turns'
  BY <1>1, <1>2, <1>3, <1>4, <1>5 DEF Turns
<1>7. ASSUME NEW j \in 1..Len(made)
      PROVE  Past(turn', made[j]) <=> (made[j][1] > k \/ (made[j][1] = k /\ made[j][2] > i))
  <2>1. PICK c \in Nat : Looked(made[j][1], made[j][2], c) /\ made[j][3] = c * FSize
    BY <1>1, MadeAre
  <2>2. /\ made[j][1] \in Nat /\ made[j][2] \in Nat \ {0} /\ made[j][3] \in Nat
        /\ made' = made
    BY <1>1, MadeAre
  <2>3. ASSUME made[j][1] = k, made[j][2] = i PROVE made[j][3] < turn'.x * FSize
    <3>1. c < Holds(k, i) /\ turn'.x = Holds(k, i) /\ Holds(k, i) \in Nat
      BY <2>1, <2>2, <2>3, <1>3, <1>4 DEF Looked
    <3>2. c * FSize + FSize <= Holds(k, i) * FSize /\ c * FSize \in Nat
      BY <3>1, <1>1, Multiples
    <3>3. Holds(k, i) * FSize \in Nat
      BY <3>1, <1>1, Multiples
    <3> QED
      BY <2>1, <3>1, <3>2, <3>3, <1>1
  <2>4. turn'.class = k /\ turn'.i = i
    BY <1>4
  <2>5. turn'.x * FSize \in Nat
    <3>1. turn'.x \in Nat
      BY <1>3, <1>4
    <3> QED
      BY <3>1, <1>1, Multiples
  <2> DEFINE z == turn'.x * FSize
  <2>6. Past(turn', made[j]) <=>
           \/ made[j][1] > k
           \/ made[j][1] = k /\ (made[j][2] > i \/ (made[j][2] = i /\ made[j][3] >= z))
    BY <2>2, <2>4 DEF Past
  <2>7. z \in Nat /\ (made[j][1] = k /\ made[j][2] = i => made[j][3] < z)
    BY <2>3, <2>5
  <2> HIDE DEF z
  <2> QED
    BY <2>2, <2>6, <2>7
<1> QED
  BY <1>4, <1>6, <1>7

LEMMA BlockBeforeInv ==
    ASSUME StaticInv, BlockBefore
    PROVE  StaticInv'
<1>1. /\ turn.x = 0 /\ turn.i > 1 /\ turn' = InBlock(turn.class, turn.i - 1)
      /\ UNCHANGED <<sa, dx, made, ran>>
  BY DEF BlockBefore
<1>2. Turns /\ AsLooked /\ Counts /\ FSize \in Nat \ {0} /\ Classes \in Nat
  BY StaticAssumption DEF StaticInv, StaticAssumption
<1>3. /\ turn.class \in 1..Classes /\ turn.i \in Nat /\ turn.i - 1 \in 0..Len(dx[turn.class].blk)
  <2>1. turn.class \in 1..Classes /\ turn.i \in Nat
    BY <1>1, <1>2 DEF Turns
  <2>2. turn.i \in 0..Len(dx[turn.class].blk) /\ Len(dx[turn.class].blk) \in Nat
    BY <2>1, <1>2 DEF Turns, Counts
  <2> QED
    BY <2>1, <2>2, <1>1
<1>4. /\ Turns'
      /\ \A j \in 1..Len(made) :
            Past(turn', made[j]) <=>
               \/ made[j][1] > turn.class
               \/ made[j][1] = turn.class /\ made[j][2] > turn.i - 1
  BY <1>1, <1>3, BeginsBlock
<1>5. ASSUME NEW j \in 1..Len(made)
      PROVE  Past(turn', made[j]) <=> Past(turn, made[j])
  <2>1. made[j][1] \in Nat /\ made[j][2] \in Nat /\ made[j][3] \in Nat
    BY <1>2, MadeAre
  <2>2. turn.x * FSize = 0
    BY <1>1, <1>2
  <2> QED
    BY <2>1, <2>2, <1>3, <1>4 DEF Past
<1> QED
  BY <1>1, <1>4, <1>5, TurnMoves

LEMMA ClassBeforeInv ==
    ASSUME StaticInv, ClassBefore
    PROVE  StaticInv'
<1> DEFINE k == turn.class - 1
<1>1. /\ turn.x = 0 /\ turn.i <= 1 /\ turn.class > 0
      /\ turn' = InBlock(k, IF k = 0 THEN 0 ELSE Len(dx[k].blk))
      /\ UNCHANGED <<sa, dx, made, ran>>
  BY DEF ClassBefore
<1>2. Turns /\ AsLooked /\ Counts /\ FSize \in Nat \ {0} /\ Classes \in Nat
  BY StaticAssumption DEF StaticInv, StaticAssumption
<1>3. turn.class \in 1..Classes + 1 /\ turn.i \in Nat /\ k \in 0..Classes
  BY <1>1, <1>2 DEF Turns
<1>4. ASSUME NEW j \in 1..Len(made)
      PROVE  /\ made[j][1] \in 1..Classes /\ made[j][2] \in 1..Len(dx[made[j][1]].blk)
             /\ made[j][3] \in Nat
             /\ Past(turn, made[j]) <=> made[j][1] > k
  <2>1. /\ made[j][1] \in 1..Classes /\ made[j][2] \in 1..Len(dx[made[j][1]].blk)
        /\ made[j][3] \in Nat
    BY <1>2, MadeAre
  <2>2. turn.x * FSize = 0
    BY <1>1, <1>2
  <2>3. made[j][2] \in Nat \ {0}
    BY <2>1
  <2> QED
    BY <2>1, <2>2, <2>3, <1>1, <1>2, <1>3 DEF Past
<1>5. CASE k = 0
  <2>1. turn' = [class |-> 0, i |-> 0, x |-> 0]
    BY <1>1, <1>5 DEF InBlock
  <2>2. Turns'
    BY <2>1, <1>2 DEF Turns
  <2>3. ASSUME NEW j \in 1..Len(made)
        PROVE  Past(turn', made[j]) <=> Past(turn, made[j])
    <3>1. made[j][1] > 0 /\ made' = made
      BY <1>1, <1>4
    <3> QED
      BY <3>1, <2>1, <1>4, <1>5 DEF Past
  <2> QED
    BY <1>1, <2>2, <2>3, TurnMoves
<1>6. CASE k # 0
  <2>1. k \in 1..Classes /\ Len(dx[k].blk) \in 0..Len(dx[k].blk)
    BY <1>3, <1>6, <1>2 DEF Counts
  <2>2. /\ Turns'
        /\ \A j \in 1..Len(made) :
              Past(turn', made[j]) <=> (made[j][1] > k \/ (made[j][1] = k /\ made[j][2] > Len(dx[k].blk)))
    <3> HIDE DEF k
    <3> QED
      BY <1>1, <1>6, <2>1, BeginsBlock
  <2>3. ASSUME NEW j \in 1..Len(made)
        PROVE  Past(turn', made[j]) <=> Past(turn, made[j])
    <3>1. made[j][1] = k => made[j][2] <= Len(dx[k].blk) /\ made[j][2] \in Nat
      BY <1>4
    <3>2. Len(dx[k].blk) \in Nat
      BY <2>1
    <3> QED
      BY <3>1, <3>2, <2>2, <1>4
  <2> QED
    BY <1>1, <2>2, <2>3, TurnMoves
<1> QED
  BY <1>5, <1>6

LEMMA RunOneInv ==
    ASSUME StaticInv, RunOne
    PROVE  StaticInv'
<1> DEFINE k == turn.class
           i == turn.i
           c == turn.x - 1
           e == <<k, i, c * FSize>>
<1>1. /\ turn.x > 0 /\ ran' = Append(ran, e) /\ turn' = [turn EXCEPT !.x = @ - 1]
      /\ UNCHANGED <<sa, dx, made>>
  BY DEF RunOne
<1>2. /\ LaidOut /\ Counts /\ AsLooked /\ InOrder /\ Turns /\ RanExactly
      /\ FSize \in Nat \ {0} /\ Classes \in Nat
  BY StaticAssumption DEF StaticInv, StaticAssumption
<1>3. /\ k \in 1..Classes /\ i \in 1..Len(dx[k].blk) /\ k \in Nat /\ i \in Nat /\ c \in Nat
      /\ c < Holds(k, i) /\ Holds(k, i) \in Nat /\ turn.x = c + 1
  <2>1. turn.x \in Nat /\ k \in 0..Classes + 1 /\ i \in Nat
    BY <1>2 DEF Turns
  <2>2. k \in 1..Classes
    BY <1>1, <1>2, <2>1 DEF Turns
  <2>3. i \in 0..Len(dx[k].blk) /\ i # 0 /\ turn.x <= Holds(k, i)
    BY <1>1, <1>2, <2>1, <2>2 DEF Turns
  <2>4. Len(dx[k].blk) \in Nat
    BY <1>2, <2>2 DEF Counts
  <2>5. i \in 1..Len(dx[k].blk)
    BY <2>3, <2>4
  <2>6. Holds(k, i) \in Nat
    BY <1>2, <2>2, <2>5, HoldsNat
  <2> QED
    BY <1>1, <2>1, <2>2, <2>3, <2>5, <2>6
<1>4. turn' = [class |-> k, i |-> i, x |-> c]
  BY <1>1, <1>2 DEF Turns
<1>5. /\ c * FSize \in Nat /\ (c + 1) * FSize = c * FSize + FSize /\ e \in Nat \X Nat \X Nat
      /\ e[1] = k /\ e[2] = i /\ e[3] = c * FSize
  <2>1. c * FSize \in Nat /\ (c + 1) * FSize = c * FSize + FSize
    BY <1>2, <1>3, Multiples
  <2> QED
    BY <1>3, <2>1
<1>6. PICK je \in 1..Len(made) : made[je] = e
  <2>1. Looked(k, i, c)
    BY <1>3 DEF Looked
  <2> QED
    BY <1>2, <1>3, <2>1 DEF AsLooked
<1>7. turn'.class = k /\ turn'.i = i /\ turn'.x = c /\ turn.class = k /\ turn.i = i /\ turn.x = c + 1
  BY <1>3, <1>4
<1>8. ~Past(turn, e) /\ Past(turn', e)
  BY <1>2, <1>3, <1>5, <1>7 DEF Past
<1>9. \A f \in Nat \X Nat \X Nat : Past(turn, f) => Past(turn', f)
  BY <1>2, <1>3, <1>5, <1>7 DEF Past
<1>10. ASSUME NEW j \in 1..Len(made), Past(turn', made[j]), ~Past(turn, made[j])
       PROVE  made[j] = e
  <2>1. PICK d \in Nat : Looked(made[j][1], made[j][2], d) /\ made[j][3] = d * FSize
    BY <1>2, MadeAre
  <2>2. made[j] \in Nat \X Nat \X Nat
    BY <1>2, MadeAre
  <2> DEFINE u == made[j][3]
             v == c * FSize
             w == (c + 1) * FSize
  <2>3. made[j][1] = k /\ made[j][2] = i /\ v <= u /\ u < w
    <3>1. \/ made[j][1] > k
          \/ made[j][1] = k /\ (made[j][2] > i \/ (made[j][2] = i /\ u >= v))
      BY <1>7, <1>10 DEF Past
    <3>2. ~(\/ made[j][1] > k
            \/ made[j][1] = k /\ (made[j][2] > i \/ (made[j][2] = i /\ u >= w)))
      BY <1>7, <1>10 DEF Past
    <3>3. made[j][1] \in Nat /\ made[j][2] \in Nat /\ u \in Nat /\ v \in Nat /\ w \in Nat
      BY <2>2, <1>2, <1>5
    <3> HIDE DEF u, v, w, k, i
    <3> QED
      BY <3>1, <3>2, <3>3, <1>3
  <2>4. d * FSize \in Nat /\ (d < c => d * FSize + FSize <= c * FSize)
        /\ (c < d => c * FSize + FSize <= d * FSize)
    BY <1>2, <1>3, Multiples
  <2>5. d = c
    <3> DEFINE t == d * FSize
    <3>1. t \in Nat /\ v \in Nat /\ v <= t /\ t < v + FSize
          /\ (d < c => t + FSize <= v) /\ (c < d => v + FSize <= t)
      BY <2>1, <2>3, <2>4, <1>5
    <3> HIDE DEF t, v, c
    <3> QED
      BY <3>1, <1>2, <1>3
  <2> QED
    BY <2>1, <2>2, <2>3, <2>5
<1>11. /\ ran \in Seq(Nat \X Nat \X Nat) /\ ran' \in Seq(Nat \X Nat \X Nat)
       /\ Len(ran) \in Nat /\ Len(ran') = Len(ran) + 1 /\ ran'[Len(ran')] = e
       /\ \A n \in 1..Len(ran) : ran'[n] = ran[n] /\ ran[n] \in Nat \X Nat \X Nat
       /\ \A n \in 1..Len(ran') : n \in 1..Len(ran) \/ n = Len(ran')
  <2>1. ran \in Seq(Nat \X Nat \X Nat)
    BY <1>2 DEF RanExactly
  <2> HIDE DEF e
  <2> QED
    BY <2>1, <1>1, <1>5, AppendProperties
<1> HIDE DEF e, k, i, c
<1>12. RanExactly'
  <2>1. ASSUME NEW n \in 1..Len(ran')
        PROVE  Past(turn', ran'[n]) /\ \E j \in 1..Len(made') : ran'[n] = made'[j]
    <3>1. CASE n \in 1..Len(ran)
      <4>1. Past(turn, ran[n]) /\ \E j \in 1..Len(made) : ran[n] = made[j]
        BY <3>1, <1>2 DEF RanExactly
      <4> QED
        BY <3>1, <4>1, <1>1, <1>9, <1>11
    <3>2. CASE n = Len(ran')
      BY <3>2, <1>1, <1>6, <1>8, <1>11
    <3> QED
      BY <3>1, <3>2, <1>11
  <2>2. ASSUME NEW j \in 1..Len(made'), Past(turn', made'[j])
        PROVE  \E n \in 1..Len(ran') : ran'[n] = made'[j]
    <3>1. made' = made /\ j \in 1..Len(made) /\ Past(turn', made[j])
      BY <1>1, <2>2
    <3>2. CASE Past(turn, made[j])
      <4>1. PICK n \in 1..Len(ran) : ran[n] = made[j]
        BY <3>1, <3>2, <1>2 DEF RanExactly
      <4>2. n \in 1..Len(ran') /\ ran'[n] = made[j]
        <5>1. ran'[n] = ran[n]
          BY <1>11
        <5>2. Len(ran) \in Nat /\ Len(ran') = Len(ran) + 1
          BY <1>11
        <5>3. n \in 1..Len(ran')
          BY <5>2
        <5> QED
          BY <4>1, <5>1, <5>3
      <4>3. ran'[n] = made'[j]
        BY <3>1, <4>2
      <4> QED
        BY <4>2, <4>3
    <3>3. CASE ~Past(turn, made[j])
      <4>1. made[j] = e
        BY <3>1, <3>3, <1>10
      <4>2. Len(ran') \in 1..Len(ran') /\ ran'[Len(ran')] = e
        BY <1>11
      <4> QED
        BY <3>1, <4>1, <4>2
    <3> QED
      BY <3>2, <3>3
  <2>3. ASSUME NEW m \in 1..Len(ran'), NEW n \in 1..Len(ran'), m < n
        PROVE  Below(ran'[n], ran'[m])
    <3>1. m \in 1..Len(ran)
      <4>1. Len(ran) \in Nat /\ Len(ran') = Len(ran) + 1
        BY <1>11
      <4> QED
        BY ONLY <4>1, <2>3, m \in 1..Len(ran'), n \in 1..Len(ran')
    <3>2. CASE n \in 1..Len(ran)
      BY <3>1, <3>2, <2>3, <1>2, <1>11 DEF RanExactly
    <3>3. CASE n = Len(ran')
      <4>1. Past(turn, ran[m]) /\ ran[m] \in Nat \X Nat \X Nat
        BY <3>1, <1>2, <1>11 DEF RanExactly
      <4>2. Below(e, ran[m])
        BY <4>1, <1>2, <1>5, <1>8, PastLiesAbove
      <4> QED
        BY <3>1, <3>3, <4>2, <1>11
    <3> QED
      BY <3>2, <3>3, <1>11
  <2> QED
    BY <2>1, <2>2, <2>3, <1>11 DEF RanExactly, Below
<1>13. Turns'
  <2>1. dx' = dx /\ \A h, g : Holds(h, g)' = Holds(h, g)
    BY <1>1 DEF Holds
  <2> QED
    BY <2>1, <1>2, <1>3, <1>4 DEF Turns
<1>14. LaidOut' /\ Counts' /\ AsLooked' /\ InOrder'
  BY <1>1, <1>2, AddedStays DEF LaidOut, Laid, Counts, InOrder, Below
<1> QED
  BY <1>12, <1>13, <1>14 DEF StaticInv

LEMMA StaticStep == StaticInv /\ [StaticNext]_staticVars => StaticInv'
<1> SUFFICES ASSUME StaticInv, [StaticNext]_staticVars PROVE StaticInv'
  OBVIOUS
<1>1. CASE \E n \in ObjSize : SAlloc(n)
  BY <1>1, SAllocInv
<1>2. CASE \E k \in 1..Classes : AddDestructor(k)
  BY <1>2, AddDestructorInv
<1>3. CASE RunOne
  BY <1>3, RunOneInv
<1>4. CASE BlockBefore
  BY <1>4, BlockBeforeInv
<1>5. CASE ClassBefore
  BY <1>5, ClassBeforeInv
<1>6. CASE UNCHANGED staticVars
  <2>1. UNCHANGED <<sa, dx, made, ran>> /\ turn' = turn
    BY <1>6 DEF staticVars
  <2>2. Turns'
    BY <2>1 DEF StaticInv, Turns, Holds
  <2> QED
    BY <2>1, <2>2, TurnMoves
<1> QED
  BY <1>1, <1>2, <1>3, <1>4, <1>5, <1>6 DEF StaticNext

LEMMA StaticInvKeeps == StaticInv => StaticObjectsKept
<1> SUFFICES ASSUME StaticInv PROVE StaticObjectsKept
  OBVIOUS
<1>1. ObjectsPlaced
  <2>1. Laid(sa.blk, sa.p, sa.objs)
    BY DEF StaticInv, LaidOut
  <2>2. Len(sa.objs) \in Nat
    BY <2>1 DEF Laid
  <2> SUFFICES ASSUME NEW j \in 1..Len(sa.objs)
               PROVE  /\ (sa.blk[sa.objs[j].blk] + sa.objs[j].at) % sa.objs[j].a = 0
                      /\ sa.objs[j].at + sa.objs[j].n <= BlkSize
                      /\ \A h \in 1..j - 1 : sa.objs[h].blk = sa.objs[j].blk =>
                            sa.objs[h].at + sa.objs[h].n <= sa.objs[j].at
    BY DEF ObjectsPlaced
  <2>3. \A h \in 1..j - 1 : h \in 1..Len(sa.objs) /\ h < j
    BY <2>2
  <2> QED
    BY <2>1, <2>3 DEF Laid
<1>2. Classes \in Nat /\ AsLooked /\ InOrder /\ RanExactly /\ Turns
  BY StaticAssumption DEF StaticInv, StaticAssumption
<1>3. ASSUME NEW n \in 1..Len(ran), NEW m \in 1..Len(ran),
             NEW j \in 1..Len(made), NEW h \in 1..Len(made),
             m < n, ran[m] = made[h], ran[n] = made[j]
      PROVE  made[h][1] > made[j][1] \/ (made[h][1] = made[j][1] /\ h > j)
  <2>1. Below(made[j], made[h])
    BY <1>2, <1>3 DEF RanExactly
  <2>2. made[j] \in Nat \X Nat \X Nat /\ made[h] \in Nat \X Nat \X Nat
    BY <1>2, MadeAre
  <2>3. h < j /\ made[h][1] = made[j][1] => Below(made[h], made[j])
    BY <1>2 DEF InOrder
  <2>4. ~(Below(made[h], made[j]) /\ Below(made[j], made[h]))
    BY <2>2 DEF Below
  <2>5. h # j
    BY <2>1, <2>2 DEF Below
  <2>6. made[j][1] <= made[h][1]
    BY <2>1, <2>2 DEF Below
  <2>7. h \in Nat /\ j \in Nat /\ made[j][1] \in Nat /\ made[h][1] \in Nat
    BY <2>2
  <2> QED
    BY <2>1, <2>3, <2>4, <2>5, <2>6, <2>7
<1>4. ASSUME turn.class = 0, NEW j \in 1..Len(made)
      PROVE  \E n \in 1..Len(ran) : ran[n] = made[j]
  <2>1. made[j][1] \in 1..Classes
    BY <1>2, MadeAre
  <2>2. Past(turn, made[j])
    BY <2>1, <1>2, <1>4 DEF Past
  <2> QED
    BY <2>2, <1>2 DEF RanExactly
<1>5. \A n \in 1..Len(ran) : \E j \in 1..Len(made) : ran[n] = made[j]
  BY <1>2 DEF RanExactly
<1>6. DestroyedInReverse
  BY <1>3, <1>4, <1>5 DEF DestroyedInReverse
<1> QED
  BY <1>1, <1>6 DEF StaticObjectsKept

\* Static objects (MemBlocks, StaticAlloc and Root in mem/src/mem.cc) lie aligned in
\* their blocks and apart, and at exit ~Dealloc runs every destructor that was added
\* and nothing else, once, in the reverse order of their class.
THEOREM StaticObjectsAreKept == StaticSpec => []StaticObjectsKept
<1>1. StaticInit => StaticInv
  BY StaticInitInv
<1>2. StaticInv /\ [StaticNext]_staticVars => StaticInv'
  BY StaticStep
<1>3. StaticInv => StaticObjectsKept
  BY StaticInvKeeps
<1> QED
  BY <1>1, <1>2, <1>3, PTL DEF StaticSpec
=============================================================================
