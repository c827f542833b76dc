------------------------------- MODULE CoPool -------------------------------
(***************************************************************************)
(* CoroutinePool (co/src/sched.h): where a scheduler takes its Coroutine   *)
(* structures from.  They live in blocks of N; block 0 and the current     *)
(* block have free lists, any other block is freed as a whole once it is   *)
(* empty.  A coroutine id is the pair of its block and its offset there;   *)
(* the order of a free list is abstracted to a set.                        *)
(***************************************************************************)
EXTENDS Naturals, FiniteSets

CONSTANTS
    N,        \* coroutines per block (1 << 12)
    MaxBlock, \* bound: the last block the model has room for
    MaxLive   \* bound: the most coroutines that exist at a time

Block == 0..MaxBlock
Id == Block \X (0..N - 1)

VARIABLES
    c,        \* _c, the current block
    o,        \* _o, the next unused offset in it
    v,        \* the blocks that are allocated (_v[b] is not null)
    useCount, \* _use_count
    v0,       \* _v0, free coroutines of block 0
    vc,       \* _vc, free coroutines of block _c
    blks,     \* _blks, blocks available
    holders   \* how many holders each slot has been handed out to

vars == <<c, o, v, useCount, v0, vc, blks, holders>>

Live == {id \in Id : holders[id] > 0}

MinOf(S) == CHOOSE x \in S : \A y \in S : x <= y

\* The scheduler's constructor pops slot 0 of block 0 for _main_co.
MainCo == <<0, 0>>

Init ==
    /\ c = 0 /\ o = 1
    /\ v = {0}
    /\ useCount = [b \in Block |-> IF b = 0 THEN 1 ELSE 0]
    /\ v0 = {} /\ vc = {} /\ blks = {}
    /\ holders = [id \in Id |-> IF id = MainCo THEN 1 ELSE 0]

Room == Cardinality(Live) < MaxLive

\* _use_count[q]++, and the slot goes to the caller.
HandOut(id) ==
    /\ useCount' = [useCount EXCEPT ![id[1]] = @ + 1]
    /\ holders' = [holders EXCEPT ![id] = @ + 1]

\* pop: a free coroutine of block 0 ...
PopV0 ==
    /\ Room
    /\ \E id \in v0 : HandOut(id) /\ v0' = v0 \ {id}
    /\ UNCHANGED <<c, o, v, vc, blks>>

\* ... else one of the current block ...
PopVc ==
    /\ Room
    /\ v0 = {}
    /\ \E id \in vc : HandOut(id) /\ vc' = vc \ {id}
    /\ UNCHANGED <<c, o, v, v0, blks>>

\* newco: the next slot of block b, which is allocated if it is not.
NewCo(b, i) ==
    /\ b \in Block
    /\ HandOut(<<b, i>>)
    /\ v' = v \cup {b}
    /\ c' = b /\ o' = i + 1

\* ... else the next unused slot of the current block ...
PopNext ==
    /\ Room
    /\ v0 = {} /\ vc = {}
    /\ o < N
    /\ NewCo(c, o)
    /\ UNCHANGED <<v0, vc, blks>>

\* ... else the first slot of an available block, or of block _c + 1.
PopBlock ==
    /\ Room
    /\ v0 = {} /\ vc = {}
    /\ o = N
    /\ IF blks # {}
       THEN NewCo(MinOf(blks), 0) /\ blks' = blks \ {MinOf(blks)}
       ELSE NewCo(c + 1, 0) /\ UNCHANGED blks
    /\ UNCHANGED <<v0, vc>>

\* push, when the last coroutine of block b has come back: the block is freed
\* and, unless it is the current one, becomes available; the current block is
\* exchanged for a lower one that is available.
FreeBlock(b) ==
    /\ v' = v \ {b}
    /\ IF b # c
       THEN blks' = blks \cup {b} /\ UNCHANGED <<c, o, vc>>
       ELSE /\ vc' = {} /\ o' = 0
            /\ IF blks # {} /\ MinOf(blks) < c
               THEN c' = MinOf(blks) /\ blks' = (blks \cup {c}) \ {MinOf(blks)}
               ELSE UNCHANGED <<c, blks>>

\* A bug: the current block is tried before block 0.
PushCurrentFirst(id) ==
    /\ id \in Live \ {MainCo}
    /\ LET b == id[1] IN
       /\ holders' = [holders EXCEPT ![id] = @ - 1]
       /\ useCount' = [useCount EXCEPT ![b] = @ - 1]
       /\ v0' = IF b = 0 /\ b # c THEN v0 \cup {id} ELSE v0
       /\ IF useCount[b] = 1
          THEN FreeBlock(b)
          ELSE /\ vc' = IF b = c THEN vc \cup {id} ELSE vc
               /\ UNCHANGED <<c, o, v, blks>>

\* push(id)
Push(id) ==
    /\ id \in Live \ {MainCo}
    /\ LET b == id[1] IN
       /\ holders' = [holders EXCEPT ![id] = @ - 1]
       /\ useCount' = [useCount EXCEPT ![b] = @ - 1]
       /\ v0' = IF b = 0 THEN v0 \cup {id} ELSE v0
       /\ IF useCount[b] = 1
          THEN FreeBlock(b)
          ELSE /\ vc' = IF b = c /\ b # 0 THEN vc \cup {id} ELSE vc
               /\ UNCHANGED <<c, o, v, blks>>

Next == PopV0 \/ PopVc \/ PopNext \/ PopBlock \/ \E id \in Id : Push(id)

Spec == Init /\ [][Next]_vars

-----------------------------------------------------------------------------
\* The type of every variable.
TypeOK ==
    /\ c \in Block /\ o \in 0..N
    /\ v \subseteq Block /\ blks \subseteq Block
    /\ useCount \in [Block -> Nat]
    /\ v0 \subseteq Id /\ vc \subseteq Id
    /\ holders \in [Id -> Nat]

\* A coroutine structure has one holder: pop() never returns one that is in use.
PopIsFresh == \A id \in Id : holders[id] <= 1

\* What a coroutine in use, or in a free list, is in is memory that is
\* allocated; the use count that decides when a block is freed is the number
\* of its coroutines in use; and the free lists of block 0 and of the current
\* block miss nothing and hold nothing in use: every slot below the high-water
\* mark is in one or the other.
ListsExact ==
    /\ \A id \in Live \cup v0 \cup vc : id[1] \in v
    /\ \A b \in Block : useCount[b] = Cardinality({id \in Live : id[1] = b})
    /\ (v0 \cup vc) \cap Live = {}
    /\ \A id \in v0 : id[1] = 0
    /\ \A id \in vc : id[1] = c /\ c # 0
    /\ \A i \in 0..N - 1 :
          /\ <<0, i>> \in v0 \cup Live <=> c # 0 \/ i < o
          /\ c # 0 => (<<c, i>> \in vc \cup Live <=> i < o)
    /\ c \notin blks
=============================================================================
