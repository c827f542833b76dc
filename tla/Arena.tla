------------------------------- MODULE Arena -------------------------------
(***************************************************************************)
(* What an allocator promises of a piece of memory: the objects it has     *)
(* handed out lie within the memory, where they were asked to be aligned,  *)
(* and no two of them overlap.                                             *)
(***************************************************************************)
EXTENDS Naturals

CONSTANTS
    Unit,    \* the units of memory
    Base,    \* the address of the first, in units
    Size,    \* the sizes objects can have
    Align    \* the alignments that are asked for

VARIABLE obj   \* the objects: from the first unit of each to its size and alignment

Cells(i, n) == i..(i + n - 1)
Taken(o) == UNION {Cells(i, o[i].n) : i \in DOMAIN o}

Fits(o, i, n) == Cells(i, n) \subseteq Unit \ Taken(o)

Init == obj = [i \in {} |-> [n |-> 1, a |-> 1]]

Put(o, i, n, a) ==
    obj' = [j \in DOMAIN o \cup {i} |-> IF j = i THEN [n |-> n, a |-> a] ELSE o[j]]

Without(S) == [j \in DOMAIN obj \ S |-> obj[j]]

Alloc(i, n, a) ==
    /\ (Base + i) % a = 0
    /\ Fits(obj, i, n)
    /\ Put(obj, i, n, a)

Free(i) == i \in DOMAIN obj /\ obj' = Without({i})

\* An object grows where it is.
Grow(i, n) ==
    /\ i \in DOMAIN obj
    /\ Fits(Without({i}), i, n)
    /\ Put(obj, i, n, obj[i].a)

Next ==
    \E i \in Unit :
        \/ Free(i)
        \/ \E n \in Size : Grow(i, n) \/ \E a \in Align : Alloc(i, n, a)

Spec == Init /\ [][Next]_obj
=============================================================================
