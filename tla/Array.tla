------------------------------- MODULE Array -------------------------------
(***************************************************************************)
(* array (containers/array.h): objects in one block of memory, which is    *)
(* moved to a larger one when it is full.  An object is constructed in a   *)
(* cell that is raw and destroyed once; whatever is read or destroyed is   *)
(* an object.                                                              *)
(***************************************************************************)
EXTENDS Naturals, SequencesExt

CONSTANTS
    Value, Default,  \* values of the objects, and the one of T()
    Raw, Broken,    \* a cell with no object; one destroyed or constructed twice
    OwnElement,     \* a program may append an element of a full array to it
    MaxArray        \* bound: capacity

VARIABLES
    cells,   \* _p: _cap cells
    size,    \* _size
    content  \* history: what the array should hold

arrayVars == <<cells, size, content>>

ArrayInit == cells = <<>> /\ size = 0 /\ content = <<>>

Slots == Len(cells)
RawCells(n) == [i \in 1..n |-> Raw]

\* Alloc::realloc, which copies the bytes: where to is not smaller.
Realloc(n) == cells \o RawCells(n - Slots)
Reserved(n) == IF Slots < n THEN Realloc(n) ELSE cells

\* Objects of the values s made in the cells from i on.
Construct(p, i, s) ==
    [j \in DOMAIN p |-> IF j \notin i..i + Len(s) - 1 THEN p[j]
                        ELSE IF p[j] = Raw THEN s[j - i + 1] ELSE Broken]

\* _destruct_range: the objects in the cells first to last end.
Destruct(p, first, last) ==
    [j \in DOMAIN p |-> IF j \notin first..last THEN p[j]
                        ELSE IF p[j] = Raw THEN Broken ELSE Raw]

\* The memory for n more, of which there are s.
Put(p, s) ==
    /\ Len(p) <= MaxArray
    /\ cells' = Construct(p, size + 1, s)
    /\ size' = size + Len(s)
    /\ content' = content \o s

\* append(x), push_back: a full array grows by half its size.
Grown == IF Slots = size THEN Realloc(Slots + Slots \div 2 + 1) ELSE cells
AppendOne(v) == Put(Grown, <<v>>)

\* ... with a reference to one of its own elements: it is not valid once the
\* memory has moved.
AppendOwn(i) ==
    /\ i <= size
    /\ Slots = size => OwnElement
    /\ \E v \in Value : (Slots # size => v = cells[i]) /\ cells' = Construct(Grown, size + 1, <<v>>)
    /\ Slots <= MaxArray /\ size < MaxArray
    /\ size' = size + 1
    /\ content' = content \o <<content[i]>>

\* append(n, x), append(p, n), append(x) of another array, emplace.
AppendMany(s) == Put(Reserved(size + Len(s)), s)

\* append(x) of itself.
AppendSelf == Put(Reserved(2 * size), SubSeq(cells, 1, size))

\* A bug: the elements are looked for where they were.
SafeAppendStale(i, n) ==
    /\ i + n <= size
    /\ LET p == Reserved(size + n)
       IN  /\ Len(p) <= MaxArray
           /\ cells' = Construct(p, size + 1, IF p = cells THEN SubSeq(cells, i + 1, i + n)
                                              ELSE RawCells(n))
           /\ size' = size + n
           /\ content' = content \o SubSeq(content, i + 1, i + n)

\* safe_append: n of its own elements, behind i others.
SafeAppend(i, n) ==
    /\ i + n <= size
    /\ Put(Reserved(size + n), SubSeq(cells, i + 1, i + n))

\* resize: T() makes what is new.
Resize(n) ==
    LET more == [i \in 1..n |-> Default]
        p == Destruct(Reserved(n), n + 1, size)
    IN  /\ n <= MaxArray
        /\ cells' = Construct(p, size + 1, SubSeq(more, size + 1, n))
        /\ size' = n
        /\ content' = [i \in 1..n |-> IF i <= Len(content) THEN content[i] ELSE Default]

Reserve(n) == n <= MaxArray /\ cells' = Reserved(n) /\ UNCHANGED <<size, content>>

\* pop_back, remove_back
PopBack ==
    /\ size > 0
    /\ cells' = Destruct(cells, size, size)
    /\ size' = size - 1
    /\ content' = Front(content)

\* A bug: the last element takes the place of one that was not destroyed.
RemoveOver(i) ==
    /\ i <= size
    /\ cells' = Destruct(Construct(cells, i, <<cells[size]>>), size, size)
    /\ size' = size - 1
    /\ content' = Front([content EXCEPT ![i] = Last(content)])

\* remove(n): the last element takes the place of the nth.
RemoveNth(i) ==
    /\ i <= size
    /\ cells' = IF i = size THEN Destruct(cells, size, size)
                ELSE Destruct(Construct(Destruct(cells, i, i), i, <<cells[size]>>), size, size)
    /\ size' = size - 1
    /\ content' = Front([content EXCEPT ![i] = Last(content)])

ClearArray ==
    /\ cells' = Destruct(cells, 1, size)
    /\ size' = 0 /\ content' = <<>>

\* operator=: reset, and a copy of just its size.
Assign(s) ==
    /\ cells' = Construct(RawCells(Len(s)), 1, s)
    /\ size' = Len(s) /\ content' = s

Given == UNION {[1..n -> Value] : n \in 0..2}

ArrayNext ==
    \/ AppendSelf \/ PopBack \/ ClearArray
    \/ \E v \in Value : AppendOne(v)
    \/ \E s \in Given : AppendMany(s) \/ Assign(s)
    \/ \E i \in 1..MaxArray : AppendOwn(i) \/ RemoveNth(i)
    \/ \E n \in 0..MaxArray : Resize(n) \/ Reserve(n) \/ \E i \in 0..size : SafeAppend(i, n)

-----------------------------------------------------------------------------
\* The array holds what was put into it; no element is constructed over
\* another one, destroyed twice or left behind.
ArrayExact == size <= Slots /\ cells = content \o RawCells(Slots - size)
=============================================================================
