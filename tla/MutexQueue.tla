----------------------------- MODULE MutexQueue -----------------------------
(***************************************************************************)
(* mutex_impl::queue (co/src/co.cc): the wait queue of a mutex is a list   *)
(* of blocks of N entries.  rx and wx are a block's read and write         *)
(* positions; the number of entries in the whole queue is kept in the      *)
(* first block only.  It implements the first-in-first-out mailbox.        *)
(***************************************************************************)
EXTENDS Naturals, Sequences

CONSTANTS
    Item,    \* what is queued: coroutines, and null for a thread
    N,       \* entries per block
    MaxLen   \* bound on the length of the queue

VARIABLE q   \* _q, the blocks; _m is the first of them

Block == [size : Nat, rx : 0..N, wx : 0..N, e : [1..N -> Item]]

\* _make_memb.  The entries are not initialized.
NewBlock(e) == [size |-> 0, rx |-> 0, wx |-> 0, e |-> e]

Init == q = <<>>

Size == IF q = <<>> THEN 0 ELSE q[1].size

\* The queue with room at the back.
Roomy ==
    IF q = <<>> \/ q[Len(q)].wx = N
    THEN {Append(q, NewBlock(e)) : e \in {[i \in 1..N |-> x] : x \in Item}}
    ELSE {q}

PushBack(x) ==
    /\ Size < MaxLen
    /\ \E p \in Roomy :
          LET b == Len(p) IN
          q' = [[p EXCEPT ![b].e[p[b].wx + 1] = x, ![b].wx = @ + 1] EXCEPT ![1].size = @ + 1]

\* A bug: a block is reset as soon as its first entry is read.
PopFrontResets ==
    /\ Size > 0
    /\ q[1].rx < q[1].wx
    /\ LET m == [q[1] EXCEPT !.rx = @ + 1, !.size = @ - 1] IN
       IF Len(q) = 1 THEN q' = [q EXCEPT ![1] = [m EXCEPT !.rx = 0, !.wx = 0]]
       ELSE IF m.rx < m.wx THEN q' = [q EXCEPT ![1] = m]
       ELSE q' = [Tail(q) EXCEPT ![1].size = m.size]

\* pop_front, which unlock() calls on a queue that is not empty: a block that
\* has been read is reused if it is the only one, else freed.
PopFront ==
    /\ Size > 0
    /\ q[1].rx < q[1].wx
    /\ LET m == [q[1] EXCEPT !.rx = @ + 1, !.size = @ - 1] IN
       IF m.rx < m.wx THEN q' = [q EXCEPT ![1] = m]
       ELSE IF Len(q) = 1 THEN q' = [q EXCEPT ![1] = [m EXCEPT !.rx = 0, !.wx = 0]]
       ELSE q' = [Tail(q) EXCEPT ![1].size = m.size]

Next == (\E x \in Item : PushBack(x)) \/ PopFront

Spec == Init /\ [][Next]_q

-----------------------------------------------------------------------------
\* The entries that were pushed and not popped, oldest first: all blocks but the
\* last are full and all but the first unread, so that they lie in a row, from
\* the front block's rx on.
Span == IF q = <<>> THEN 0 ELSE (Len(q) - 1) * N + q[Len(q)].wx - q[1].rx

Contents ==
    [i \in 1..Span |-> LET at == q[1].rx + i - 1 IN q[(at \div N) + 1].e[(at % N) + 1]]

Fifo == INSTANCE Mailbox WITH box <- Contents, closed <- FALSE

\* They do lie in a row, and the front block has their number.
InARow ==
    /\ \A b \in 1..Len(q) : (b # Len(q) => q[b].wx = N) /\ (b # 1 => q[b].rx = 0)
    /\ Size = Span

\* The queue is the mailbox, but for its promise that somebody takes: each step
\* puts one item behind the others or takes the first, and leaves them in a row.
IsMailbox == Fifo!Init /\ [][Fifo!Next /\ InARow']_q
=============================================================================
