------------------------------- MODULE CList -------------------------------
(***************************************************************************)
(* coost::clist (containers/clist.h): an intrusive list of nodes with      *)
(* links in both directions.  The next of the last node is null, and the   *)
(* prev of the first is the last node, so that back() needs no other       *)
(* field.  The list of waiters of an event or a channel, the free lists of *)
(* the allocators and the blocks of a mutex queue are clists.              *)
(***************************************************************************)
EXTENDS Naturals, Sequences, FiniteSets

CONSTANTS
    Node,
    Null     \* not a node

VARIABLES
    head,         \* _head
    next, prev,   \* the links of every node; a node not in the list keeps old ones
    list          \* history: the list as a sequence

vars == <<head, next, prev, list>>

Init ==
    /\ head = Null /\ list = <<>>
    /\ next = [n \in Node |-> Null] /\ prev = [n \in Node |-> Null]

In(n) == \E i \in 1..Len(list) : list[i] = n
Without(n) == SelectSeq(list, LAMBDA x : x # n)

PushFront(n) ==
    /\ ~In(n)
    /\ list' = <<n>> \o list
    /\ head' = n
    /\ next' = [next EXCEPT ![n] = head]
    /\ prev' = IF head = Null THEN [prev EXCEPT ![n] = n]
               ELSE [prev EXCEPT ![n] = prev[head], ![head] = n]

PushBack(n) ==
    /\ ~In(n)
    /\ list' = Append(list, n)
    /\ IF head = Null
       THEN head' = n /\ next' = [next EXCEPT ![n] = Null] /\ prev' = [prev EXCEPT ![n] = n]
       ELSE /\ next' = [next EXCEPT ![n] = Null, ![prev[head]] = n]
            /\ prev' = [prev EXCEPT ![n] = prev[head], ![head] = n]
            /\ UNCHANGED head

\* The first node leaves; the second inherits the link to the last.
PopHead ==
    /\ head' = next[head]
    /\ prev' = IF next[head] = Null THEN prev ELSE [prev EXCEPT ![next[head]] = prev[head]]

PopFront ==
    /\ head # Null
    /\ list' = Tail(list)
    /\ PopHead
    /\ UNCHANGED next

\* erase() of a node of the list.
Erase(n) ==
    /\ In(n)
    /\ list' = Without(n)
    /\ IF n = head
       THEN PopHead /\ UNCHANGED next
       ELSE /\ next' = [next EXCEPT ![prev[n]] = next[n]]
            /\ prev' = [prev EXCEPT ![IF next[n] # Null THEN next[n] ELSE head] = prev[n]]
            /\ UNCHANGED head

\* pop_back() erases what back() returns.
PopBack == head # Null /\ Erase(prev[head])

\* A bug: the node that follows n is not linked to the one before n.
MoveFrontHalf(n) ==
    /\ In(n)
    /\ list' = <<n>> \o Without(n)
    /\ IF n = head THEN UNCHANGED <<head, next, prev>>
       ELSE /\ next' = [next EXCEPT ![prev[n]] = next[n], ![n] = head]
            /\ prev' = IF next[n] = Null THEN prev
                       ELSE [prev EXCEPT ![n] = prev[head], ![head] = n]
            /\ head' = n

MoveFront(n) ==
    /\ In(n)
    /\ list' = <<n>> \o Without(n)
    /\ IF n = head THEN UNCHANGED <<head, next, prev>>
       ELSE /\ next' = [next EXCEPT ![prev[n]] = next[n], ![n] = head]
            /\ prev' = IF next[n] = Null THEN prev
                       ELSE [prev EXCEPT ![next[n]] = prev[n], ![n] = prev[head], ![head] = n]
            /\ head' = n

MoveBack(n) ==
    /\ In(n)
    /\ list' = Append(Without(n), n)
    /\ IF n = prev[head] THEN UNCHANGED <<head, next, prev>>
       ELSE IF n = head
       THEN /\ head' = next[n]
            /\ next' = [next EXCEPT ![prev[n]] = n, ![n] = Null]
            /\ UNCHANGED prev
       ELSE /\ next' = [next EXCEPT ![prev[n]] = next[n], ![n] = Null, ![prev[head]] = n]
            /\ prev' = [prev EXCEPT ![next[n]] = prev[n], ![n] = prev[head], ![head] = n]
            /\ UNCHANGED head

\* clear() forgets the nodes, which keep their links.
Clear == head # Null /\ head' = Null /\ list' = <<>> /\ UNCHANGED <<next, prev>>

Next ==
    \/ \E n \in Node : PushFront(n) \/ PushBack(n) \/ Erase(n) \/ MoveFront(n) \/ MoveBack(n)
    \/ PopFront \/ PopBack \/ Clear

Spec == Init /\ [][Next]_vars

-----------------------------------------------------------------------------
\* After any sequence of operations the links in both directions spell the
\* list: front() and back() are its ends, and no node is lost or met twice.
LinksSpellList ==
    LET n == Len(list) IN
    /\ head = IF n = 0 THEN Null ELSE list[1]
    /\ \A i \in 1..n : /\ next[list[i]] = (IF i < n THEN list[i + 1] ELSE Null)
                       /\ prev[list[i]] = list[IF i > 1 THEN i - 1 ELSE n]
=============================================================================
