-------------------------------- MODULE Pool --------------------------------
(***************************************************************************)
(* co::pool (pool_impl in co/src/co.cc): one vector of elements per        *)
(* scheduler, used by the coroutines of that scheduler without a lock.     *)
(* clear() starts a coroutine on every scheduler, which destroys the       *)
(* elements in its vector, and waits for all of them.                      *)
(*                                                                         *)
(* A coroutine runs until it suspends, so pop(), push() and the coroutine  *)
(* of clear() are one action each - unless the destroy callback suspends,  *)
(* as one that closes a connection may: then the coroutines of the same    *)
(* scheduler run between two elements.  The loop of clear() keeps the      *)
(* addresses of the vector's begin and end, which stay what they were.     *)
(***************************************************************************)
EXTENDS Naturals, Sequences, FiniteSets

CONSTANTS
    Sch,         \* schedulers
    Elem,        \* elements the create callback can make
    MaxCap       \* _maxcap

VARIABLES
    yields,   \* bound: the scheduler where the destroy callback suspends, if it does
    vec,      \* the vector of each scheduler
    room,     \* its capacity
    held,     \* the elements the coroutines of a scheduler use
    dead,     \* the elements that were given to the destroy callback
    task,     \* the coroutine of clear(): "none", "posted", "running"
    walk,     \* what is in the memory its loop still has to read
    pos,      \* where the loop is
    wg,       \* the wait group of clear()
    clearing, \* somebody is inside clear()
    stale     \* history: what was in the pools when clear() was called and was
              \* not taken out since

vecVars == <<vec, room, walk>>
clearVars == <<task, pos, wg, clearing>>
vars == <<yields, vecVars, held, dead, clearVars, stale>>

Init ==
    /\ yields \in {{}, {CHOOSE s \in Sch : TRUE}}
    /\ vec = [s \in Sch |-> <<>>] /\ room = [s \in Sch |-> 0]
    /\ held = [s \in Sch |-> {}] /\ dead = {}
    /\ task = [s \in Sch |-> "none"]
    /\ walk = [s \in Sch |-> <<>>] /\ pos = [s \in Sch |-> 1]
    /\ wg = 0 /\ clearing = FALSE /\ stale = {}

In(s) == {vec[s][i] : i \in 1..Len(vec[s])}
Pooled == UNION {In(s) : s \in Sch}
Held == UNION {held[s] : s \in Sch}
Fresh == Elem \ (Pooled \cup Held \cup dead)
Last(s) == vec[s][Len(vec[s])]

\* pop() of a vector that is not empty, or of an empty one: the create
\* callback makes an element (any of them: they are alike until then).
Pop(s) ==
    /\ \/ /\ vec[s] # <<>>
          /\ held' = [held EXCEPT ![s] = @ \cup {Last(s)}]
          /\ stale' = stale \ {Last(s)}
          /\ vec' = [vec EXCEPT ![s] = SubSeq(@, 1, Len(@) - 1)]
       \/ /\ vec[s] = <<>>
          /\ Fresh # {}
          /\ held' = [held EXCEPT ![s] = @ \cup {CHOOSE e \in Fresh : TRUE}]
          /\ UNCHANGED <<vec, stale>>
    /\ UNCHANGED <<yields, room, walk, dead, clearVars>>

Gone == "gone"

\* push_back: the memory a loop of clear() still reads changes with the
\* vector, unless the vector has to grow: then that memory is gone.
Put(s, e) ==
    LET n == Len(vec[s]) IN
    /\ vec' = [vec EXCEPT ![s] = Append(@, e)]
    /\ IF n = room[s]
       THEN /\ room' = [room EXCEPT ![s] = @ + @ \div 2 + 1]
            /\ walk' = [walk EXCEPT ![s] = [i \in 1..Len(@) |-> Gone]]
       ELSE /\ walk' = [walk EXCEPT ![s] =
                    [i \in 1..Len(@) |-> IF i = n + 1 /\ @[i] # Gone THEN e ELSE @[i]]]
            /\ UNCHANGED room

\* A bug: an element that does not fit is destroyed and kept.
PushKeepsDestroyed(s) ==
    /\ \E e \in held[s] :
          /\ held' = [held EXCEPT ![s] = @ \ {e}]
          /\ dead' = IF Len(vec[s]) < MaxCap THEN dead ELSE dead \cup {e}
          /\ Put(s, e)
    /\ UNCHANGED <<yields, clearVars, stale>>

\* push(), by a coroutine of the scheduler whose pool the element came from.
Push(s) ==
    /\ \E e \in held[s] :
          /\ held' = [held EXCEPT ![s] = @ \ {e}]
          /\ \/ Len(vec[s]) < MaxCap /\ Put(s, e) /\ UNCHANGED dead
             \/ Len(vec[s]) >= MaxCap /\ dead' = dead \cup {e} /\ UNCHANGED vecVars
    /\ UNCHANGED <<yields, clearVars, stale>>

\* clear(), up to wg.wait().
Clear ==
    /\ ~clearing
    /\ clearing' = TRUE /\ stale' = Pooled
    /\ wg' = Cardinality(Sch)
    /\ task' = [s \in Sch |-> "posted"]
    /\ UNCHANGED <<yields, vecVars, held, dead, pos>>

\* v.clear() and wg.done(); the capacity stays.
Finish(s) ==
    /\ vec' = [vec EXCEPT ![s] = <<>>]
    /\ walk' = [walk EXCEPT ![s] = <<>>] /\ pos' = [pos EXCEPT ![s] = 1]
    /\ wg' = wg - 1
    /\ task' = [task EXCEPT ![s] = "none"]
    /\ UNCHANGED <<yields, room, held, clearing, stale>>

\* The coroutine of clear() on s, if the destroy callback does not suspend.
ClearAtOnce(s) ==
    /\ task[s] = "posted" /\ s \notin yields
    /\ dead' = dead \cup In(s)
    /\ Finish(s)

\* If it does: the start of the loop, each call, and the end.
ClearBegins(s) ==
    /\ task[s] = "posted" /\ s \in yields
    /\ task' = [task EXCEPT ![s] = "running"]
    /\ walk' = [walk EXCEPT ![s] = vec[s]]
    /\ UNCHANGED <<yields, vec, room, held, dead, pos, wg, clearing, stale>>

\* Memory that is gone may still hold an element there was, or none.
ClearNext(s) ==
    /\ task[s] = "running" /\ pos[s] <= Len(walk[s])
    /\ LET e == walk[s][pos[s]] IN
       IF e # Gone THEN dead' = dead \cup {e}
       ELSE \E x \in SUBSET (Elem \ Fresh) : Cardinality(x) <= 1 /\ dead' = dead \cup x
    /\ pos' = [pos EXCEPT ![s] = @ + 1]
    /\ UNCHANGED <<yields, vecVars, held, task, wg, clearing, stale>>

ClearEnds(s) ==
    /\ task[s] = "running" /\ pos[s] > Len(walk[s])
    /\ Finish(s)
    /\ UNCHANGED dead

\* wg.wait() returns.
ClearReturns ==
    /\ clearing /\ wg = 0
    /\ clearing' = FALSE
    /\ UNCHANGED <<yields, vecVars, held, dead, task, pos, wg, stale>>

ClearStep(s) == ClearAtOnce(s) \/ ClearBegins(s) \/ ClearNext(s) \/ ClearEnds(s)

Next == Clear \/ ClearReturns \/ \E s \in Sch : Pop(s) \/ Push(s) \/ ClearStep(s)

Spec == Init /\ [][Next]_vars

-----------------------------------------------------------------------------
\* "designed to be coroutine-safe, users do not need to lock it": an element
\* is in one pool, once, or with one coroutine; no pool grows beyond its
\* capacity; and no coroutine has, or will get, an element that was destroyed,
\* unless the destroy callback suspends (clear() empties the vector only when
\* its loop has ended).
ElementsAccounted ==
    /\ \A s, r \in Sch : s # r => (In(s) \cup held[s]) \cap (In(r) \cup held[r]) = {}
    /\ \A s \in Sch : Cardinality(In(s)) = Len(vec[s]) /\ In(s) \cap held[s] = {}
    /\ \A s \in Sch : Len(vec[s]) <= MaxCap
    /\ yields = {} => (Pooled \cup Held) \cap dead = {}

\* When clear() has returned, every element that was in a pool when it was
\* called has been destroyed, or a coroutine took it out in the meantime -
\* unless the destroy callback suspends and the vector grows under the loop.
ClearIsComplete == ~clearing /\ yields = {} => stale \subseteq dead
=============================================================================
