------------------------------- MODULE LruMap -------------------------------
(***************************************************************************)
(* lru_map (containers/lru_map.h): a map of bounded size that drops what   *)
(* was not used for the longest time.  It keeps three structures in step:  *)
(* the values by key (_kv), the keys in order of use (_kl), and where each *)
(* key is in that list (_ki).                                              *)
(***************************************************************************)
EXTENDS Naturals, SequencesExt

CONSTANTS
    Key, Val,
    Node,        \* the list's nodes: what _ki points to
    Capacity,    \* _capacity
    MovedFrom,   \* what is left of a key that was moved from
    LruLiberties \* what programs may do that the map does not stand:
                 \* "moved_key", to insert a key that may be moved from;
                 \* "known_key", to insert one it has when it is full

VARIABLES
    kv, ki, kl,  \* _kv, _ki, _kl
    key,         \* the key in each node
    entries      \* history: what the map should have, the last used first

lruVars == <<kv, ki, kl, key, entries>>

LruInit ==
    /\ kv = <<>> /\ ki = <<>> /\ kl = <<>>
    /\ key = [n \in Node |-> MovedFrom]
    /\ entries = <<>>

\* unordered_map::erase, which need not find the key.
Without(f, k) == [j \in DOMAIN f \ {k} |-> f[j]]
With(f, k, v) == [j \in DOMAIN f \cup {k} |-> IF j = k THEN v ELSE f[j]]

Unlisted(n) == SelectSeq(kl, LAMBDA m : m # n)
Others(k) == SelectSeq(entries, LAMBDA e : e[1] # k)
Known(k) == \E i \in DOMAIN entries : entries[i][1] = k

\* find: the node of the key moves to the front, and stays the same node.
Find(k) ==
    /\ kl' = IF k \in DOMAIN kv /\ key[kl[1]] # k THEN <<ki[k]>> \o Unlisted(ki[k]) ELSE kl
    /\ entries' = SelectSeq(entries, LAMBDA e : e[1] = k) \o Others(k)
    /\ UNCHANGED <<kv, ki, key>>

\* A bug: a map that is full forgets the value and not where the key was.
EvictKeepsIndex(m) ==
    IF Cardinality(DOMAIN m.kv) < Capacity THEN m
    ELSE [m EXCEPT !.kv = Without(@, key[Last(m.kl)]), !.kl = Front(@)]

\* When it is full, the key used last goes.
Evict(m) ==
    IF Cardinality(DOMAIN m.kv) < Capacity THEN m
    ELSE LET k == key[Last(m.kl)]
         IN  [kv |-> Without(m.kv, k), ki |-> Without(m.ki, k), kl |-> Front(m.kl)]

\* insert: the key is listed after it was forwarded to the map, which leaves
\* nothing of it when it is an rvalue.
Insert(k, v, rvalue) ==
    LET m == Evict([kv |-> kv, ki |-> ki, kl |-> kl])
        n == CHOOSE x \in Node : x \notin Range(m.kl)
        left == IF rvalue THEN MovedFrom ELSE k
    IN  /\ rvalue => "moved_key" \in LruLiberties
        /\ Known(k) /\ Len(entries) = Capacity => "known_key" \in LruLiberties
        /\ IF k \in DOMAIN m.kv
           THEN kv' = m.kv /\ ki' = m.ki /\ kl' = m.kl /\ UNCHANGED key
           ELSE /\ kv' = With(m.kv, k, v)
                /\ kl' = <<n>> \o m.kl
                /\ key' = [key EXCEPT ![n] = left]
                /\ ki' = With(m.ki, left, n)
        /\ entries' = IF Known(k) THEN entries
                      ELSE SubSeq(<<<<k, v>>>> \o entries, 1,
                                  IF Len(entries) < Capacity THEN Len(entries) + 1 ELSE Capacity)

\* erase(key) and, when the key is found, erase(iterator).
EraseKey(k) ==
    /\ IF k \in DOMAIN kv
       THEN kl' = Unlisted(ki[k]) /\ ki' = Without(ki, k) /\ kv' = Without(kv, k)
       ELSE UNCHANGED <<kl, ki, kv>>
    /\ entries' = Others(k)
    /\ UNCHANGED key

Clear ==
    /\ kv' = <<>> /\ ki' = <<>> /\ kl' = <<>> /\ entries' = <<>>
    /\ UNCHANGED key

LruNext ==
    \/ Clear
    \/ \E k \in Key :
          \/ Find(k) \/ EraseKey(k)
          \/ \E v \in Val, rvalue \in BOOLEAN : Insert(k, v, rvalue)

-----------------------------------------------------------------------------
\* The map has the entries used last, Capacity of them at most, and its three
\* structures agree: the values, the order of use, and the nodes of the keys.
LruExact ==
    /\ kv = [k \in {e[1] : e \in Range(entries)} |->
                (CHOOSE e \in Range(entries) : e[1] = k)[2]]
    /\ [i \in DOMAIN kl |-> key[kl[i]]] = [i \in DOMAIN entries |-> entries[i][1]]
    /\ ki = [k \in DOMAIN kv |-> CHOOSE n \in Range(kl) : key[n] = k]
    /\ Len(entries) <= Capacity
=============================================================================
