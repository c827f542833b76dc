---------------------------- MODULE QueueLemmas ----------------------------
(***************************************************************************)
(* Lemmas about the queues of the components: how often an element is in   *)
(* one, and two that stand for one behind the other.  The proofs use them  *)
(* to show that a task, or a waiter, is queued exactly once and in order.  *)
(***************************************************************************)
EXTENDS Integers, Sequences, FiniteSets, FiniteSetTheorems, SequenceTheorems, WellFoundedInduction, TLAPS

\* Where x is in s, and how often.
Places(s, x) == {i \in 1..Len(s) : s[i] = x}
Times(s, x) == Cardinality(Places(s, x))

\* The number is a natural number, and zero exactly when x is not in s.
LEMMA TimesType ==
    ASSUME NEW S, NEW s \in Seq(S), NEW x
    PROVE  /\ IsFiniteSet(Places(s, x))
           /\ Times(s, x) \in Nat
           /\ Times(s, x) = 0 <=> \A i \in 1..Len(s) : s[i] # x
<1>1. IsFiniteSet(1..Len(s)) /\ Places(s, x) \in SUBSET (1..Len(s))
  BY FS_Interval DEF Places
<1>2. IsFiniteSet(Places(s, x))
  BY <1>1, FS_Subset
<1>3. Times(s, x) \in Nat
  BY <1>2, FS_CardinalityType DEF Times
<1>4. Times(s, x) = 0 <=> Places(s, x) = {}
  BY <1>2, FS_EmptySet DEF Times
<1> QED
  BY <1>2, <1>3, <1>4 DEF Places

LEMMA TimesEmpty == ASSUME NEW x PROVE Times(<<>>, x) = 0
<1>1. Places(<<>>, x) = {}
  BY DEF Places
<1> QED
  BY <1>1, FS_EmptySet DEF Times

\* One more at the end.
LEMMA TimesAppend ==
    ASSUME NEW S, NEW s \in Seq(S), NEW y \in S, NEW x
    PROVE  Times(Append(s, y), x) = Times(s, x) + (IF y = x THEN 1 ELSE 0)
<1> DEFINE n == Len(s) + 1
<1>1. n \notin Places(s, x)
  BY DEF Places
<1>2. Places(Append(s, y), x) = IF y = x THEN Places(s, x) \cup {n} ELSE Places(s, x)
  BY DEF Places
<1>3. IsFiniteSet(Places(s, x)) /\ Times(s, x) \in Nat
  BY TimesType
<1>4. Cardinality(Places(s, x) \cup {n}) = Cardinality(Places(s, x)) + 1
  BY <1>1, <1>3, FS_AddElement
<1> QED
  BY <1>2, <1>3, <1>4 DEF Times

\* One less at the front: the places of the tail are those of s, shifted.
LEMMA TimesTail ==
    ASSUME NEW S, NEW s \in Seq(S), s # <<>>, NEW x
    PROVE  Times(s, x) = Times(Tail(s), x) + (IF Head(s) = x THEN 1 ELSE 0)
<1> DEFINE later == Places(s, x) \ {1}
<1>1. Tail(s) \in Seq(S) /\ Len(Tail(s)) = Len(s) - 1 /\ Len(s) \in Nat \ {0}
  OBVIOUS
<1>2. \A i \in 1..Len(Tail(s)) : Tail(s)[i] = s[i + 1]
  OBVIOUS
<1>3. IsFiniteSet(Places(Tail(s), x)) /\ Times(Tail(s), x) \in Nat
  BY <1>1, TimesType
<1>4. Cardinality(later) = Times(Tail(s), x) /\ IsFiniteSet(later)
  <2> DEFINE shift == [i \in Places(Tail(s), x) |-> i + 1]
  <2>1. shift \in [Places(Tail(s), x) -> later]
    BY <1>1, <1>2 DEF Places
  <2>2. \A i, j \in Places(Tail(s), x) : shift[i] = shift[j] => i = j
    BY <1>1 DEF Places
  <2>3. \A k \in later : \E i \in Places(Tail(s), x) : shift[i] = k
    <3> TAKE k \in later
    <3>1. k \in Nat /\ k - 1 \in Places(Tail(s), x)
      BY <1>1, <1>2 DEF Places
    <3>2. shift[k - 1] = (k - 1) + 1
      BY <3>1
    <3> QED
      BY <3>1, <3>2
  <2>4. shift \in Bijection(Places(Tail(s), x), later)
    <3> HIDE DEF shift, later
    <3> QED
      BY <2>1, <2>2, <2>3 DEF Bijection, Injection, Surjection, IsInjective
  <2> QED
    BY <1>3, <2>4, FS_Bijection DEF ExistsBijection, Times
<1>5. Places(s, x) = IF Head(s) = x THEN later \cup {1} ELSE later
  BY <1>1 DEF Places
<1>6. 1 \notin later /\ Cardinality(later \cup {1}) = Cardinality(later) + 1
  BY <1>4, FS_AddElement
<1> HIDE DEF later
<1> QED
  BY <1>3, <1>4, <1>5, <1>6 DEF Times

\* Those a function maps to x, and how many they are when it changes at one place.
Sources(f, D, x) == {e \in D : f[e] = x}

LEMMA CountMoves ==
    ASSUME NEW D, IsFiniteSet(D), NEW f, NEW g, NEW d \in D, NEW x,
           \A e \in D \ {d} : g[e] = f[e]
    PROVE  /\ Cardinality(Sources(f, D, x)) \in Nat
           /\ Cardinality(Sources(g, D, x)) \in Nat
           /\ Cardinality(Sources(g, D, x)) + (IF f[d] = x THEN 1 ELSE 0)
              = Cardinality(Sources(f, D, x)) + (IF g[d] = x THEN 1 ELSE 0)
<1> DEFINE F == Sources(f, D, x)
           G == Sources(g, D, x)
           R == F \ {d}
<1>1. IsFiniteSet(R)
  <2>1. R \in SUBSET D
    BY DEF Sources
  <2> QED
    BY <2>1, FS_Subset
<1>2. d \notin R /\ Cardinality(R) \in Nat /\ Cardinality(R \cup {d}) = Cardinality(R) + 1
  BY <1>1, FS_AddElement, FS_CardinalityType
<1>3. F = IF f[d] = x THEN R \cup {d} ELSE R
  BY DEF Sources
<1>4. G = IF g[d] = x THEN R \cup {d} ELSE R
  BY DEF Sources
<1> HIDE DEF F, G, R
<1>5. /\ Cardinality(F) \in Nat /\ Cardinality(G) \in Nat
      /\ Cardinality(G) + (IF f[d] = x THEN 1 ELSE 0) = Cardinality(F) + (IF g[d] = x THEN 1 ELSE 0)
  BY <1>2, <1>3, <1>4
<1> QED
  BY <1>5 DEF F, G

\* Two queues, one behind the other: what is put goes to the end of the
\* second, and what is taken comes from the front of the first.
LEMMA ConcatAppend ==
    ASSUME NEW S, NEW s \in Seq(S), NEW t \in Seq(S), NEW e \in S
    PROVE  s \o Append(t, e) = Append(s \o t, e)
<1>1. <<e>> \in Seq(S)
  OBVIOUS
<1>2. s \o (t \o <<e>>) = (s \o t) \o <<e>>
  BY <1>1, ConcatAssociative
<1>3. s \o t \in Seq(S)
  BY ConcatProperties
<1> QED
  BY <1>2, <1>3, AppendIsConcat

LEMMA ConcatTail ==
    ASSUME NEW S, NEW s \in Seq(S), NEW t \in Seq(S), s # <<>>
    PROVE  s \o t # <<>> /\ Tail(s) \o t = Tail(s \o t)
<1> DEFINE u == s \o t
<1>1. /\ u \in Seq(S) /\ Len(u) = Len(s) + Len(t)
      /\ \A i \in 1..Len(s) + Len(t) : u[i] = IF i <= Len(s) THEN s[i] ELSE t[i - Len(s)]
  BY ConcatProperties
<1>2. Len(s) \in Nat \ {0} /\ Len(t) \in Nat
  BY EmptySeq, LenProperties
<1>3. u # <<>>
  BY <1>1, <1>2, EmptySeq
<1>4. /\ Tail(s) \in Seq(S) /\ Len(Tail(s)) = Len(s) - 1
      /\ \A i \in 1..Len(Tail(s)) : Tail(s)[i] = s[i + 1]
  BY HeadTailProperties
<1> HIDE DEF u
<1>5. /\ Tail(u) \in Seq(S) /\ Len(Tail(u)) = Len(u) - 1
      /\ \A i \in 1..Len(Tail(u)) : Tail(u)[i] = u[i + 1]
  BY <1>1, <1>3, HeadTailProperties
<1> DEFINE v == Tail(s) \o t
<1>6. /\ v \in Seq(S) /\ Len(v) = Len(s) - 1 + Len(t)
      /\ \A i \in 1..Len(s) - 1 + Len(t) : v[i] = IF i <= Len(s) - 1 THEN Tail(s)[i] ELSE t[i - (Len(s) - 1)]
  BY <1>4, ConcatProperties
<1> HIDE DEF v
<1>7. Len(v) = Len(Tail(u)) /\ \A i \in 1..Len(v) : v[i] = Tail(u)[i]
  BY <1>1, <1>2, <1>4, <1>5, <1>6
<1>8. v = Tail(u)
  BY <1>5, <1>6, <1>7, SeqEqual
<1> QED
  BY <1>3, <1>8 DEF u, v

LEMMA ConcatShift ==
    ASSUME NEW S, NEW s \in Seq(S), NEW t \in Seq(S), t # <<>>
    PROVE  Append(s, Head(t)) \o Tail(t) = s \o t
<1>1. Head(t) \in S /\ Tail(t) \in Seq(S) /\ t = <<Head(t)>> \o Tail(t) /\ <<Head(t)>> \in Seq(S)
  BY HeadTailProperties
<1>2. Append(s, Head(t)) = s \o <<Head(t)>>
  BY <1>1, AppendIsConcat
<1>3. (s \o <<Head(t)>>) \o Tail(t) = s \o (<<Head(t)>> \o Tail(t))
  BY <1>1, ConcatAssociative
<1> QED
  BY <1>1, <1>2, <1>3

\* A list that holds each of its elements once.
Distinct(l) == \A i, j \in 1..Len(l) : l[i] = l[j] => i = j
Has(l, x) == \E i \in 1..Len(l) : l[i] = x

LEMMA HasAppend ==
    ASSUME NEW S, NEW l \in Seq(S), NEW y \in S
    PROVE  /\ Append(l, y) \in Seq(S)
           /\ \A x : Has(Append(l, y), x) <=> Has(l, x) \/ x = y
           /\ Distinct(l) /\ ~Has(l, y) => Distinct(Append(l, y))
BY DEF Has, Distinct

\* What is left of a list when its first n are dropped.
LEMMA HasDrop ==
    ASSUME NEW S, NEW l \in Seq(S), NEW n \in 0..Len(l), Distinct(l)
    PROVE  LET d == SubSeq(l, n + 1, Len(l)) IN
           /\ d \in Seq(S) /\ Distinct(d)
           /\ \A x : Has(d, x) <=> Has(l, x) /\ ~ \E i \in 1..n : l[i] = x
<1> DEFINE d == SubSeq(l, n + 1, Len(l))
<1>1. /\ d \in Seq(S) /\ Len(d) = Len(l) - n /\ Len(l) \in Nat
      /\ \A i \in 1..Len(l) - n : d[i] = l[n + i]
  BY SubSeqProperties
<1> HIDE DEF d
<1>2. Distinct(d)
  BY <1>1 DEF Distinct
<1>3. ASSUME NEW x, Has(d, x) PROVE Has(l, x) /\ ~ \E i \in 1..n : l[i] = x
  <2>1. PICK i \in 1..Len(l) - n : d[i] = x
    BY <1>1, <1>3 DEF Has
  <2>2. n + i \in 1..Len(l) /\ l[n + i] = x
    BY <1>1, <2>1
  <2> QED
    BY <2>1, <2>2 DEF Has, Distinct
<1>4. ASSUME NEW x, Has(l, x), ~ \E i \in 1..n : l[i] = x PROVE Has(d, x)
  <2>1. PICK k \in 1..Len(l) : l[k] = x
    BY <1>4 DEF Has
  <2>2. k - n \in 1..Len(l) - n /\ n + (k - n) = k
    BY <1>4, <2>1
  <2> QED
    BY <1>1, <2>1, <2>2 DEF Has
<1> QED
  BY <1>1, <1>2, <1>3, <1>4 DEF d

LEMMA Least ==
    ASSUME NEW n \in Nat, NEW S \in SUBSET (1..n), S # {}
    PROVE  \E i \in S : \A j \in S : i <= j
<1>1. S \subseteq Nat
  OBVIOUS
<1>2. \E i \in S : \A j \in S : ~(<<j, i>> \in OpToRel(<, Nat))
  BY <1>1, NatLessThanWellFounded, WFMin
<1>3. \A i, j \in Nat : j < i => <<j, i>> \in OpToRel(<, Nat)
  BY DEF OpToRel
<1>4. PICK i \in S : \A j \in S : ~(<<j, i>> \in OpToRel(<, Nat))
  BY <1>2
<1>5. \A j \in S : i <= j
  <2> TAKE j \in S
  <2>1. i \in Nat /\ j \in Nat /\ ~(j < i)
    BY <1>1, <1>3, <1>4
  <2> QED
    BY <2>1
<1> QED
  BY <1>5
=============================================================================
