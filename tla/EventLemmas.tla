---------------------------- MODULE EventLemmas ----------------------------
(***************************************************************************)
(* The inductive invariant of the event, for any coroutines and threads.   *)
(* It holds as long as no coroutine reuses the waitx of another: a waitx   *)
(* that timed out is reused with the coroutine it had, so the proof asks   *)
(* that no coroutine waits with a timeout, or that only one waits.         *)
(*                                                                         *)
(* The invariant ties three things together: the lists that signal() walks *)
(* (a waitx is in at most one of them, once), the states of the waitx      *)
(* objects (listed exactly while they wait or have timed out), and the     *)
(* coroutines (who waits owns a waitx that names it).                      *)
(***************************************************************************)
EXTENDS WaitGroup, QueueLemmas

EventAssumption ==
    /\ Co \cap Thread = {} /\ NoW \notin W
    /\ TimedCo \subseteq Co
    /\ IsFiniteSet(Thread)

NoReuse == TimedCo = {} \/ \A c, d \in Co : c = d

-----------------------------------------------------------------------------
Apart(l, m) == \A i \in 1..Len(l), j \in 1..Len(m) : l[i] # m[j]

ListsInv ==
    /\ Distinct(wc) /\ \A s \in Signaler : Distinct(rest[s]) /\ Apart(wc, rest[s])
    /\ \A s, r \in Signaler : s # r => Apart(rest[s], rest[r])

\* A waitx: where it is, and whose.
ObjectsInv ==
    \A w \in W :
        /\ Listed(w) <=> wst[w] \in {"wait", "timeout"}
        /\ wst[w] \in {"wait", "ready"} =>
              wco[w] \in Co /\ coWx[wco[w]] = w /\ pc[wco[w]] = "waiting"
        /\ wst[w] = "timeout" => wco[w] \in TimedCo

\* A coroutine: what it has, and what its last wait returned.
CoroutinesInv ==
    \A c \in Co :
        /\ pc[c] \in {"idle", "waiting", "timedout"}
        /\ pc[c] = "idle" => coWx[c] = NoW
        /\ pc[c] = "waiting" =>
              /\ coWx[c] \in W /\ wco[coWx[c]] = c
              /\ \/ wst[coWx[c]] = "wait" /\ ready[c] = 0 /\ ~counted[c]
                 \/ wst[coWx[c]] = "ready" /\ ready[c] = 1 /\ counted[c]
        /\ pc[c] = "timedout" => c \in TimedCo /\ coWx[c] \in W /\ ~counted[c]
        /\ pc[c] # "waiting" => ready[c] = 0
        /\ pc[c] # "idle" => result[c] = "none"

\* The threads that _wt counts: one that expired and was notified after its
\* wait began is not among them.  A thread that wakes for no reason does not
\* take itself out, so _wt may be more.
Counted == {t \in Thread : pc[t] \in {"cv", "expired"} /\ snT[t] = sn}

CountIs == Cardinality(Counted) <= wt /\ (~Spurious => Cardinality(Counted) = wt)

ThreadsInv ==
    /\ \A t \in Thread : pc[t] \in {"idle", "cv", "notified", "expired"} /\ snT[t] <= sn
    /\ \A t \in Thread : pc[t] = "cv" => snT[t] = sn /\ ~counted[t]
    /\ CountIs

EventInv ==
    TypeOK /\ ListsInv /\ ObjectsInv /\ CoroutinesInv /\ ThreadsInv /\ SignaledMeansNoWaiter /\ CoVerdict

-----------------------------------------------------------------------------
\* Lists.
LEMMA InListAppend ==
    ASSUME NEW l \in Seq(W), NEW y \in W
    PROVE  /\ Append(l, y) \in Seq(W)
           /\ \A x : InList(x, Append(l, y)) <=> InList(x, l) \/ x = y
           /\ Distinct(l) /\ ~InList(y, l) => Distinct(Append(l, y))
BY HasAppend DEF InList, Has

\* What is left of a list when its first n are dropped.
LEMMA InListDrop ==
    ASSUME NEW l \in Seq(W), NEW n \in 0..Len(l), Distinct(l)
    PROVE  LET d == SubSeq(l, n + 1, Len(l)) IN
           /\ d \in Seq(W) /\ Distinct(d)
           /\ \A x : InList(x, d) <=> InList(x, l) /\ ~ \E i \in 1..n : l[i] = x
BY HasDrop DEF InList, Has

LEMMA InListTail ==
    ASSUME NEW l \in Seq(W), l # <<>>, Distinct(l)
    PROVE  /\ Tail(l) \in Seq(W) /\ Distinct(Tail(l)) /\ Head(l) \in W /\ InList(Head(l), l)
           /\ \A x : InList(x, Tail(l)) <=> InList(x, l) /\ x # Head(l)
<1>1. /\ Tail(l) \in Seq(W) /\ Len(Tail(l)) = Len(l) - 1 /\ Len(l) \in Nat \ {0}
      /\ \A i \in 1..Len(Tail(l)) : Tail(l)[i] = l[i + 1]
      /\ Head(l) = l[1] /\ Head(l) \in W
  OBVIOUS
<1> DEFINE r == Tail(l)
           h == Head(l)
<1> HIDE DEF r, h
<1>2. /\ r \in Seq(W) /\ Len(r) = Len(l) - 1 /\ Len(l) \in Nat \ {0}
      /\ \A i \in 1..Len(r) : r[i] = l[i + 1]
      /\ h = l[1] /\ h \in W
  BY <1>1 DEF r, h
<1>3. Distinct(r) /\ InList(h, l)
  BY <1>2 DEF Distinct, InList
<1>4. ASSUME NEW x, InList(x, r) PROVE InList(x, l) /\ x # h
  BY <1>2, <1>4 DEF InList, Distinct
<1>5. ASSUME NEW x, InList(x, l), x # h PROVE InList(x, r)
  <2>1. PICK k \in 1..Len(l) : l[k] = x
    BY <1>5 DEF InList
  <2>2. k - 1 \in 1..Len(r) /\ (k - 1) + 1 = k
    BY <1>2, <1>5, <2>1
  <2> QED
    BY <1>2, <2>1, <2>2 DEF InList
<1> QED
  BY <1>2, <1>3, <1>4, <1>5 DEF r, h

LEMMA ApartIs == ASSUME NEW l, NEW m PROVE Apart(l, m) <=> \A w : ~(InList(w, l) /\ InList(w, m))
BY DEF Apart, InList

\* The first coroutine of _wc that has not timed out, and the first that waits.
LEMMA StaleIs ==
    ASSUME TypeOK
    PROVE  /\ StaleLength \in 0..Len(wc)
           /\ \A i \in 1..StaleLength : wst[wc[i]] = "timeout"
<1> DEFINE live == {i \in 1..Len(wc) : wst[wc[i]] # "timeout"}
<1>1. Len(wc) \in Nat
  BY DEF TypeOK
<1>2. CASE live = {}
  BY <1>1, <1>2 DEF StaleLength
<1>3. CASE live # {}
  <2> DEFINE m == CHOOSE i \in live : \A j \in live : i <= j
  <2>1. \E i \in live : \A j \in live : i <= j
    BY <1>1, <1>3, Least
  <2>2. m \in live /\ \A j \in live : m <= j
    BY <2>1
  <2>3. StaleLength = m - 1
    BY <1>3 DEF StaleLength
  <2> HIDE DEF m
  <2> QED
    BY <1>1, <2>2, <2>3
<1> QED
  BY <1>2, <1>3

LEMMA FirstLiveIs ==
    ASSUME TypeOK
    PROVE  /\ FirstLive \in 0..Len(wc)
           /\ FirstLive = 0 => \A i \in 1..Len(wc) : wst[wc[i]] # "wait"
           /\ FirstLive > 0 => /\ wst[wc[FirstLive]] = "wait"
                               /\ \A i \in 1..FirstLive - 1 : wst[wc[i]] # "wait"
<1> DEFINE live == {i \in 1..Len(wc) : wst[wc[i]] = "wait"}
<1>1. Len(wc) \in Nat
  BY DEF TypeOK
<1>2. CASE live = {}
  BY <1>1, <1>2 DEF FirstLive
<1>3. CASE live # {}
  <2> DEFINE m == CHOOSE i \in live : \A j \in live : i <= j
  <2>1. \E i \in live : \A j \in live : i <= j
    BY <1>1, <1>3, Least
  <2>2. m \in live /\ \A j \in live : m <= j
    BY <2>1
  <2>3. FirstLive = m
    BY <1>3 DEF FirstLive
  <2> HIDE DEF m
  <2> QED
    BY <1>1, <2>2, <2>3
<1> QED
  BY <1>2, <1>3

-----------------------------------------------------------------------------
\* What a step leaves alone keeps its part of the invariant.
LEMMA ListsKept ==
    ASSUME ListsInv, UNCHANGED <<wc, rest>>
    PROVE  ListsInv' /\ \A w : Listed(w)' <=> Listed(w)
BY DEF ListsInv, Listed, InList, Apart, Distinct

LEMMA ObjectsKept ==
    ASSUME ObjectsInv, UNCHANGED <<wst, wco>>,
           \A w \in W : Listed(w)' <=> Listed(w),
           \A c \in Co : pc[c] = "waiting" => pc'[c] = "waiting" /\ coWx'[c] = coWx[c]
    PROVE  ObjectsInv'
BY DEF ObjectsInv

LEMMA CoroutinesKept ==
    ASSUME CoroutinesInv, UNCHANGED <<wst, wco, coWx, ready>>,
           \A c \in Co : pc'[c] = pc[c] /\ (pc[c] # "idle" => counted'[c] = counted[c] /\ result'[c] = result[c])
    PROVE  CoroutinesInv'
BY DEF CoroutinesInv

LEMMA ThreadsKept ==
    ASSUME ThreadsInv, UNCHANGED <<wt, sn, snT>>,
           \A t \in Thread : pc'[t] = pc[t] /\ (pc[t] = "cv" => counted'[t] = counted[t])
    PROVE  ThreadsInv'
<1>1. Counted' = Counted
  BY DEF Counted
<1>2. CountIs'
  BY <1>1 DEF ThreadsInv, CountIs
<1> QED
  BY <1>2 DEF ThreadsInv

LEMMA CountedCount ==
    ASSUME EventAssumption
    PROVE  /\ IsFiniteSet(Counted) /\ Cardinality(Counted) \in Nat
           /\ IsFiniteSet(Counted') /\ Cardinality(Counted') \in Nat
           /\ \A t : t \notin Counted => Cardinality(Counted \cup {t}) = Cardinality(Counted) + 1
           /\ \A t \in Counted : Cardinality(Counted \ {t}) = Cardinality(Counted) - 1
<1>1. Counted \in SUBSET Thread /\ Counted' \in SUBSET Thread
  BY DEF Counted
<1>2. IsFiniteSet(Counted) /\ IsFiniteSet(Counted')
  BY <1>1, FS_Subset DEF EventAssumption
<1> QED
  BY <1>2, FS_CardinalityType, FS_AddElement, FS_RemoveElement

-----------------------------------------------------------------------------
\* The steps that change nothing but the event's state and the caller's verdict.
LEMMA WaitSignaledKeeps ==
    ASSUME EventAssumption, EventInv, NEW a \in Waiter, WaitSignaled(a)
    PROVE  EventInv'
<1>1. /\ pc[a] = "idle" /\ pc' = pc /\ signaled /\ signaled' = manual
      /\ result' = [result EXCEPT ![a] = "true"] /\ counted' = [counted EXCEPT ![a] = TRUE]
      /\ UNCHANGED <<manual, wc, wt, sn, wst, wco, coWx, ready, snT, rest>>
  BY DEF WaitSignaled, Begin, Returns, EventInv, TypeOK
<1>2. TypeOK'
  BY <1>1 DEF EventInv, TypeOK
<1>3. ListsInv' /\ \A w : Listed(w)' <=> Listed(w)
  BY <1>1, ListsKept DEF EventInv
<1>4. ObjectsInv'
  BY <1>1, <1>3, ObjectsKept DEF EventInv
<1>5. \A c \in Co : pc[c] # "idle" => counted'[c] = counted[c] /\ result'[c] = result[c]
  BY <1>1 DEF EventInv, TypeOK, Waiter
<1>6. CoroutinesInv'
  BY <1>1, <1>5, CoroutinesKept DEF EventInv
<1>7. ThreadsInv'
  BY <1>1, ThreadsKept DEF EventInv, TypeOK, Waiter
<1>8. SignaledMeansNoWaiter'
  BY <1>1 DEF EventInv, SignaledMeansNoWaiter
<1>9. CoVerdict'
  BY <1>1 DEF EventInv, TypeOK, CoVerdict, Waiter
<1> QED
  BY <1>2, <1>3, <1>4, <1>6, <1>7, <1>8, <1>9 DEF EventInv

LEMMA WaitZeroKeeps ==
    ASSUME EventAssumption, EventInv, NEW a \in Waiter, WaitZero(a)
    PROVE  EventInv'
<1>1. /\ pc[a] = "idle" /\ pc' = pc /\ signaled' = signaled
      /\ result' = [result EXCEPT ![a] = "false"] /\ counted' = [counted EXCEPT ![a] = FALSE]
      /\ UNCHANGED <<manual, wc, wt, sn, wst, wco, coWx, ready, snT, rest>>
  BY DEF WaitZero, Begin, Returns, EventInv, TypeOK
<1>2. TypeOK'
  BY <1>1 DEF EventInv, TypeOK
<1>3. ListsInv' /\ \A w : Listed(w)' <=> Listed(w)
  BY <1>1, ListsKept DEF EventInv
<1>4. ObjectsInv'
  BY <1>1, <1>3, ObjectsKept DEF EventInv
<1>5. \A c \in Co : pc[c] # "idle" => counted'[c] = counted[c] /\ result'[c] = result[c]
  BY <1>1 DEF EventInv, TypeOK, Waiter
<1>6. CoroutinesInv'
  BY <1>1, <1>5, CoroutinesKept DEF EventInv
<1>7. ThreadsInv'
  BY <1>1, ThreadsKept DEF EventInv, TypeOK, Waiter
<1>8. SignaledMeansNoWaiter'
  BY <1>1 DEF EventInv, SignaledMeansNoWaiter
<1>9. CoVerdict'
  BY <1>1 DEF EventInv, TypeOK, CoVerdict, Waiter
<1> QED
  BY <1>2, <1>3, <1>4, <1>6, <1>7, <1>8, <1>9 DEF EventInv

LEMMA ResetKeeps ==
    ASSUME EventAssumption, EventInv, NEW s \in Signaler, Reset(s)
    PROVE  EventInv'
<1>1. /\ signaled' = FALSE
      /\ UNCHANGED <<manual, wc, wt, sn, wst, wco, coWx, ready, pc, snT, rest, counted, result>>
  BY DEF Reset
<1>2. TypeOK'
  BY <1>1 DEF EventInv, TypeOK
<1>3. ListsInv' /\ \A w : Listed(w)' <=> Listed(w)
  BY <1>1, ListsKept DEF EventInv
<1>4. ObjectsInv' /\ CoroutinesInv' /\ ThreadsInv'
  BY <1>1, <1>3, ObjectsKept, CoroutinesKept, ThreadsKept DEF EventInv
<1>5. SignaledMeansNoWaiter' /\ CoVerdict'
  BY <1>1 DEF EventInv, SignaledMeansNoWaiter, CoVerdict
<1> QED
  BY <1>2, <1>3, <1>4, <1>5 DEF EventInv

-----------------------------------------------------------------------------
\* The threads.
LEMMA ThreadStepKeeps ==
    ASSUME EventAssumption, EventInv, NEW t \in Thread,
           WaitThread(t) \/ Leave(t) \/ ThreadNotified(t) \/ ThreadExpired(t),
           TypeOK', ThreadsInv', signaled' => wt' = 0
    PROVE  EventInv'
<1>1. UNCHANGED <<manual, signaled, wc, sn, wst, wco, coWx, ready, rest>>
  BY DEF WaitThread, Leave, ThreadNotified, ThreadExpired
<1>2. \A c \in Co : pc'[c] = pc[c] /\ counted'[c] = counted[c] /\ result'[c] = result[c]
  BY DEF WaitThread, Leave, ThreadNotified, ThreadExpired, Blocks, Returns, EventInv, TypeOK, Waiter, EventAssumption
<1>3. ListsInv' /\ \A w : Listed(w)' <=> Listed(w)
  BY <1>1, ListsKept DEF EventInv
<1>4. ObjectsInv' /\ CoroutinesInv'
  BY <1>1, <1>2, <1>3, ObjectsKept, CoroutinesKept DEF EventInv
<1>5. SignaledMeansNoWaiter' /\ CoVerdict'
  BY <1>1, <1>2 DEF EventInv, SignaledMeansNoWaiter, CoVerdict
<1> QED
  BY <1>3, <1>4, <1>5 DEF EventInv

LEMMA WaitThreadKeeps ==
    ASSUME EventAssumption, EventInv, NEW t \in Thread, WaitThread(t)
    PROVE  EventInv'
<1>1. /\ pc[t] = "idle" /\ ~signaled /\ wt' = wt + 1
      /\ pc' = [pc EXCEPT ![t] = "cv"] /\ snT' = [snT EXCEPT ![t] = sn]
      /\ result' = [result EXCEPT ![t] = "none"] /\ counted' = [counted EXCEPT ![t] = FALSE]
      /\ UNCHANGED <<manual, signaled, wc, sn, wst, wco, coWx, ready, rest>>
  BY DEF WaitThread, Begin, Blocks
<1>2. TypeOK'
  BY <1>1 DEF EventInv, TypeOK, Waiter
<1>3. ThreadsInv'
  <2>1. t \notin Counted /\ Counted' = Counted \cup {t}
    BY <1>1 DEF EventInv, TypeOK, Counted, Waiter
  <2>2. Cardinality(Counted') = Cardinality(Counted) + 1 /\ Cardinality(Counted) \in Nat
    BY <2>1, CountedCount
  <2>3. wt \in Nat /\ CountIs /\ wt' = wt + 1
    BY <1>1 DEF EventInv, TypeOK, ThreadsInv
  <2>4. CountIs'
    BY <2>2, <2>3 DEF CountIs
  <2>5. pc'[t] = "cv" /\ snT'[t] = sn /\ ~counted'[t] /\ sn \in Nat /\ UNCHANGED sn
    BY <1>1 DEF EventInv, TypeOK, Waiter
  <2>6. \A r \in Thread \ {t} : pc'[r] = pc[r] /\ snT'[r] = snT[r] /\ counted'[r] = counted[r]
    BY <1>1 DEF EventInv, TypeOK, Waiter
  <2> QED
    BY <2>4, <2>5, <2>6 DEF EventInv, ThreadsInv
<1> QED
  BY <1>1, <1>2, <1>3, ThreadStepKeeps

LEMMA LeaveKeeps ==
    ASSUME EventAssumption, EventInv, NEW t \in Thread, Leave(t)
    PROVE  EventInv'
<1>1. /\ pc[t] = "cv"
      /\ pc' = [pc EXCEPT ![t] = "expired"] \/ (Spurious /\ pc' = [pc EXCEPT ![t] = "notified"])
      /\ UNCHANGED <<manual, signaled, wc, wt, sn, wst, wco, coWx, ready, snT, rest, counted, result>>
  BY DEF Leave
<1>2. TypeOK'
  BY <1>1 DEF EventInv, TypeOK, Waiter
<1>3. ThreadsInv'
  <2>1. Counted' \in SUBSET Counted
    BY <1>1 DEF EventInv, TypeOK, Counted, Waiter
  <2>2. Cardinality(Counted') <= Cardinality(Counted)
    BY <2>1, CountedCount, FS_Subset
  <2>3. ~Spurious => Counted' = Counted
    BY <1>1 DEF EventInv, TypeOK, Counted, Waiter
  <2>4. wt \in Nat /\ CountIs /\ wt' = wt
    BY <1>1 DEF EventInv, TypeOK, ThreadsInv
  <2>5. Cardinality(Counted') <= wt'
    BY <2>2, <2>4, CountedCount DEF CountIs
  <2>6. ~Spurious => Cardinality(Counted') = wt'
    BY <2>3, <2>4 DEF CountIs
  <2>7. CountIs'
    BY <2>5, <2>6 DEF CountIs
  <2>8. pc'[t] \in {"expired", "notified"} /\ \A r \in Thread \ {t} : pc'[r] = pc[r]
    BY <1>1 DEF EventInv, TypeOK, Waiter
  <2> QED
    BY <1>1, <2>7, <2>8 DEF EventInv, ThreadsInv
<1> QED
  BY <1>1, <1>2, <1>3, ThreadStepKeeps DEF EventInv, SignaledMeansNoWaiter

LEMMA ThreadNotifiedKeeps ==
    ASSUME EventAssumption, EventInv, NEW t \in Thread, ThreadNotified(t)
    PROVE  EventInv'
<1>1. /\ pc[t] = "notified" /\ pc' = [pc EXCEPT ![t] = "idle"]
      /\ result' = [result EXCEPT ![t] = "true"]
      /\ UNCHANGED <<manual, signaled, wc, wt, sn, wst, wco, coWx, ready, snT, rest, counted>>
  BY DEF ThreadNotified, Returns
<1>2. TypeOK'
  BY <1>1 DEF EventInv, TypeOK, Waiter
<1>3. ThreadsInv'
  <2>1. Counted' = Counted
    BY <1>1 DEF EventInv, TypeOK, Counted, Waiter
  <2>2. CountIs'
    BY <1>1, <2>1 DEF EventInv, ThreadsInv, CountIs
  <2> QED
    BY <1>1, <2>2 DEF EventInv, TypeOK, ThreadsInv, Waiter
<1> QED
  BY <1>1, <1>2, <1>3, ThreadStepKeeps DEF EventInv, SignaledMeansNoWaiter

LEMMA ThreadExpiredKeeps ==
    ASSUME EventAssumption, EventInv, NEW t \in Thread, ThreadExpired(t)
    PROVE  EventInv'
<1>1. /\ pc[t] = "expired" /\ pc' = [pc EXCEPT ![t] = "idle"]
      /\ wt' = (IF sn = snT[t] THEN wt - 1 ELSE wt)
      /\ result' = [result EXCEPT ![t] = "false"]
      /\ UNCHANGED <<manual, signaled, wc, sn, wst, wco, coWx, ready, snT, rest, counted>>
  BY DEF ThreadExpired, Returns
<1>2. Counted' = Counted \ {t} /\ (sn = snT[t] <=> t \in Counted)
  BY <1>1 DEF EventInv, TypeOK, Counted, Waiter
<1>3. wt' \in Nat /\ CountIs' /\ (signaled' => wt' = 0)
  <2>1. wt \in Nat /\ CountIs /\ (signaled => wt = 0)
    BY DEF EventInv, TypeOK, ThreadsInv, SignaledMeansNoWaiter
  <2>2. CASE t \in Counted
    <3>1. Cardinality(Counted') = Cardinality(Counted) - 1 /\ wt' = wt - 1
      BY <1>1, <1>2, <2>2, CountedCount
    <3>2. wt >= 1
      BY <2>1, <3>1, CountedCount DEF CountIs
    <3> QED
      BY <1>1, <2>1, <3>1, <3>2, CountedCount DEF CountIs
  <2>3. CASE t \notin Counted
    <3>1. Counted' = Counted /\ wt' = wt
      BY <1>1, <1>2, <2>3
    <3> QED
      BY <1>1, <2>1, <3>1 DEF CountIs
  <2> QED
    BY <2>2, <2>3
<1>4. TypeOK'
  BY <1>1, <1>3 DEF EventInv, TypeOK, Waiter
<1>5. ThreadsInv'
  <2>1. pc'[t] = "idle" /\ \A r \in Thread \ {t} : pc'[r] = pc[r]
    BY <1>1 DEF EventInv, TypeOK, Waiter
  <2> QED
    BY <1>1, <1>3, <2>1 DEF EventInv, ThreadsInv
<1> QED
  BY <1>3, <1>4, <1>5, ThreadStepKeeps

-----------------------------------------------------------------------------
\* The coroutines.
LEMMA ResumeKeeps ==
    ASSUME EventAssumption, EventInv, NEW c \in Co, Resume(c)
    PROVE  EventInv'
<1> DEFINE w == coWx[c]
<1>1. /\ pc[c] = "waiting" /\ ready[c] = 1 /\ w \in W /\ wst[w] = "ready" /\ wco[w] = c /\ counted[c]
      /\ ready' = [ready EXCEPT ![c] = @ - 1] /\ wst' = [wst EXCEPT ![w] = "free"]
      /\ coWx' = [coWx EXCEPT ![c] = NoW]
      /\ pc' = [pc EXCEPT ![c] = "idle"] /\ result' = [result EXCEPT ![c] = "true"]
      /\ UNCHANGED <<manual, signaled, wc, wt, sn, wco, snT, rest, counted>>
  BY DEF Resume, Returns, EventInv, CoroutinesInv
<1> HIDE DEF w
<1>2. TypeOK'
  BY <1>1 DEF EventInv, TypeOK, Waiter
<1>3. ListsInv' /\ \A x : Listed(x)' <=> Listed(x)
  BY <1>1, ListsKept DEF EventInv
<1>4. ObjectsInv'
  <2>1. ~Listed(w)
    BY <1>1 DEF EventInv, ObjectsInv
  <2>2. \A x \in W \ {w} : wst'[x] \in {"wait", "ready"} =>
           wco[x] \in Co /\ coWx'[wco[x]] = x /\ pc'[wco[x]] = "waiting"
    BY <1>1 DEF EventInv, TypeOK, ObjectsInv, w, Waiter
  <2> QED
    BY <1>1, <1>3, <2>1, <2>2 DEF EventInv, TypeOK, ObjectsInv
<1>5. CoroutinesInv'
  <2>1. \A d \in Co \ {c} : pc[d] = "waiting" => coWx[d] # w
    BY <1>1 DEF EventInv, CoroutinesInv
  <2>2. \A d \in Co \ {c} : pc[d] = "waiting" => coWx'[d] = coWx[d] /\ wst'[coWx[d]] = wst[coWx[d]]
    BY <1>1, <2>1 DEF EventInv, TypeOK, CoroutinesInv
  <2>3. \A d \in Co \ {c} : pc'[d] = pc[d] /\ coWx'[d] = coWx[d] /\ ready'[d] = ready[d] /\ result'[d] = result[d]
    BY <1>1 DEF EventInv, TypeOK, Waiter
  <2>4. pc'[c] = "idle" /\ coWx'[c] = NoW /\ ready'[c] = 0
    BY <1>1 DEF EventInv, TypeOK, Waiter
  <2> QED
    BY <1>1, <2>2, <2>3, <2>4 DEF EventInv, CoroutinesInv
<1>6. ThreadsInv'
  BY <1>1, ThreadsKept DEF EventInv, EventAssumption, TypeOK, Waiter
<1>7. SignaledMeansNoWaiter'
  <2>1. \A x \in W : wst'[x] = "wait" => wst[x] = "wait"
    BY <1>1 DEF EventInv, TypeOK
  <2> QED
    BY <1>1, <2>1 DEF EventInv, TypeOK, SignaledMeansNoWaiter
<1>8. CoVerdict'
  BY <1>1 DEF EventInv, TypeOK, CoVerdict, Waiter
<1> QED
  BY <1>2, <1>3, <1>4, <1>5, <1>6, <1>7, <1>8 DEF EventInv

LEMMA TimeoutKeeps ==
    ASSUME EventAssumption, EventInv, NEW c \in Co, Timeout(c)
    PROVE  EventInv'
<1> DEFINE w == coWx[c]
<1>1. /\ pc[c] = "waiting" /\ c \in TimedCo /\ w \in W /\ wst[w] = "wait" /\ wco[w] = c
      /\ ready[c] = 0 /\ ~counted[c]
      /\ wst' = [wst EXCEPT ![w] = "timeout"]
      /\ pc' = [pc EXCEPT ![c] = "timedout"]
      /\ UNCHANGED <<manual, signaled, wc, wt, sn, wco, coWx, ready, snT, rest, counted, result>>
  BY DEF Timeout, EventInv, CoroutinesInv
<1> HIDE DEF w
<1>2. TypeOK'
  BY <1>1 DEF EventInv, TypeOK, Waiter
<1>3. ListsInv' /\ \A x : Listed(x)' <=> Listed(x)
  BY <1>1, ListsKept DEF EventInv
<1>4. ObjectsInv'
  <2>1. Listed(w)
    BY <1>1 DEF EventInv, ObjectsInv
  <2>2. \A x \in W \ {w} : wst'[x] \in {"wait", "ready"} =>
           wco[x] \in Co /\ coWx'[wco[x]] = x /\ pc'[wco[x]] = "waiting"
    BY <1>1 DEF EventInv, TypeOK, ObjectsInv, w, Waiter
  <2> QED
    BY <1>1, <1>3, <2>1, <2>2 DEF EventInv, TypeOK, ObjectsInv
<1>5. CoroutinesInv'
  <2>1. \A d \in Co \ {c} : pc[d] = "waiting" => coWx[d] # w
    BY <1>1 DEF EventInv, CoroutinesInv
  <2>2. \A d \in Co \ {c} : pc[d] = "waiting" => wst'[coWx[d]] = wst[coWx[d]]
    BY <1>1, <2>1 DEF EventInv, TypeOK, CoroutinesInv
  <2>3. \A d \in Co \ {c} : pc'[d] = pc[d]
    BY <1>1 DEF EventInv, TypeOK, Waiter
  <2>4. pc'[c] = "timedout" /\ coWx[c] \in W
    BY <1>1 DEF EventInv, TypeOK, Waiter, w
  <2> QED
    BY <1>1, <2>2, <2>3, <2>4 DEF EventInv, CoroutinesInv
<1>6. ThreadsInv'
  BY <1>1, ThreadsKept DEF EventInv, EventAssumption, TypeOK, Waiter
<1>7. SignaledMeansNoWaiter'
  <2>1. \A x \in W : wst'[x] = "wait" => wst[x] = "wait"
    BY <1>1 DEF EventInv, TypeOK
  <2> QED
    BY <1>1, <2>1 DEF EventInv, TypeOK, SignaledMeansNoWaiter
<1>8. CoVerdict'
  BY <1>1 DEF EventInv, CoVerdict
<1> QED
  BY <1>2, <1>3, <1>4, <1>5, <1>6, <1>7, <1>8 DEF EventInv

LEMMA ResumeTimedOutKeeps ==
    ASSUME EventAssumption, EventInv, NEW c \in Co, ResumeTimedOut(c)
    PROVE  EventInv'
<1>1. /\ pc[c] = "timedout" /\ ready[c] = 0 /\ ~counted[c]
      /\ coWx' = [coWx EXCEPT ![c] = NoW]
      /\ pc' = [pc EXCEPT ![c] = "idle"] /\ result' = [result EXCEPT ![c] = "false"]
      /\ UNCHANGED <<manual, signaled, wc, wt, sn, wst, wco, ready, snT, rest, counted>>
  BY DEF ResumeTimedOut, Returns, EventInv, CoroutinesInv
<1>2. TypeOK'
  BY <1>1 DEF EventInv, TypeOK, Waiter
<1>3. ListsInv' /\ \A x : Listed(x)' <=> Listed(x)
  BY <1>1, ListsKept DEF EventInv
<1>4. ObjectsInv'
  <2>1. \A d \in Co : pc[d] = "waiting" => pc'[d] = "waiting" /\ coWx'[d] = coWx[d]
    BY <1>1 DEF EventInv, TypeOK, Waiter
  <2> QED
    BY <1>1, <1>3, <2>1, ObjectsKept DEF EventInv
<1>5. CoroutinesInv'
  <2>1. \A d \in Co \ {c} : pc'[d] = pc[d] /\ coWx'[d] = coWx[d] /\ result'[d] = result[d]
    BY <1>1 DEF EventInv, TypeOK, Waiter
  <2>2. pc'[c] = "idle" /\ coWx'[c] = NoW
    BY <1>1 DEF EventInv, TypeOK, Waiter
  <2> QED
    BY <1>1, <2>1, <2>2 DEF EventInv, CoroutinesInv
<1>6. ThreadsInv'
  BY <1>1, ThreadsKept DEF EventInv, EventAssumption, TypeOK, Waiter
<1>7. SignaledMeansNoWaiter'
  BY <1>1 DEF EventInv, SignaledMeansNoWaiter
<1>8. CoVerdict'
  BY <1>1 DEF EventInv, TypeOK, CoVerdict, Waiter
<1> QED
  BY <1>2, <1>3, <1>4, <1>5, <1>6, <1>7, <1>8 DEF EventInv

\* The waitx that WaitCo takes becomes that of c, be it a new one or the first
\* of the list: without reuse by others, that one was that of c before.
LEMMA WaitCoTakes ==
    ASSUME EventAssumption, NoReuse, EventInv, NEW c \in Co, WaitCo(c)
    PROVE  \E w \in W :
              /\ wst[w] \in {"free", "timeout"}
              /\ wst' = [x \in W |-> IF x = w THEN "wait" ELSE IF x \in Stale THEN "free" ELSE wst[x]]
              /\ wco' = [wco EXCEPT ![w] = c] /\ coWx' = [coWx EXCEPT ![c] = w]
              /\ wc' = Append(Fresh, w)
              /\ ~InList(w, Fresh) /\ \A s \in Signaler : ~InList(w, rest[s])
<1>1. /\ StaleLength \in 0..Len(wc) /\ \A i \in 1..StaleLength : wst[wc[i]] = "timeout"
      /\ wc \in Seq(W) /\ Len(wc) \in Nat
  BY StaleIs DEF EventInv, TypeOK
<1>2. \A x : InList(x, Fresh) <=> InList(x, wc) /\ x \notin Stale
  BY <1>1, InListDrop DEF EventInv, ListsInv, Fresh, Stale
<1>3. PICK w \in IF Stale # {} THEN {wc[1]} ELSE {x \in W : wst[x] = "free"} :
         /\ wst' = [x \in W |-> IF x = w THEN "wait" ELSE IF x \in Stale THEN "free" ELSE wst[x]]
         /\ wco' = IF Stale # {} THEN wco ELSE [wco EXCEPT ![w] = c]
         /\ coWx' = [coWx EXCEPT ![c] = w]
         /\ wc' = Append(Fresh, w)
  BY DEF WaitCo
<1>4. CASE Stale # {}
  <2>1. 1 \in 1..StaleLength /\ 1 \in 1..Len(wc) /\ w = wc[1] /\ w \in W /\ wst[w] = "timeout"
    BY <1>1, <1>3, <1>4 DEF Stale
  <2>2. w \in Stale /\ InList(w, wc)
    BY <2>1 DEF Stale, InList
  <2>3. wco[w] = c
    BY <2>1 DEF EventInv, ObjectsInv, EventAssumption, NoReuse
  <2>4. wco' = [wco EXCEPT ![w] = c]
    BY <1>3, <1>4, <2>3 DEF EventInv, TypeOK
  <2>5. \A s \in Signaler : ~InList(w, rest[s])
    BY <2>2, ApartIs DEF EventInv, ListsInv
  <2> QED
    BY <1>2, <1>3, <2>1, <2>2, <2>4, <2>5
<1>5. CASE Stale = {}
  <2>1. w \in W /\ wst[w] = "free"
    BY <1>3, <1>5
  <2>2. ~Listed(w)
    BY <2>1 DEF EventInv, ObjectsInv
  <2> QED
    BY <1>2, <1>3, <1>5, <2>1, <2>2 DEF Listed
<1> QED
  BY <1>4, <1>5

LEMMA WaitCoKeeps ==
    ASSUME EventAssumption, NoReuse, EventInv, NEW c \in Co, WaitCo(c)
    PROVE  EventInv'
<1>1. /\ pc[c] = "idle" /\ ready[c] = 0 /\ ~signaled
      /\ pc' = [pc EXCEPT ![c] = "waiting"] /\ result' = [result EXCEPT ![c] = "none"]
      /\ counted' = [counted EXCEPT ![c] = FALSE]
      /\ UNCHANGED <<manual, signaled, wt, sn, ready, snT, rest>>
  BY DEF WaitCo, Begin, Blocks, EventInv, CoroutinesInv
<1>2. PICK w \in W :
         /\ wst[w] \in {"free", "timeout"}
         /\ wst' = [x \in W |-> IF x = w THEN "wait" ELSE IF x \in Stale THEN "free" ELSE wst[x]]
         /\ wco' = [wco EXCEPT ![w] = c] /\ coWx' = [coWx EXCEPT ![c] = w]
         /\ wc' = Append(Fresh, w)
         /\ ~InList(w, Fresh) /\ \A s \in Signaler : ~InList(w, rest[s])
  BY WaitCoTakes
<1>3. /\ \A x \in Stale : InList(x, wc) /\ wst[x] = "timeout"
      /\ \A x : InList(x, Fresh) <=> InList(x, wc) /\ x \notin Stale
      /\ Fresh \in Seq(W) /\ Distinct(Fresh)
  <2>1. /\ StaleLength \in 0..Len(wc) /\ \A i \in 1..StaleLength : wst[wc[i]] = "timeout"
        /\ wc \in Seq(W) /\ Len(wc) \in Nat /\ Distinct(wc)
    BY StaleIs DEF EventInv, TypeOK, ListsInv
  <2>2. \A x \in Stale : InList(x, wc) /\ wst[x] = "timeout"
    BY <2>1 DEF Stale, InList
  <2>3. /\ Fresh \in Seq(W) /\ Distinct(Fresh)
        /\ \A x : InList(x, Fresh) <=> InList(x, wc) /\ ~ \E i \in 1..StaleLength : wc[i] = x
    BY <2>1, InListDrop DEF Fresh
  <2>4. \A x : x \in Stale <=> \E i \in 1..StaleLength : wc[i] = x
    BY DEF Stale
  <2> QED
    BY <2>2, <2>3, <2>4
<1>4. /\ wc' \in Seq(W) /\ Distinct(wc')
      /\ \A x : InList(x, wc') <=> InList(x, Fresh) \/ x = w
  BY <1>2, <1>3, InListAppend
<1>5. /\ \A x \in W : wst'[x] = IF x = w THEN "wait" ELSE IF x \in Stale THEN "free" ELSE wst[x]
      /\ \A x \in W : wco'[x] = IF x = w THEN c ELSE wco[x]
      /\ coWx'[c] = w /\ pc'[c] = "waiting" /\ result'[c] = "none" /\ counted'[c] = FALSE
      /\ \A d \in Co \ {c} : /\ coWx'[d] = coWx[d] /\ pc'[d] = pc[d]
                              /\ result'[d] = result[d] /\ counted'[d] = counted[d]
      /\ \A t \in Thread : pc'[t] = pc[t]
  BY <1>1, <1>2 DEF EventInv, TypeOK, Waiter, EventAssumption
<1>6. TypeOK'
  <2>1. wst' \in [W -> {"free", "wait", "ready", "timeout"}]
    BY <1>2 DEF EventInv, TypeOK
  <2>2. wco' \in [W -> Co \cup {NoW}] /\ coWx' \in [Co -> W \cup {NoW}]
    BY <1>2 DEF EventInv, TypeOK
  <2>3. pc' \in [Waiter -> {"idle", "waiting", "timedout", "cv", "notified", "expired"}]
    BY <1>1 DEF EventInv, TypeOK, Waiter
  <2>4. counted' \in [Waiter -> BOOLEAN] /\ result' \in [Waiter -> {"none", "true", "false"}]
    BY <1>1 DEF EventInv, TypeOK, Waiter
  <2> QED
    BY <1>1, <1>4, <2>1, <2>2, <2>3, <2>4 DEF EventInv, TypeOK
<1>7. ListsInv'
  <2>1. \A s \in Signaler : Apart(wc', rest[s])
    BY <1>2, <1>3, <1>4, ApartIs DEF EventInv, ListsInv
  <2> QED
    BY <1>1, <1>4, <2>1 DEF EventInv, ListsInv
<1>8. \A x : Listed(x)' <=> (Listed(x) /\ x \notin Stale) \/ x = w
  <2>1. \A x \in Stale, s \in Signaler : ~InList(x, rest[s])
    BY <1>3, ApartIs DEF EventInv, ListsInv
  <2> QED
    BY <1>1, <1>3, <1>4, <2>1 DEF Listed
<1>9. ObjectsInv'
  <2>1. \A x \in W \ {w} : wst'[x] \in {"wait", "ready"} => wst[x] = wst'[x] /\ wco[x] # c
    BY <1>1, <1>5 DEF EventInv, ObjectsInv
  <2> QED
    BY <1>3, <1>5, <1>8, <2>1 DEF EventInv, ObjectsInv
<1>10. CoroutinesInv'
  <2>1. \A d \in Co \ {c} : pc[d] = "waiting" => coWx[d] # w /\ coWx[d] \notin Stale /\ coWx[d] \in W
    BY <1>2, <1>3 DEF EventInv, CoroutinesInv
  <2>2. \A d \in Co \ {c} : pc[d] = "waiting" => wst'[coWx[d]] = wst[coWx[d]] /\ wco'[coWx[d]] = wco[coWx[d]]
    BY <1>5, <2>1
  <2> QED
    BY <1>1, <1>5, <2>2 DEF EventInv, CoroutinesInv
<1>11. ThreadsInv'
  BY <1>1, <1>5, ThreadsKept DEF EventInv, TypeOK, Waiter, EventAssumption
<1>12. SignaledMeansNoWaiter' /\ CoVerdict'
  BY <1>1, <1>5 DEF EventInv, SignaledMeansNoWaiter, CoVerdict
<1> QED
  BY <1>6, <1>7, <1>9, <1>10, <1>11, <1>12 DEF EventInv

-----------------------------------------------------------------------------
\* signal(), under the mutex: threads are notified and the whole list is left
\* for later.
LEMMA NotifyThreadsKeeps ==
    ASSUME EventAssumption, EventInv, NEW s \in Signaler, Signal(s), NotifyThreads(s)
    PROVE  EventInv'
<1>1. /\ rest[s] = <<>> /\ rest' = [rest EXCEPT ![s] = wc] /\ wc' = <<>>
      /\ wt' = 0 /\ sn' = sn + 1
      /\ pc' = [a \in Waiter |-> IF pc[a] = "cv" THEN "notified" ELSE pc[a]]
      /\ counted' = [a \in Waiter |-> counted[a] \/ pc[a] \in {"cv", "expired"}]
      /\ signaled' = (signaled /\ manual)
      /\ UNCHANGED <<manual, wst, ready, wco, coWx, snT, result>>
  BY DEF Signal, InSection, NotifyThreads
<1>2. TypeOK'
  <2>1. wc' \in Seq(W) /\ rest' \in [Signaler -> Seq(W)]
    BY <1>1 DEF EventInv, TypeOK
  <2>2. counted' \in [Waiter -> BOOLEAN]
    BY <1>1 DEF EventInv, TypeOK
  <2>3. pc' \in [Waiter -> {"idle", "waiting", "timedout", "cv", "notified", "expired"}]
    BY <1>1 DEF EventInv, TypeOK
  <2>4. wt' \in Nat /\ sn' \in Nat /\ signaled' \in BOOLEAN
    BY <1>1 DEF EventInv, TypeOK
  <2> QED
    BY <1>1, <2>1, <2>2, <2>3, <2>4 DEF EventInv, TypeOK
<1>3. /\ rest'[s] = wc /\ \A r \in Signaler \ {s} : rest'[r] = rest[r]
      /\ \A x : ~InList(x, <<>>)
  BY <1>1 DEF EventInv, TypeOK, InList
<1>4. ListsInv'
  <2>1. \A l : Apart(wc', l) /\ Distinct(wc')
    BY <1>1 DEF Apart, Distinct
  <2>2. \A r \in Signaler : Distinct(rest'[r])
    BY <1>3 DEF EventInv, ListsInv
  <2>3. \A q, r \in Signaler : q # r => Apart(rest'[q], rest'[r])
    BY <1>3, ApartIs DEF EventInv, ListsInv
  <2> QED
    BY <2>1, <2>2, <2>3 DEF ListsInv
<1>5. \A x : Listed(x)' <=> Listed(x)
  BY <1>1, <1>3 DEF Listed
<1>6. \A c \in Co : pc'[c] = pc[c] /\ counted'[c] = counted[c]
  BY <1>1 DEF EventInv, TypeOK, CoroutinesInv, Waiter
<1>7. ObjectsInv' /\ CoroutinesInv'
  BY <1>1, <1>5, <1>6, ObjectsKept, CoroutinesKept DEF EventInv
<1>8. ThreadsInv'
  <2>1. \A t \in Thread : pc'[t] = IF pc[t] = "cv" THEN "notified" ELSE pc[t]
    BY <1>1 DEF Waiter
  <2>2. \A t \in Thread : snT'[t] <= sn' /\ snT'[t] # sn'
    BY <1>1 DEF EventInv, TypeOK, ThreadsInv
  <2>3. Counted' = {}
    BY <2>2 DEF Counted
  <2>4. Cardinality(Counted') = 0
    BY <2>3, FS_EmptySet
  <2>5. CountIs'
    BY <1>1, <2>4 DEF CountIs
  <2>6. \A t \in Thread : pc'[t] \in {"idle", "notified", "expired"} /\ snT'[t] <= sn'
    BY <2>1, <2>2 DEF EventInv, ThreadsInv
  <2> QED
    BY <2>5, <2>6 DEF ThreadsInv
<1>9. SignaledMeansNoWaiter'
  BY <1>1 DEF SignaledMeansNoWaiter
<1>10. CoVerdict'
  BY <1>1, <1>6 DEF EventInv, CoVerdict
<1> QED
  BY <1>2, <1>4, <1>7, <1>8, <1>9, <1>10 DEF EventInv

\* signal(), under the mutex: the first coroutine that waits is woken, those
\* that timed out before it are freed, and what is behind it is left for later.
LEMMA WakeFirstKeeps ==
    ASSUME EventAssumption, EventInv, NEW s \in Signaler, Signal(s), WakeFirst(s)
    PROVE  EventInv'
<1> DEFINE n == FirstLive
           w == wc[n]
           c == wco[w]
           passed == {wc[i] : i \in 1..n}
<1>1. n \in 1..Len(wc) /\ wc \in Seq(W) /\ w \in W /\ wst[w] = "wait" /\ w \in passed
  BY FirstLiveIs DEF WakeFirst, EventInv, TypeOK
<1>2. \A x \in passed : InList(x, wc) /\ x \in W /\ (x = w \/ wst[x] # "wait")
  <2>1. \A i \in 1..n : i \in 1..Len(wc) /\ (i = n \/ wst[wc[i]] # "wait")
    BY FirstLiveIs DEF WakeFirst, EventInv
  <2> QED
    BY <1>1, <2>1 DEF InList
<1>3. c \in Co /\ coWx[c] = w /\ pc[c] = "waiting" /\ ready[c] = 0
  BY <1>1 DEF EventInv, ObjectsInv, CoroutinesInv
<1>4. /\ rest[s] = <<>> /\ rest' = [rest EXCEPT ![s] = SubSeq(wc, n + 1, Len(wc))] /\ wc' = <<>>
      /\ wst' = [x \in W |-> IF x = w THEN "ready" ELSE IF x \in passed THEN "free" ELSE wst[x]]
      /\ ready' = [ready EXCEPT ![c] = @ + 1]
      /\ counted' = [a \in Waiter |-> counted[a] \/ a = c]
      /\ signaled' = (signaled /\ manual) /\ wt = 0
      /\ UNCHANGED <<manual, wt, sn, pc, wco, coWx, snT, result>>
  <2>1. \A x : (\E i \in 1..FirstLive : wc[i] = x) <=> x \in passed
    OBVIOUS
  <2> QED
    BY <2>1 DEF Signal, InSection, WakeFirst
<1>5. LET d == SubSeq(wc, n + 1, Len(wc)) IN
      /\ d \in Seq(W) /\ Distinct(d)
      /\ \A x : InList(x, d) <=> InList(x, wc) /\ x \notin passed
  <2>1. \A x : x \in passed <=> \E i \in 1..n : wc[i] = x
    OBVIOUS
  <2> HIDE DEF n, passed
  <2>2. n \in 0..Len(wc)
    BY <1>1
  <2> QED
    BY <1>1, <2>1, <2>2, InListDrop DEF EventInv, ListsInv
<1> HIDE DEF n, w, c, passed
<1>6. /\ rest'[s] \in Seq(W) /\ Distinct(rest'[s]) /\ \A r \in Signaler \ {s} : rest'[r] = rest[r]
      /\ \A x : InList(x, rest'[s]) <=> InList(x, wc) /\ x \notin passed
      /\ \A x : ~InList(x, <<>>)
  <2> DEFINE d == SubSeq(wc, n + 1, Len(wc))
  <2>1. d \in Seq(W) /\ Distinct(d) /\ \A x : InList(x, d) <=> InList(x, wc) /\ x \notin passed
    BY <1>5
  <2>2. rest' = [rest EXCEPT ![s] = d]
    BY <1>4
  <2> HIDE DEF d
  <2>3. rest'[s] = d /\ \A r \in Signaler \ {s} : rest'[r] = rest[r]
    BY <2>2 DEF EventInv, TypeOK
  <2> QED
    BY <2>1, <2>3 DEF InList
<1>7. TypeOK'
  <2>1. wc' \in Seq(W) /\ rest' \in [Signaler -> Seq(W)]
    BY <1>4, <1>5 DEF EventInv, TypeOK
  <2>2. counted' \in [Waiter -> BOOLEAN] /\ ready' \in [Co -> Nat]
    BY <1>3, <1>4 DEF EventInv, TypeOK
  <2>3. wst' \in [W -> {"free", "wait", "ready", "timeout"}]
    BY <1>4 DEF EventInv, TypeOK
  <2>4. signaled' \in BOOLEAN
    BY <1>4 DEF EventInv, TypeOK
  <2> QED
    BY <1>4, <2>1, <2>2, <2>3, <2>4 DEF EventInv, TypeOK
<1>8. ListsInv'
  <2>1. \A l : Apart(wc', l) /\ Distinct(wc')
    BY <1>4 DEF Apart, Distinct
  <2>2. \A r \in Signaler : Distinct(rest'[r])
    BY <1>6 DEF EventInv, ListsInv
  <2>3. \A q, r \in Signaler : q # r => Apart(rest'[q], rest'[r])
    BY <1>6, ApartIs DEF EventInv, ListsInv
  <2> QED
    BY <2>1, <2>2, <2>3 DEF ListsInv
<1>9. \A x : Listed(x)' <=> Listed(x) /\ x \notin passed
  <2>1. \A x \in passed, r \in Signaler : ~InList(x, rest[r])
    BY <1>2, ApartIs DEF EventInv, ListsInv
  <2> QED
    BY <1>4, <1>6, <2>1 DEF Listed
<1>10. /\ \A x \in W : wst'[x] = IF x = w THEN "ready" ELSE IF x \in passed THEN "free" ELSE wst[x]
       /\ \A d \in Co : d # c => ready'[d] = ready[d] /\ counted'[d] = counted[d]
       /\ ready'[c] = 1 /\ counted'[c]
  <2>1. \A x \in W : wst'[x] = IF x = w THEN "ready" ELSE IF x \in passed THEN "free" ELSE wst[x]
    BY <1>4
  <2>2. ready'[c] = 1 /\ \A d \in Co : d # c => ready'[d] = ready[d]
    BY <1>3, <1>4 DEF EventInv, TypeOK
  <2>3. \A a \in Waiter : counted[a] \in BOOLEAN /\ counted'[a] = (counted[a] \/ a = c)
    BY <1>4 DEF EventInv, TypeOK
  <2>4. counted'[c] /\ \A d \in Co : d # c => counted'[d] = counted[d]
    BY <1>3, <2>3, Zenon DEF Waiter
  <2> QED
    BY <2>1, <2>2, <2>4
<1>11. \A x \in passed : x # w => wst[x] = "timeout"
  BY <1>2 DEF EventInv, ObjectsInv, Listed
<1>12. ObjectsInv'
  BY <1>1, <1>3, <1>4, <1>9, <1>10, <1>11 DEF EventInv, ObjectsInv, c
<1>13. CoroutinesInv'
  <2>1. wco[w] = c
    BY DEF c
  <2>2. \A d \in Co \ {c} : pc[d] = "waiting" => coWx[d] # w /\ coWx[d] \in W /\ coWx[d] \notin passed
    BY <1>11, <2>1 DEF EventInv, CoroutinesInv
  <2>3. \A d \in Co \ {c} : pc[d] = "waiting" => wst'[coWx[d]] = wst[coWx[d]]
    BY <1>10, <2>2
  <2>4. pc'[c] = "waiting" /\ coWx'[c] = w /\ wst'[w] = "ready" /\ result'[c] = "none"
    BY <1>1, <1>3, <1>4, <1>10 DEF EventInv, CoroutinesInv
  <2>5. UNCHANGED <<pc, coWx, wco, result>> /\ w \in W
    BY <1>1, <1>4
  <2>6. \A d \in Co \ {c} : ready'[d] = ready[d] /\ counted'[d] = counted[d]
    BY <1>10
  <2>7. ready'[c] = 1 /\ counted'[c]
    BY <1>10
  <2> QED
    BY <2>1, <2>3, <2>4, <2>5, <2>6, <2>7 DEF EventInv, CoroutinesInv
<1>14. ThreadsInv'
  <2>1. \A t \in Thread : counted'[t] = (counted[t] \/ t = c) /\ t # c /\ counted[t] \in BOOLEAN
    BY <1>3, <1>4 DEF EventInv, TypeOK, Waiter, EventAssumption
  <2> QED
    BY <1>4, <2>1, ThreadsKept DEF EventInv
<1>15. SignaledMeansNoWaiter'
  BY <1>4 DEF SignaledMeansNoWaiter
<1>16. CoVerdict'
  BY <1>3, <1>4, <1>10 DEF EventInv, CoVerdict, CoroutinesInv
<1> QED
  BY <1>7, <1>8, <1>12, <1>13, <1>14, <1>15, <1>16 DEF EventInv

\* signal(), under the mutex: nobody waits.
LEMMA MarkSignaledKeeps ==
    ASSUME EventAssumption, EventInv, NEW s \in Signaler, Signal(s), MarkSignaled(s)
    PROVE  EventInv'
<1>1. /\ wt = 0 /\ wc' = <<>> /\ signaled' = TRUE
      /\ wst' = [x \in W |-> IF InList(x, wc) THEN "free" ELSE wst[x]]
      /\ UNCHANGED <<manual, wt, sn, pc, ready, counted, rest, wco, coWx, snT, result>>
  BY DEF Signal, MarkSignaled, InList
<1>2. TypeOK'
  <2>1. wc' \in Seq(W) /\ wst' \in [W -> {"free", "wait", "ready", "timeout"}]
    BY <1>1 DEF EventInv, TypeOK
  <2> QED
    BY <1>1, <2>1 DEF EventInv, TypeOK
<1>3. ListsInv'
  <2>1. \A l : Apart(wc', l) /\ Distinct(wc')
    BY <1>1 DEF Apart, Distinct
  <2> QED
    BY <1>1, <2>1 DEF EventInv, ListsInv
<1>4. \A x : Listed(x)' <=> Listed(x) /\ ~InList(x, wc)
  <2>1. \A x : ~InList(x, <<>>)
    BY DEF InList
  <2>2. \A x, r : r \in Signaler /\ InList(x, wc) => ~InList(x, rest[r])
    BY ApartIs DEF EventInv, ListsInv
  <2> QED
    BY <1>1, <2>1, <2>2 DEF Listed
<1>5. \A x \in W : InList(x, wc) => wst[x] = "timeout"
  <2>1. FirstLive = 0
    BY DEF MarkSignaled
  <2>2. \A x : InList(x, wc) => wst[x] # "wait"
    BY <2>1, FirstLiveIs DEF EventInv, InList
  <2> QED
    BY <2>2 DEF EventInv, ObjectsInv, Listed
<1>6. \A x \in W : wst'[x] = IF InList(x, wc) THEN "free" ELSE wst[x]
  BY <1>1
<1>7. ObjectsInv'
  BY <1>1, <1>4, <1>5, <1>6 DEF EventInv, ObjectsInv
<1>8. CoroutinesInv'
  <2>1. \A d \in Co : pc[d] = "waiting" => wst'[coWx[d]] = wst[coWx[d]]
    BY <1>5, <1>6 DEF EventInv, CoroutinesInv
  <2> QED
    BY <1>1, <2>1 DEF EventInv, CoroutinesInv
<1>9. ThreadsInv' /\ SignaledMeansNoWaiter' /\ CoVerdict'
  BY <1>1, ThreadsKept DEF EventInv, SignaledMeansNoWaiter, CoVerdict
<1> QED
  BY <1>2, <1>3, <1>7, <1>8, <1>9 DEF EventInv

\* signal(), after the mutex: one waitx of those it took.
LEMMA SignalRestKeeps ==
    ASSUME EventAssumption, EventInv, NEW s \in Signaler, SignalRest(s)
    PROVE  EventInv'
<1> DEFINE w == Head(rest[s])
           c == wco[w]
           live == wst[w] = "wait"
<1>1. /\ rest[s] # <<>> /\ rest' = [rest EXCEPT ![s] = Tail(@)]
      /\ wst' = [wst EXCEPT ![w] = IF live THEN "ready" ELSE "free"]
      /\ live => ready' = [ready EXCEPT ![c] = @ + 1] /\ counted' = [counted EXCEPT ![c] = TRUE]
      /\ ~live => UNCHANGED <<ready, counted>>
      /\ UNCHANGED <<manual, signaled, wc, wt, sn, wco, coWx, pc, snT, result>>
  BY DEF SignalRest
<1>2. /\ rest[s] \in Seq(W) /\ w \in W /\ InList(w, rest[s])
      /\ Tail(rest[s]) \in Seq(W) /\ Distinct(Tail(rest[s]))
      /\ \A x : InList(x, Tail(rest[s])) <=> InList(x, rest[s]) /\ x # w
  BY <1>1, InListTail DEF EventInv, TypeOK, ListsInv
<1>3. wst[w] \in {"wait", "timeout"}
  BY <1>2 DEF EventInv, ObjectsInv, Listed
<1>4. live => c \in Co /\ coWx[c] = w /\ pc[c] = "waiting" /\ ready[c] = 0
  BY <1>2 DEF EventInv, ObjectsInv, CoroutinesInv
<1> HIDE DEF w, c, live
<1>5. /\ rest'[s] = Tail(rest[s]) /\ \A r \in Signaler \ {s} : rest'[r] = rest[r]
  BY <1>1 DEF EventInv, TypeOK
<1>6. TypeOK'
  <2>1. rest' \in [Signaler -> Seq(W)]
    BY <1>1, <1>2 DEF EventInv, TypeOK
  <2>2. wst' \in [W -> {"free", "wait", "ready", "timeout"}]
    BY <1>1 DEF EventInv, TypeOK
  <2>3. ready' \in [Co -> Nat] /\ counted' \in [Waiter -> BOOLEAN]
    <3>1. CASE live
      <4>1. ready' = [ready EXCEPT ![c] = @ + 1] /\ counted' = [counted EXCEPT ![c] = TRUE] /\ c \in Co
        BY <1>1, <1>4, <3>1
      <4>2. ready' \in [Co -> Nat]
        BY <4>1 DEF EventInv, TypeOK
      <4>3. counted' \in [Waiter -> BOOLEAN]
        BY <4>1 DEF EventInv, TypeOK, Waiter
      <4> QED
        BY <4>2, <4>3
    <3>2. CASE ~live
      BY <1>1, <3>2 DEF EventInv, TypeOK
    <3> QED
      BY <3>1, <3>2
  <2> QED
    BY <1>1, <2>1, <2>2, <2>3 DEF EventInv, TypeOK
<1>7. ListsInv'
  <2>1. \A r \in Signaler : Distinct(rest'[r]) /\ Apart(wc, rest'[r])
    BY <1>2, <1>5, ApartIs DEF EventInv, ListsInv
  <2>2. \A q, r \in Signaler : q # r => Apart(rest'[q], rest'[r])
    BY <1>2, <1>5, ApartIs DEF EventInv, ListsInv
  <2> QED
    BY <1>1, <2>1, <2>2 DEF EventInv, ListsInv
<1>8. \A x : Listed(x)' <=> Listed(x) /\ x # w
  <2>1. ~InList(w, wc) /\ \A r \in Signaler \ {s} : ~InList(w, rest[r])
    BY <1>2, ApartIs DEF EventInv, ListsInv
  <2> QED
    BY <1>1, <1>2, <1>5, <2>1 DEF Listed
<1>9. /\ \A x \in W : wst'[x] = IF x # w THEN wst[x] ELSE IF live THEN "ready" ELSE "free"
      /\ \A d \in Co : ~live \/ d # c => ready'[d] = ready[d] /\ counted'[d] = counted[d]
      /\ live => ready'[c] = 1 /\ counted'[c]
  BY <1>1, <1>2, <1>4 DEF EventInv, TypeOK, Waiter
<1>10. ObjectsInv'
  BY <1>1, <1>2, <1>4, <1>8, <1>9 DEF EventInv, ObjectsInv, c
<1>11. CoroutinesInv'
  <2>1. \A d \in Co : pc[d] = "waiting" /\ coWx[d] = w => live /\ d = c
    BY <1>3 DEF EventInv, CoroutinesInv, c, live
  <2>2. \A d \in Co : pc[d] = "waiting" => coWx[d] \in W
    BY DEF EventInv, CoroutinesInv
  <2>3. \A d \in Co : ~(pc[d] = "waiting" /\ coWx[d] = w) =>
           ready'[d] = ready[d] /\ counted'[d] = counted[d] /\ (pc[d] = "waiting" => wst'[coWx[d]] = wst[coWx[d]])
    BY <1>4, <1>9, <2>2
  <2>4. \A d \in Co : pc[d] = "waiting" /\ coWx[d] = w =>
           wst'[coWx[d]] = "ready" /\ ready'[d] = 1 /\ counted'[d]
    BY <1>2, <1>9, <2>1
  <2> QED
    BY <1>1, <2>3, <2>4 DEF EventInv, CoroutinesInv
<1>12. ThreadsInv'
  <2>1. \A t \in Thread : counted'[t] = counted[t]
    BY <1>1, <1>4 DEF EventInv, TypeOK, Waiter, EventAssumption
  <2> QED
    BY <1>1, <2>1, ThreadsKept DEF EventInv
<1>13. SignaledMeansNoWaiter'
  BY <1>1, <1>9 DEF EventInv, SignaledMeansNoWaiter, TypeOK
<1>14. CoVerdict'
  BY <1>1, <1>4, <1>9 DEF EventInv, CoVerdict, CoroutinesInv
<1> QED
  BY <1>6, <1>7, <1>10, <1>11, <1>12, <1>13, <1>14 DEF EventInv

-----------------------------------------------------------------------------
LEMMA EventInvStart == ASSUME Init PROVE EventInv
<1>1. TypeOK
  BY DEF Init, TypeOK, Waiter
<1>2. \A x : ~Listed(x)
  BY DEF Init, Listed, InList
<1>3. ListsInv
  BY DEF Init, ListsInv, Distinct, Apart
<1>4. ObjectsInv /\ CoroutinesInv /\ SignaledMeansNoWaiter /\ CoVerdict
  BY <1>2 DEF Init, ObjectsInv, CoroutinesInv, SignaledMeansNoWaiter, CoVerdict, Waiter
<1>5. ThreadsInv
  <2>1. Counted = {}
    BY DEF Init, Counted, Waiter
  <2>2. Cardinality(Counted) = 0
    BY <2>1, FS_EmptySet
  <2> QED
    BY <2>2 DEF Init, ThreadsInv, CountIs, Waiter
<1> QED
  BY <1>1, <1>3, <1>4, <1>5 DEF EventInv

LEMMA SignalKeeps ==
    ASSUME EventAssumption, EventInv, NEW s \in Signaler, Signal(s)
    PROVE  EventInv'
BY NotifyThreadsKeeps, WakeFirstKeeps, MarkSignaledKeeps DEF Signal

LEMMA StepKeeps ==
    ASSUME EventAssumption, NoReuse, EventInv, NEW a \in Waiter, Step(a)
    PROVE  EventInv'
<1>1. CASE WaitSignaled(a) \/ WaitZero(a)
  BY <1>1, WaitSignaledKeeps, WaitZeroKeeps
<1>2. CASE a \in Co /\ (WaitCo(a) \/ Resume(a) \/ Timeout(a) \/ ResumeTimedOut(a))
  BY <1>2, WaitCoKeeps, ResumeKeeps, TimeoutKeeps, ResumeTimedOutKeeps
<1>3. CASE a \in Thread /\ (WaitThread(a) \/ Leave(a) \/ ThreadNotified(a) \/ ThreadExpired(a))
  BY <1>3, WaitThreadKeeps, LeaveKeeps, ThreadNotifiedKeeps, ThreadExpiredKeeps
<1> QED
  BY <1>1, <1>2, <1>3 DEF Step

LEMMA EventInvNext ==
    ASSUME EventAssumption, NoReuse, EventInv, Next
    PROVE  EventInv'
BY StepKeeps, SignalKeeps, SignalRestKeeps, ResetKeeps DEF Next

\* A step that changes neither the event nor its callers.
LEMMA EventInvStutters == ASSUME EventInv, UNCHANGED vars PROVE EventInv'
<1>1. UNCHANGED <<manual, signaled, wc, wt, sn, wst, wco, coWx, ready, pc, snT, rest, counted, result>>
  BY DEF vars
<1>2. TypeOK'
  BY <1>1 DEF EventInv, TypeOK
<1>3. ListsInv' /\ \A x : Listed(x)' <=> Listed(x)
  BY <1>1, ListsKept DEF EventInv
<1>4. ObjectsInv' /\ CoroutinesInv' /\ ThreadsInv'
  BY <1>1, <1>3, ObjectsKept, CoroutinesKept, ThreadsKept DEF EventInv
<1>5. SignaledMeansNoWaiter' /\ CoVerdict'
  BY <1>1 DEF EventInv, SignaledMeansNoWaiter, CoVerdict
<1> QED
  BY <1>2, <1>3, <1>4, <1>5 DEF EventInv

\* What the invariant says of those that wait.
LEMMA EventInvMeans ==
    ASSUME EventInv
    PROVE  NoWaiterForgotten /\ SignaledMeansNoWaiter /\ CoVerdict /\ WaitxOwned
<1>1. NoWaiterForgotten
  BY DEF EventInv, CoroutinesInv, ObjectsInv, NoWaiterForgotten
<1>2. \A w \in W : Listed(w) => wst[w] \in {"wait", "timeout"}
  BY DEF EventInv, ObjectsInv
<1>3. \A w \in W : wst[w] # "free" => Listed(w) \/ \E c \in Co : coWx[c] = w
  BY DEF EventInv, TypeOK, ObjectsInv
<1>4. \A s \in Signaler, w \in W : InList(w, rest[s]) =>
         ~InList(w, wc) /\ \A r \in Signaler \ {s} : ~InList(w, rest[r])
  BY ApartIs DEF EventInv, ListsInv
<1> QED
  BY <1>1, <1>2, <1>3, <1>4 DEF EventInv, WaitxOwned

-----------------------------------------------------------------------------
\* The wait_group.
Working == {s \in Signaler : work[s] = "working"}

\* Nobody has been told anything.
Quiet ==
    /\ ~signaled /\ \A s \in Signaler : rest[s] = <<>>
    /\ \A a \in Waiter : ~counted[a] /\ result[a] # "true" /\ pc[a] # "notified"

\* The counter is the number of those who work; the last of them, and nobody
\* before, signals the event; and what it signaled is there, or somebody has it.
GroupInv ==
    /\ EventInv
    /\ work \in [Signaler -> {"none", "working", "signal", "done"}]
    /\ wg = Cardinality(Working)
    /\ \A s, r \in Signaler : work[s] = "signal" => wg = 0 /\ (work[r] = "signal" => r = s)
    /\ wg > 0 \/ (\E s \in Signaler : work[s] = "signal") => Quiet
    /\ wg = 0 /\ (\A s \in Signaler : work[s] # "signal") => signaled \/ \E a \in Waiter : counted[a]
    /\ waits \in [Waiter -> Nat]
    /\ \A a \in Waiter : counted[a] \/ pc[a] # "idle" => waits[a] # 0

GroupAssumption ==
    EventAssumption /\ IsFiniteSet(Signaler) /\ TimedCo = {} /\ ~Spurious /\ MaxWait = 1

LEMMA WorkingCount ==
    ASSUME GroupAssumption
    PROVE  /\ IsFiniteSet(Working) /\ Cardinality(Working) \in Nat
           /\ \A s : s \notin Working => Cardinality(Working \cup {s}) = Cardinality(Working) + 1
           /\ \A s \in Working : Cardinality(Working \ {s}) = Cardinality(Working) - 1
           /\ Cardinality(Working) = 0 <=> Working = {}
<1>1. Working \in SUBSET Signaler
  BY DEF Working
<1>2. IsFiniteSet(Working)
  BY <1>1, FS_Subset DEF GroupAssumption
<1> QED
  BY <1>2, FS_CardinalityType, FS_AddElement, FS_RemoveElement, FS_EmptySet

\* What a wait does to a group: it tells nobody, and takes nothing away but a
\* signal for itself.
LEMMA StepOfGroup ==
    ASSUME GroupAssumption, GroupInv, NEW a \in Waiter, Step(a)
    PROVE  /\ Quiet => Quiet'
           /\ signaled \/ (\E b \in Waiter : counted[b]) => signaled' \/ \E b \in Waiter : counted'[b]
           /\ waits' \in [Waiter -> Nat]
           /\ \A b \in Waiter : counted'[b] \/ pc'[b] # "idle" => waits'[b] # 0
<1>1. /\ TypeOK /\ CoroutinesInv /\ Co \cap Thread = {} /\ ~Spurious /\ MaxWait = 1
      /\ waits \in [Waiter -> Nat] /\ \A b \in Waiter : counted[b] \/ pc[b] # "idle" => waits[b] # 0
  BY DEF GroupAssumption, EventAssumption, GroupInv, EventInv
<1>2. CASE WaitSignaled(a) \/ WaitZero(a)
  <2>1. /\ signaled' = signaled \/ counted'[a]
        /\ waits' = [waits EXCEPT ![a] = @ + 1] /\ waits[a] = 0 /\ ~counted[a] /\ pc' = pc
        /\ rest' = rest
    BY <1>1, <1>2 DEF WaitSignaled, WaitZero, Begin, Returns, TypeOK
  <2>2. \A b \in Waiter \ {a} : counted'[b] = counted[b] /\ result'[b] = result[b]
    BY <1>1, <1>2 DEF WaitSignaled, WaitZero, Begin, Returns, TypeOK
  <2>3. Quiet => ~counted'[a] /\ result'[a] # "true" /\ ~signaled'
    BY <1>1, <1>2 DEF WaitSignaled, WaitZero, Begin, Returns, TypeOK, Quiet
  <2> QED
    BY <1>1, <2>1, <2>2, <2>3 DEF Quiet
<1>3. CASE (a \in Co /\ WaitCo(a)) \/ (a \in Thread /\ WaitThread(a))
  <2>1. /\ signaled' = signaled /\ rest' = rest
        /\ waits' = [waits EXCEPT ![a] = @ + 1] /\ waits[a] = 0 /\ ~counted[a]
        /\ pc'[a] \in {"waiting", "cv"} /\ ~counted'[a] /\ result'[a] = "none"
    BY <1>1, <1>3 DEF WaitCo, WaitThread, Begin, Blocks, TypeOK
  <2>2. \A b \in Waiter \ {a} : counted'[b] = counted[b] /\ result'[b] = result[b] /\ pc'[b] = pc[b]
    BY <1>1, <1>3 DEF WaitCo, WaitThread, Begin, Blocks, TypeOK
  <2> QED
    BY <1>1, <2>1, <2>2 DEF Quiet
<1>4. CASE \/ a \in Co /\ (Resume(a) \/ Timeout(a) \/ ResumeTimedOut(a))
           \/ a \in Thread /\ (Leave(a) \/ ThreadNotified(a) \/ ThreadExpired(a))
  <2>1. UNCHANGED <<signaled, rest, waits, counted>> /\ pc[a] # "idle"
    BY <1>4 DEF Resume, Timeout, ResumeTimedOut, Leave, ThreadNotified, ThreadExpired
  <2>2. \A b \in Waiter \ {a} : result'[b] = result[b] /\ pc'[b] = pc[b]
    BY <1>1, <1>4 DEF Resume, Timeout, ResumeTimedOut, Leave, ThreadNotified, ThreadExpired, Returns, TypeOK
  <2>3. Quiet => result'[a] # "true" /\ pc'[a] # "notified"
    <3>1. Quiet /\ a \in Co => ~Resume(a)
      BY DEF Quiet, Resume, CoroutinesInv, GroupInv, EventInv
    <3> QED
      BY <1>1, <1>4, <3>1
      DEF Quiet, Timeout, ResumeTimedOut, Leave, ThreadNotified, ThreadExpired, Returns, TypeOK
  <2> QED
    BY <1>1, <2>1, <2>2, <2>3 DEF Quiet
<1> QED
  BY <1>2, <1>3, <1>4 DEF Step

\* signal() leaves the event signaled, or some waiter has the signal.
LEMMA SignalOfGroup ==
    ASSUME GroupAssumption, GroupInv, NEW s \in Signaler, Signal(s)
    PROVE  /\ signaled' \/ \E b \in Waiter : counted'[b]
           /\ UNCHANGED waits
           /\ \A b \in Waiter : counted'[b] \/ pc'[b] # "idle" => waits[b] # 0
<1>1. /\ EventInv /\ TypeOK /\ \A b \in Waiter : counted[b] \/ pc[b] # "idle" => waits[b] # 0
  BY DEF GroupInv, EventInv
<1>2. CASE NotifyThreads(s)
  <2>1. /\ pc' = [b \in Waiter |-> IF pc[b] = "cv" THEN "notified" ELSE pc[b]]
        /\ counted' = [b \in Waiter |-> counted[b] \/ pc[b] \in {"cv", "expired"}]
        /\ wt > 0
    BY <1>2 DEF NotifyThreads
  <2>2. Cardinality(Counted) # 0
    BY <1>1, <2>1 DEF EventInv, ThreadsInv, CountIs, GroupAssumption, TypeOK
  <2>3. PICK t \in Thread : pc[t] \in {"cv", "expired"}
    BY <2>2, FS_EmptySet DEF Counted
  <2>4. counted'[t] /\ t \in Waiter
    BY <2>1, <2>3 DEF Waiter
  <2>5. \A b \in Waiter : counted'[b] \/ pc'[b] # "idle" => counted[b] \/ pc[b] # "idle"
    BY <2>1
  <2> QED
    BY <1>1, <2>4, <2>5 DEF Signal
<1>3. CASE WakeFirst(s)
  <2> DEFINE w == wc[FirstLive]
             c == wco[w]
  <2>1. FirstLive \in 1..Len(wc) /\ wst[w] = "wait" /\ w \in W
    BY <1>1, <1>3, FirstLiveIs DEF WakeFirst, TypeOK
  <2>2. c \in Co /\ pc[c] = "waiting"
    BY <1>1, <2>1 DEF EventInv, ObjectsInv
  <2>3. pc' = pc /\ counted' = [b \in Waiter |-> counted[b] \/ b = c]
    BY <1>3 DEF WakeFirst
  <2> HIDE DEF w, c
  <2>4. counted'[c] /\ c \in Waiter
    BY <2>2, <2>3 DEF Waiter
  <2>5. \A b \in Waiter : counted'[b] \/ pc'[b] # "idle" => counted[b] \/ pc[b] # "idle"
    BY <2>2, <2>3
  <2> QED
    BY <1>1, <2>4, <2>5 DEF Signal
<1>4. CASE MarkSignaled(s)
  BY <1>1, <1>4 DEF Signal, MarkSignaled
<1> QED
  BY <1>2, <1>3, <1>4 DEF Signal

LEMMA RestOfGroup ==
    ASSUME GroupAssumption, GroupInv, NEW s \in Signaler, SignalRest(s)
    PROVE  /\ ~Quiet /\ UNCHANGED <<signaled, waits, pc>>
           /\ \A b \in Waiter : counted[b] => counted'[b]
           /\ \A b \in Waiter : counted'[b] \/ pc[b] # "idle" => waits[b] # 0
<1> DEFINE w == Head(rest[s])
<1>1. /\ EventInv /\ TypeOK /\ \A b \in Waiter : counted[b] \/ pc[b] # "idle" => waits[b] # 0
  BY DEF GroupInv, EventInv
<1>2. ~Quiet /\ UNCHANGED <<signaled, waits, pc>>
  BY DEF SignalRest, Quiet
<1>3. w \in W
  BY <1>1 DEF SignalRest, TypeOK
<1>4. \/ counted' = counted
      \/ wst[w] = "wait" /\ counted' = [counted EXCEPT ![wco[w]] = TRUE]
  BY DEF SignalRest
<1> HIDE DEF w
<1>5. wst[w] = "wait" => wco[w] \in Co /\ pc[wco[w]] = "waiting"
  BY <1>1, <1>3 DEF EventInv, ObjectsInv
<1>6. /\ \A b \in Waiter : counted[b] => counted'[b]
      /\ \A b \in Waiter : counted'[b] => counted[b] \/ pc[b] # "idle"
  BY <1>1, <1>4, <1>5 DEF TypeOK
<1> QED
  BY <1>1, <1>2, <1>6

LEMMA GroupInvStart == ASSUME GroupAssumption, WGInit PROVE GroupInv
<1>1. PICK s \in Signaler : work = [r \in Signaler |-> IF r = s THEN "working" ELSE "none"]
  BY DEF WGInit
<1>2. EventInv /\ wg = 1 /\ ~signaled
  BY EventInvStart DEF WGInit
<1>3. Working = {s}
  BY <1>1 DEF Working
<1>4. Cardinality(Working) = 1
  BY <1>3, FS_Singleton
<1>5. work \in [Signaler -> {"none", "working", "signal", "done"}] /\ \A r \in Signaler : work[r] # "signal"
  BY <1>1
<1>6. Quiet /\ waits \in [Waiter -> Nat] /\ \A a \in Waiter : ~counted[a] /\ pc[a] = "idle"
  BY <1>2 DEF WGInit, Init, Quiet
<1> QED
  BY <1>2, <1>4, <1>5, <1>6 DEF GroupInv

\* The workers' own steps, which leave the event alone.
LEMMA AddKeeps ==
    ASSUME GroupAssumption, GroupInv, NEW s \in Signaler, NEW r \in Signaler, Add(s, r)
    PROVE  GroupInv'
<1>1. /\ work[s] = "working" /\ work[r] = "none" /\ wg' = wg + 1
      /\ work' = [work EXCEPT ![r] = "working"] /\ UNCHANGED vars
      /\ work \in [Signaler -> {"none", "working", "signal", "done"}]
  BY DEF Add, GroupInv
<1>2. EventInv' /\ UNCHANGED <<signaled, rest, counted, result, pc, waits>>
  BY <1>1, EventInvStutters DEF GroupInv, vars
<1>3. /\ wg = Cardinality(Working) /\ wg \in Nat /\ wg # 0
      /\ Cardinality(Working \cup {r}) = wg + 1
  <2>1. s \in Working /\ r \notin Working
    BY <1>1 DEF Working
  <2> QED
    BY <2>1, WorkingCount DEF GroupInv
<1>4. Working' = Working \cup {r}
  BY <1>1 DEF Working
<1>5. wg' = Cardinality(Working') /\ wg' > 0
  BY <1>1, <1>3, <1>4
<1>6. \A q \in Signaler : work[q] # "signal" /\ work'[q] # "signal"
  BY <1>1, <1>3 DEF GroupInv
<1>7. Quiet'
  BY <1>2, <1>3 DEF GroupInv, Quiet
<1> QED
  BY <1>1, <1>2, <1>5, <1>6, <1>7 DEF GroupInv

LEMMA DoneKeeps ==
    ASSUME GroupAssumption, GroupInv, NEW s \in Signaler, Done(s)
    PROVE  GroupInv'
<1>1. /\ work[s] = "working" /\ wg' = wg - 1
      /\ work' = [work EXCEPT ![s] = IF wg' = 0 THEN "signal" ELSE "done"] /\ UNCHANGED vars
      /\ work \in [Signaler -> {"none", "working", "signal", "done"}]
  BY DEF Done, GroupInv
<1>2. EventInv' /\ UNCHANGED <<signaled, rest, counted, result, pc, waits>>
  BY <1>1, EventInvStutters DEF GroupInv, vars
<1>3. /\ wg = Cardinality(Working) /\ wg \in Nat /\ wg # 0
      /\ Cardinality(Working \ {s}) = wg - 1
  <2>1. s \in Working
    BY <1>1 DEF Working
  <2> QED
    BY <2>1, WorkingCount DEF GroupInv
<1>4. Working' = Working \ {s}
  BY <1>1 DEF Working
<1>5. wg' = Cardinality(Working')
  BY <1>1, <1>3, <1>4
<1>6. \A q \in Signaler : work[q] # "signal"
  BY <1>3 DEF GroupInv
<1>7. \A q \in Signaler : work'[q] = "signal" <=> q = s /\ wg' = 0
  BY <1>1, <1>6
<1>8. Quiet'
  BY <1>2, <1>3 DEF GroupInv, Quiet
<1> QED
  BY <1>1, <1>2, <1>5, <1>7, <1>8 DEF GroupInv

\* The last worker signals.
LEMMA DoneSignalKeeps ==
    ASSUME GroupAssumption, GroupInv, NEW s \in Signaler, DoneSignal(s)
    PROVE  GroupInv'
<1>1. /\ work[s] = "signal" /\ Signal(s) /\ work' = [work EXCEPT ![s] = "done"] /\ wg' = wg
      /\ work \in [Signaler -> {"none", "working", "signal", "done"}]
  BY DEF DoneSignal, GroupInv
<1>2. EventInv'
  BY <1>1, SignalKeeps DEF GroupInv, GroupAssumption
<1>3. Working' = Working
  BY <1>1 DEF Working
<1>4. wg = 0 /\ \A q \in Signaler : work'[q] # "signal"
  BY <1>1 DEF GroupInv
<1>5. /\ signaled' \/ \E b \in Waiter : counted'[b]
      /\ UNCHANGED waits
      /\ \A b \in Waiter : counted'[b] \/ pc'[b] # "idle" => waits[b] # 0
  BY <1>1, SignalOfGroup
<1>6. wg' = Cardinality(Working')
  BY <1>1, <1>3 DEF GroupInv
<1> QED
  BY <1>1, <1>2, <1>4, <1>5, <1>6 DEF GroupInv

LEMMA GroupInvNext ==
    ASSUME GroupAssumption, GroupInv, WGNext
    PROVE  GroupInv'
<1>1. CASE \E a \in Waiter : Step(a) /\ UNCHANGED wgVars
  <2>1. PICK a \in Waiter : Step(a) /\ wg' = wg /\ work' = work
    BY <1>1 DEF wgVars
  <2>2. EventInv'
    BY <2>1, StepKeeps DEF GroupInv, GroupAssumption, NoReuse
  <2>3. Working' = Working
    BY <2>1 DEF Working
  <2>4. wg' = Cardinality(Working')
    BY <2>1, <2>3 DEF GroupInv
  <2>5. /\ Quiet => Quiet'
        /\ signaled \/ (\E b \in Waiter : counted[b]) => signaled' \/ \E b \in Waiter : counted'[b]
        /\ waits' \in [Waiter -> Nat]
        /\ \A b \in Waiter : counted'[b] \/ pc'[b] # "idle" => waits'[b] # 0
    BY <2>1, StepOfGroup
  <2> QED
    BY <2>1, <2>2, <2>4, <2>5 DEF GroupInv
<1>2. CASE \E s \in Signaler : SignalRest(s) /\ UNCHANGED wgVars
  <2>1. PICK s \in Signaler : SignalRest(s) /\ wg' = wg /\ work' = work
    BY <1>2 DEF wgVars
  <2>2. EventInv'
    BY <2>1, SignalRestKeeps DEF GroupInv, GroupAssumption
  <2>3. Working' = Working
    BY <2>1 DEF Working
  <2>4. wg' = Cardinality(Working')
    BY <2>1, <2>3 DEF GroupInv
  <2>5. /\ ~Quiet /\ UNCHANGED <<signaled, waits, pc>>
        /\ \A b \in Waiter : counted[b] => counted'[b]
        /\ \A b \in Waiter : counted'[b] \/ pc[b] # "idle" => waits[b] # 0
    BY <2>1, RestOfGroup
  <2> QED
    BY <2>1, <2>2, <2>4, <2>5 DEF GroupInv
<1>3. CASE \E s \in Signaler : Done(s) \/ DoneSignal(s) \/ \E r \in Signaler : Add(s, r)
  BY <1>3, AddKeeps, DoneKeeps, DoneSignalKeeps
<1> QED
  BY <1>1, <1>2, <1>3 DEF WGNext

LEMMA GroupInvStutters == ASSUME GroupInv, UNCHANGED <<vars, wgVars>> PROVE GroupInv'
<1>1. EventInv' /\ UNCHANGED <<signaled, rest, counted, result, pc, waits, wg, work>>
  BY EventInvStutters DEF GroupInv, vars, wgVars
<1>2. Working' = Working /\ Quiet' = Quiet
  BY <1>1 DEF Working, Quiet
<1>3. wg' = Cardinality(Working')
  BY <1>1, <1>2 DEF GroupInv
<1> QED
  BY <1>1, <1>2, <1>3 DEF GroupInv

\* What the invariant says of those that wait for a group.
LEMMA GroupInvMeans ==
    ASSUME GroupAssumption, GroupInv
    PROVE  NoEarlyReturn /\ LeftOnlyByAnother
<1>1. NoEarlyReturn
  <2>1. wg \in Nat
    BY WorkingCount DEF GroupInv
  <2> QED
    BY <2>1 DEF GroupInv, Quiet, NoEarlyReturn
<1>2. ASSUME Settled, NEW a \in Waiter, Blocked(a) PROVE \E b \in Waiter \ {a} : counted[b]
  <2>1. Working = {} /\ (\A s \in Signaler : rest[s] = <<>> /\ work[s] # "signal")
    BY <1>2 DEF Settled, Working
  <2>2. wg = 0
    BY <2>1, WorkingCount DEF GroupInv
  <2>3. signaled \/ \E b \in Waiter : counted[b]
    BY <2>1, <2>2 DEF GroupInv
  <2>4. ~counted[a] /\ ~signaled
    <3>1. CASE a \in Thread /\ pc[a] = "cv"
      <4>1. a \in Counted /\ ~counted[a]
        BY <3>1 DEF GroupInv, EventInv, ThreadsInv, Counted
      <4>2. Cardinality(Counted) # 0
        BY <4>1, CountedCount, FS_EmptySet DEF GroupAssumption
      <4>3. wt # 0
        BY <4>2 DEF GroupInv, EventInv, ThreadsInv, CountIs, GroupAssumption
      <4> QED
        BY <4>1, <4>3 DEF GroupInv, EventInv, SignaledMeansNoWaiter
    <3>2. CASE a \in Co /\ pc[a] = "waiting" /\ wst[coWx[a]] = "wait"
      <4>1. coWx[a] \in W /\ ~counted[a]
        BY <3>2 DEF GroupInv, EventInv, CoroutinesInv
      <4>2. Listed(coWx[a])
        BY <3>2, <4>1 DEF GroupInv, EventInv, ObjectsInv
      <4>3. PICK i \in 1..Len(wc) : wc[i] = coWx[a]
        BY <2>1, <4>2 DEF Listed, InList
      <4> QED
        BY <3>2, <4>1, <4>3 DEF GroupInv, EventInv, SignaledMeansNoWaiter
    <3>3. a \in Co => pc[a] # "cv"
      BY DEF GroupInv, EventInv, CoroutinesInv
    <3>4. a \in Thread => pc[a] # "waiting"
      BY DEF GroupInv, EventInv, ThreadsInv
    <3> QED
      BY <1>2, <3>1, <3>2, <3>3, <3>4 DEF Blocked, Waiter
  <2> QED
    BY <2>3, <2>4
<1> QED
  BY <1>1, <1>2 DEF LeftOnlyByAnother
=============================================================================
