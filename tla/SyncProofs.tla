----------------------------- MODULE SyncProofs -----------------------------
(***************************************************************************)
(* Proofs about the objects of Sync, for any coroutines and threads.       *)
(*                                                                         *)
(* The mutex: one has the lock through every handover, and every waiter is *)
(* accounted for.  MutualExclusion and WaitersAccounted need each other,   *)
(* and these facts: a coroutine that has been given the lock is suspended; *)
(* the lock is given once, by one unlock() or by the ready tasks; and who  *)
(* wakes nobody has taken nobody from the queue.                           *)
(*                                                                         *)
(* The event for threads alone implements the event: what the detailed     *)
(* one keeps for coroutines stays empty, and each of its steps is one of   *)
(* the event's.                                                            *)
(*                                                                         *)
(* The event and the wait_group: the lemmas of EventLemmas, for the        *)
(* waiters of each.                                                        *)
(*                                                                         *)
(* The queue of the mutex, of MutexQueue (Init, Next and Spec are its):    *)
(* its blocks are one queue.                                               *)
(*                                                                         *)
(* The schedulers of a process, of SchedManager, which wait for each other *)
(* when they start and stop.                                               *)
(***************************************************************************)
EXTENDS Sync, MutexQueue, SchedManager, QueueLemmas

Wakers == {a \in Lock!Actor : lockPc[a] = "wake" /\ target[a] # Null}
Sleepers == {t \in MutexThread : lockPc[t] \in {"cv", "woken"}}

Handover ==
    /\ \A a \in Lock!Actor : lockPc[a] # "wake" => target[a] = Null
    /\ \A a \in Wakers : target[a] \notin lockReady
    /\ \A a, b \in Wakers : target[a] = target[b] => a = b

Waiting ==
    /\ \A c \in Lock!Granted : lockPc[c] = "queued"
    /\ \A a \in Lock!Actor : /\ lockPc[a] = "queued" => a \in MutexCo
                             /\ lockPc[a] \in {"cv", "woken"} => a \in MutexThread

LockInv ==
    Lock!TypeOK /\ Handover /\ Waiting /\ Lock!MutualExclusion /\ Lock!WaitersAccounted

-----------------------------------------------------------------------------
\* Facts about the state alone.
LEMMA SameCardinality == \A S : Lock!Cardinality(S) = Cardinality(S)
BY DEF Lock!Cardinality, Cardinality

LEMMA EntriesTimes == ASSUME NEW x PROVE Lock!Entries(x) = Times(wq, x) /\ Lock!Entries(x)' = Times(wq', x)
BY DEF Lock!Cardinality, Cardinality, Lock!Entries, Times, Places

LEMMA GrantedIs ==
    ASSUME Lock!TypeOK, NEW x
    PROVE  x \in Lock!Granted <=> x \in lockReady \/ \E a \in Wakers : target[a] = x
BY SyncAssumption DEF Lock!TypeOK, Lock!Granted, Wakers

LEMMA GrantedNext ==
    ASSUME Lock!TypeOK', NEW x
    PROVE  x \in Lock!Granted' <=> x \in lockReady' \/ \E a \in Wakers' : target'[a] = x
BY SyncAssumption DEF Lock!TypeOK, Lock!Granted, Wakers

LEMMA SleepersCount ==
    /\ IsFiniteSet(Sleepers) /\ Cardinality(Sleepers) \in Nat
    /\ IsFiniteSet(Sleepers') /\ Cardinality(Sleepers') \in Nat
    /\ \A t : t \notin Sleepers => Cardinality(Sleepers \cup {t}) = Cardinality(Sleepers) + 1
    /\ \A t \in Sleepers : Cardinality(Sleepers \ {t}) = Cardinality(Sleepers) - 1
<1>1. Sleepers \in SUBSET MutexThread /\ Sleepers' \in SUBSET MutexThread
  BY DEF Sleepers
<1>2. IsFiniteSet(Sleepers) /\ IsFiniteSet(Sleepers')
  BY <1>1, SyncAssumption, FS_Subset
<1> QED
  BY <1>2, FS_CardinalityType, FS_AddElement, FS_RemoveElement

\* The conjuncts of WaitersAccounted, in the terms of the lemmas.
Accounted ==
    /\ \A c \in MutexCo : Times(wq, c) = IF lockPc[c] = "queued" /\ c \notin Lock!Granted THEN 1 ELSE 0
    /\ Cardinality(Sleepers) = Times(wq, Null) + (IF lock = 2 THEN 1 ELSE 0)

Reachable ==
    /\ lock = 0 => \A a \in Lock!Actor : lockPc[a] \notin {"queued", "cv", "woken"}
    /\ lock = 2 => \/ \E t \in MutexThread : lockPc[t] = "woken"
                   \/ \E a \in Lock!Actor : lockPc[a] = "wake" /\ target[a] = Null

LEMMA AccountedIs ==
    /\ Lock!WaitersAccounted <=> Accounted /\ Reachable
    /\ Lock!WaitersAccounted' <=> Accounted' /\ Reachable'
<1>1. \A x : Lock!Entries(x) = Times(wq, x) /\ Lock!Entries(x)' = Times(wq', x)
  BY EntriesTimes
<1>2. /\ Lock!Cardinality({t \in MutexThread : lockPc[t] \in {"cv", "woken"}}) = Cardinality(Sleepers)
      /\ Lock!Cardinality({t \in MutexThread : lockPc[t] \in {"cv", "woken"}})' = Cardinality(Sleepers)'
  BY DEF Lock!Cardinality, Cardinality, Sleepers
<1>3. Lock!WaitersAccounted <=> Accounted /\ Reachable
  BY <1>1, <1>2 DEF Lock!WaitersAccounted, Accounted, Reachable
<1>4. Lock!WaitersAccounted' <=> Accounted' /\ Reachable'
  BY <1>1, <1>2 DEF Lock!WaitersAccounted, Accounted, Reachable
<1> QED
  BY <1>3, <1>4

\* What the proofs of the actions use of it.
Facts == Lock!TypeOK /\ Handover /\ Waiting /\ Lock!MutualExclusion /\ Accounted /\ Reachable

LEMMA FactsAre == (LockInv <=> Facts) /\ (LockInv' <=> Facts')
BY AccountedIs DEF LockInv, Facts

\* A step that leaves ready, target and the wakers alone grants nothing.
LEMMA SameGranted ==
    ASSUME Lock!TypeOK, Lock!TypeOK', lockReady' = lockReady,
           \A a : a \in Wakers' <=> a \in Wakers,
           \A a \in Wakers : target'[a] = target[a]
    PROVE  \A x : x \in Lock!Granted' <=> x \in Lock!Granted
BY GrantedIs, GrantedNext

\* A step that also leaves the queue, the sleepers and the queued alone keeps
\* the account, but for a lock on its way.
LEMMA SameAccount ==
    ASSUME Accounted, UNCHANGED wq,
           \A x : x \in Lock!Granted' <=> x \in Lock!Granted,
           \A c \in MutexCo : lockPc'[c] = "queued" <=> lockPc[c] = "queued",
           \A t \in MutexThread : lockPc'[t] \in {"cv", "woken"} <=> lockPc[t] \in {"cv", "woken"},
           lock' = 2 <=> lock = 2
    PROVE  Accounted'
<1>1. \A x : Times(wq', x) = Times(wq, x)
  OBVIOUS
<1>2. Sleepers' = Sleepers
  BY DEF Sleepers
<1>3. \A c \in MutexCo : Times(wq', c) = IF lockPc'[c] = "queued" /\ c \notin Lock!Granted' THEN 1 ELSE 0
  BY <1>1 DEF Accounted
<1>4. Cardinality(Sleepers') = Times(wq', Null) + (IF lock' = 2 THEN 1 ELSE 0)
  BY <1>1, <1>2 DEF Accounted
<1> QED
  BY <1>3, <1>4 DEF Accounted

-----------------------------------------------------------------------------
\* The actions, one by one.
LEMMA AcquireFreeKeeps == ASSUME LockInv, NEW a \in Lock!Actor, Lock!AcquireFree(a) PROVE LockInv'
<1>1. Facts
  BY FactsAre
<1>2. /\ lockPc[a] = "idle" /\ lock = 0 /\ lock' = 1
      /\ lockPc' = [lockPc EXCEPT ![a] = "holding"]
      /\ UNCHANGED <<wq, lockReady, target>>
      /\ Lock!TypeOK'
  BY <1>1, SyncAssumption DEF Facts, Lock!TypeOK, Lock!AcquireFree, Lock!Calls, Lock!Goes, Lock!Place
<1>3. /\ \A b : b \in Wakers' <=> b \in Wakers
      /\ \A b \in Lock!Actor : lockPc'[b] = IF b = a THEN "holding" ELSE lockPc[b]
  BY <1>1, <1>2 DEF Facts, Lock!TypeOK, Wakers
<1>4. \A x : x \in Lock!Granted' <=> x \in Lock!Granted
  BY <1>1, <1>2, <1>3, SameGranted DEF Facts
<1>5. Handover'
  BY <1>1, <1>2, <1>3 DEF Facts, Handover
<1>6. Waiting'
  BY <1>1, <1>2, <1>3, <1>4, SyncAssumption, GrantedIs DEF Facts, Waiting, Lock!TypeOK, Wakers, Lock!Actor
<1>7. Lock!MutualExclusion'
  BY <1>1, <1>2, <1>3, <1>4 DEF Facts, Lock!MutualExclusion, Lock!Holders
<1>8. Accounted'
  BY <1>1, <1>2, <1>3, <1>4, SameAccount DEF Facts, Lock!Actor
<1>9. Reachable'
  BY <1>2 DEF Reachable
<1> QED
  BY <1>2, <1>5, <1>6, <1>7, <1>8, <1>9, FactsAre DEF Facts

LEMMA LockCoKeeps == ASSUME LockInv, NEW c \in MutexCo, Lock!LockCo(c) PROVE LockInv'
<1>1. Facts
  BY FactsAre
<1>2. /\ lockPc[c] = "idle" /\ lock # 0 /\ lock' = lock
      /\ lockPc' = [lockPc EXCEPT ![c] = "queued"]
      /\ wq' = Append(wq, c) /\ UNCHANGED <<lockReady, target>>
      /\ c \in Lock!Actor /\ c \notin MutexThread /\ c # Null
      /\ Lock!TypeOK'
  BY <1>1, SyncAssumption DEF Facts, Lock!TypeOK, Lock!LockCo, Lock!Calls, Lock!Goes, Lock!Place, Lock!Actor
<1>3. /\ \A b : b \in Wakers' <=> b \in Wakers
      /\ \A b \in Lock!Actor : lockPc'[b] = IF b = c THEN "queued" ELSE lockPc[b]
  BY <1>1, <1>2 DEF Facts, Lock!TypeOK, Wakers
<1>4. \A x : x \in Lock!Granted' <=> x \in Lock!Granted
  BY <1>1, <1>2, <1>3, SameGranted DEF Facts
<1>5. Handover'
  BY <1>1, <1>2, <1>3 DEF Facts, Handover
<1>6. Waiting'
  BY <1>1, <1>2, <1>3, <1>4, SyncAssumption, GrantedIs DEF Facts, Waiting, Lock!TypeOK, Wakers, Lock!Actor
<1>7. Lock!MutualExclusion'
  BY <1>1, <1>2, <1>3, <1>4 DEF Facts, Lock!MutualExclusion, Lock!Holders
<1>8. \A x : Times(wq', x) = Times(wq, x) + (IF c = x THEN 1 ELSE 0)
  <2>1. wq \in Seq(MutexCo \cup {Null}) /\ c \in MutexCo \cup {Null}
    BY <1>1 DEF Facts, Lock!TypeOK
  <2>2. \A x : Times(Append(wq, c), x) = Times(wq, x) + (IF c = x THEN 1 ELSE 0)
    BY <2>1, TimesAppend
  <2> QED
    BY <1>2, <2>2
<1>9. Accounted'
  <2>1. c \notin Lock!Granted
    BY <1>1, <1>2 DEF Facts, Waiting
  <2>2. Sleepers' = Sleepers
    BY <1>2, <1>3 DEF Sleepers, Lock!Actor
  <2>3. Times(wq, c) = 0
    BY <1>1, <1>2 DEF Facts, Accounted
  <2>4. \A d \in MutexCo : Times(wq', d) = IF lockPc'[d] = "queued" /\ d \notin Lock!Granted' THEN 1 ELSE 0
    <3> TAKE d \in MutexCo
    <3>1. Times(wq, d) = IF lockPc[d] = "queued" /\ d \notin Lock!Granted THEN 1 ELSE 0
      BY <1>1 DEF Facts, Accounted
    <3>2. CASE d = c
      BY <3>2, <1>3, <1>4, <1>8, <2>1, <2>3 DEF Lock!Actor
    <3>3. CASE d # c
      BY <3>1, <3>3, <1>3, <1>4, <1>8 DEF Lock!Actor
    <3> QED
      BY <3>2, <3>3
  <2>5. Times(wq', Null) = Times(wq, Null) /\ lock' = lock
    <3>1. Times(wq, Null) \in Nat /\ c # Null
      BY <1>1, <1>2, TimesType DEF Facts, Lock!TypeOK
    <3> QED
      BY <3>1, <1>2, <1>8
  <2>6. Cardinality(Sleepers') = Times(wq', Null) + (IF lock' = 2 THEN 1 ELSE 0)
    BY <1>1, <2>2, <2>5 DEF Facts, Accounted
  <2> QED
    BY <2>4, <2>6 DEF Accounted
<1>10. Reachable'
  BY <1>1, <1>2, <1>3 DEF Facts, Reachable, Lock!Actor
<1> QED
  BY <1>2, <1>5, <1>6, <1>7, <1>9, <1>10, FactsAre DEF Facts

LEMMA LockThreadKeeps == ASSUME LockInv, NEW t \in MutexThread, Lock!LockThread(t) PROVE LockInv'
<1>1. Facts
  BY FactsAre
<1>2. /\ lockPc[t] = "idle" /\ lock # 0 /\ lock' = lock
      /\ lockPc' = [lockPc EXCEPT ![t] = "cv"]
      /\ wq' = Append(wq, Null) /\ UNCHANGED <<lockReady, target>>
      /\ t \in Lock!Actor /\ t \notin MutexCo /\ Null \notin MutexCo
      /\ Lock!TypeOK'
  BY <1>1, SyncAssumption DEF Facts, Lock!TypeOK, Lock!LockThread, Lock!Calls, Lock!Goes, Lock!Place, Lock!Actor
<1>3. /\ \A b : b \in Wakers' <=> b \in Wakers
      /\ \A b \in Lock!Actor : lockPc'[b] = IF b = t THEN "cv" ELSE lockPc[b]
  BY <1>1, <1>2 DEF Facts, Lock!TypeOK, Wakers
<1>4. \A x : x \in Lock!Granted' <=> x \in Lock!Granted
  BY <1>1, <1>2, <1>3, SameGranted DEF Facts
<1>5. Handover'
  BY <1>1, <1>2, <1>3 DEF Facts, Handover
<1>6. Waiting'
  BY <1>1, <1>2, <1>3, <1>4, SyncAssumption, GrantedIs DEF Facts, Waiting, Lock!TypeOK, Wakers, Lock!Actor
<1>7. Lock!MutualExclusion'
  BY <1>1, <1>2, <1>3, <1>4 DEF Facts, Lock!MutualExclusion, Lock!Holders
<1>8. \A x : Times(wq', x) = Times(wq, x) + (IF Null = x THEN 1 ELSE 0) /\ Times(wq, x) \in Nat
  <2>1. wq \in Seq(MutexCo \cup {Null}) /\ Null \in MutexCo \cup {Null}
    BY <1>1 DEF Facts, Lock!TypeOK
  <2>2. \A x : /\ Times(Append(wq, Null), x) = Times(wq, x) + (IF Null = x THEN 1 ELSE 0)
               /\ Times(wq, x) \in Nat
    BY <2>1, TimesAppend, TimesType
  <2> QED
    BY <1>2, <2>2
<1>9. Accounted'
  <2>1. \A d \in MutexCo : Times(wq', d) = Times(wq, d) /\ lockPc'[d] = lockPc[d]
    BY <1>2, <1>3, <1>8 DEF Lock!Actor
  <2>2. \A d \in MutexCo : Times(wq', d) = IF lockPc'[d] = "queued" /\ d \notin Lock!Granted' THEN 1 ELSE 0
    BY <2>1, <1>1, <1>4 DEF Facts, Accounted
  <2>3. t \notin Sleepers /\ Sleepers' = Sleepers \cup {t}
    BY <1>2, <1>3 DEF Sleepers, Lock!Actor
  <2>4. Cardinality(Sleepers') = Cardinality(Sleepers) + 1 /\ Cardinality(Sleepers) \in Nat
    BY <2>3, SleepersCount
  <2>5. Cardinality(Sleepers) = Times(wq, Null) + (IF lock = 2 THEN 1 ELSE 0)
    BY <1>1 DEF Facts, Accounted
  <2>6. Times(wq', Null) = Times(wq, Null) + 1 /\ lock' = lock /\ Times(wq, Null) \in Nat
    BY <1>2, <1>8
  <2>7. Cardinality(Sleepers') = Times(wq', Null) + (IF lock' = 2 THEN 1 ELSE 0)
    BY <2>4, <2>5, <2>6
  <2> QED
    BY <2>2, <2>7 DEF Accounted
<1>10. Reachable'
  BY <1>1, <1>2, <1>3 DEF Facts, Reachable, Lock!Actor
<1> QED
  BY <1>2, <1>5, <1>6, <1>7, <1>9, <1>10, FactsAre DEF Facts

LEMMA ResumeCoKeeps == ASSUME LockInv, NEW c \in MutexCo, Lock!ResumeCo(c) PROVE LockInv'
<1>1. Facts
  BY FactsAre
<1>2. /\ lockPc[c] = "queued" /\ c \in lockReady /\ lockReady' = lockReady \ {c}
      /\ lockPc' = [lockPc EXCEPT ![c] = "holding"]
      /\ UNCHANGED <<lock, wq, target>>
      /\ c \in Lock!Actor /\ c \notin MutexThread
      /\ Lock!TypeOK'
  BY <1>1, SyncAssumption DEF Facts, Lock!TypeOK, Lock!ResumeCo, Lock!Goes, Lock!Place, Lock!Actor
<1>3. /\ \A b : b \in Wakers' <=> b \in Wakers
      /\ \A b \in Lock!Actor : lockPc'[b] = IF b = c THEN "holding" ELSE lockPc[b]
  BY <1>1, <1>2 DEF Facts, Lock!TypeOK, Wakers
<1>4. c \in Lock!Granted /\ (\A x : x \in Lock!Granted' <=> x \in Lock!Granted /\ x # c)
  BY <1>1, <1>2, <1>3, GrantedIs, GrantedNext DEF Facts, Handover
<1>5. Handover'
  BY <1>1, <1>2, <1>3 DEF Facts, Handover, Wakers
<1>6. Waiting'
  BY <1>1, <1>2, <1>3, <1>4, SyncAssumption, GrantedIs DEF Facts, Waiting, Lock!TypeOK, Wakers, Lock!Actor
<1>7. Lock!MutualExclusion'
  BY <1>1, <1>2, <1>3, <1>4 DEF Facts, Lock!MutualExclusion, Lock!Holders
<1>8. Accounted'
  <2>1. \A x : Times(wq', x) = Times(wq, x)
    BY <1>2
  <2>2. Sleepers' = Sleepers
    BY <1>2, <1>3 DEF Sleepers, Lock!Actor
  <2>3. \A d \in MutexCo : Times(wq', d) = IF lockPc'[d] = "queued" /\ d \notin Lock!Granted' THEN 1 ELSE 0
    <3> TAKE d \in MutexCo
    <3>1. Times(wq, d) = IF lockPc[d] = "queued" /\ d \notin Lock!Granted THEN 1 ELSE 0
      BY <1>1 DEF Facts, Accounted
    <3> QED
      BY <3>1, <2>1, <1>2, <1>3, <1>4 DEF Lock!Actor
  <2>4. Cardinality(Sleepers') = Times(wq', Null) + (IF lock' = 2 THEN 1 ELSE 0)
    BY <1>1, <1>2, <2>1, <2>2 DEF Facts, Accounted
  <2> QED
    BY <2>3, <2>4 DEF Accounted
<1>9. Reachable'
  BY <1>1, <1>2, <1>3 DEF Facts, Reachable, Lock!Actor
<1> QED
  BY <1>2, <1>5, <1>6, <1>7, <1>8, <1>9, FactsAre DEF Facts

LEMMA SpuriousWakeKeeps == ASSUME LockInv, NEW t \in MutexThread, Lock!SpuriousWake(t) PROVE LockInv'
<1>1. Facts
  BY FactsAre
<1>2. /\ lockPc[t] = "cv" /\ lockPc' = [lockPc EXCEPT ![t] = "woken"]
      /\ UNCHANGED <<lock, wq, lockReady, target>>
      /\ t \in Lock!Actor /\ t \notin MutexCo
      /\ Lock!TypeOK'
  BY <1>1, SyncAssumption DEF Facts, Lock!TypeOK, Lock!SpuriousWake, Lock!Goes, Lock!Place, Lock!Actor
<1>3. /\ \A b : b \in Wakers' <=> b \in Wakers
      /\ \A b \in Lock!Actor : lockPc'[b] = IF b = t THEN "woken" ELSE lockPc[b]
  BY <1>1, <1>2 DEF Facts, Lock!TypeOK, Wakers
<1>4. \A x : x \in Lock!Granted' <=> x \in Lock!Granted
  BY <1>1, <1>2, <1>3, SameGranted DEF Facts
<1>5. Handover'
  BY <1>1, <1>2, <1>3 DEF Facts, Handover
<1>6. Waiting'
  BY <1>1, <1>2, <1>3, <1>4 DEF Facts, Waiting
<1>7. Lock!MutualExclusion'
  BY <1>1, <1>2, <1>3, <1>4 DEF Facts, Lock!MutualExclusion, Lock!Holders
<1>8. Accounted'
  BY <1>1, <1>2, <1>3, <1>4, SameAccount DEF Facts, Lock!Actor
<1>9. Reachable'
  BY <1>1, <1>2, <1>3 DEF Facts, Reachable, Lock!Actor
<1> QED
  BY <1>2, <1>5, <1>6, <1>7, <1>8, <1>9, FactsAre DEF Facts

\* A lock that is on its way has no holder yet, so the thread that takes it is
\* the only one.
LEMMA ThreadWokenKeeps == ASSUME LockInv, NEW t \in MutexThread, Lock!ThreadWoken(t) PROVE LockInv'
<1> DEFINE p == IF lock = 2 THEN "holding" ELSE "cv"
<1>1. Facts
  BY FactsAre
<1>2. /\ lockPc[t] = "woken" /\ lockPc' = [lockPc EXCEPT ![t] = p]
      /\ lock' = IF lock = 2 THEN 1 ELSE lock
      /\ UNCHANGED <<wq, lockReady, target>>
      /\ t \in Lock!Actor /\ t \notin MutexCo
      /\ Lock!TypeOK'
  BY <1>1, SyncAssumption DEF Facts, Lock!TypeOK, Lock!ThreadWoken, Lock!Goes, Lock!Place, Lock!Actor
<1>3. /\ \A b : b \in Wakers' <=> b \in Wakers
      /\ \A b \in Lock!Actor : lockPc'[b] = IF b = t THEN p ELSE lockPc[b]
  BY <1>1, <1>2 DEF Facts, Lock!TypeOK, Wakers
<1>4. \A x : x \in Lock!Granted' <=> x \in Lock!Granted
  BY <1>1, <1>2, <1>3, SameGranted DEF Facts
<1>5. Handover'
  BY <1>1, <1>2, <1>3 DEF Facts, Handover
<1>6. Waiting'
  BY <1>1, <1>2, <1>3, <1>4 DEF Facts, Waiting
<1>7. Lock!MutualExclusion'
  <2>1. CASE lock = 2
    <3>1. Lock!Holders = {}
      BY <1>1, <2>1 DEF Facts, Lock!MutualExclusion
    <3>2. \A b : b \in Lock!Holders' <=> b = t
      BY <3>1, <2>1, <1>2, <1>3, <1>4 DEF Lock!Holders
    <3> QED
      BY <3>2, <2>1, <1>2 DEF Lock!MutualExclusion
  <2>2. CASE lock # 2
    BY <1>1, <1>2, <1>3, <1>4, <2>2 DEF Facts, Lock!MutualExclusion, Lock!Holders
  <2> QED
    BY <2>1, <2>2
<1>8. Accounted'
  <2>1. CASE lock = 2
    <3>1. t \in Sleepers /\ Sleepers' = Sleepers \ {t}
      BY <1>2, <1>3, <2>1 DEF Sleepers, Lock!Actor
    <3>2. Cardinality(Sleepers') = Cardinality(Sleepers) - 1
      BY <3>1, SleepersCount
    <3>3. \A d \in MutexCo : Times(wq', d) = IF lockPc'[d] = "queued" /\ d \notin Lock!Granted' THEN 1 ELSE 0
      BY <1>1, <1>2, <1>3, <1>4 DEF Facts, Accounted, Lock!Actor
    <3>4. Times(wq, Null) \in Nat
      BY <1>1, TimesType DEF Facts, Lock!TypeOK
    <3>5. Cardinality(Sleepers) = Times(wq, Null) + 1 /\ lock' = 1 /\ Times(wq', Null) = Times(wq, Null)
      BY <1>1, <1>2, <2>1 DEF Facts, Accounted
    <3>6. Cardinality(Sleepers') = Times(wq', Null) + (IF lock' = 2 THEN 1 ELSE 0)
      BY <3>2, <3>4, <3>5
    <3> QED
      BY <3>3, <3>6 DEF Accounted
  <2>2. CASE lock # 2
    BY <1>1, <1>2, <1>3, <1>4, <2>2, SameAccount DEF Facts, Lock!Actor
  <2> QED
    BY <2>1, <2>2
<1>9. Reachable'
  BY <1>1, <1>2 DEF Facts, Reachable
<1> QED
  BY <1>2, <1>5, <1>6, <1>7, <1>8, <1>9, FactsAre DEF Facts

\* Who unlocks is the only one that has the lock.
LEMMA OnlyHolder ==
    ASSUME Facts, NEW a \in Lock!Actor, lockPc[a] = "holding"
    PROVE  lock = 1 /\ Lock!Holders = {a} /\ Lock!Granted = {} /\ lockReady = {} /\ Wakers = {}
<1>1. a \in Lock!Holders /\ lock = 1 /\ \A b \in Lock!Holders : b = a
  BY DEF Facts, Lock!MutualExclusion, Lock!Holders
<1>2. Lock!Granted = {}
  BY <1>1 DEF Facts, Waiting, Lock!Holders
<1>3. lockReady = {} /\ Wakers = {}
  BY <1>2, GrantedIs DEF Facts
<1> QED
  BY <1>1, <1>2, <1>3

LEMMA UnlockKeeps == ASSUME LockInv, NEW a \in Lock!Actor, Lock!Unlock(a) PROVE LockInv'
<1>1. Facts
  BY FactsAre
<1>2. /\ lockPc[a] = "holding" /\ UNCHANGED lockReady
      /\ lock = 1 /\ Lock!Holders = {a} /\ Lock!Granted = {} /\ lockReady = {} /\ Wakers = {}
  BY <1>1, OnlyHolder DEF Lock!Unlock
<1>3. wq \in Seq(MutexCo \cup {Null}) /\ Null \notin MutexCo /\ Null \notin Lock!Actor
  BY <1>1, SyncAssumption DEF Facts, Lock!TypeOK, Lock!Actor
<1>4. /\ \A c \in MutexCo : Times(wq, c) = IF lockPc[c] = "queued" THEN 1 ELSE 0
      /\ Cardinality(Sleepers) = Times(wq, Null)
      /\ \A x : Times(wq, x) \in Nat
  BY <1>1, <1>2, <1>3, TimesType DEF Facts, Accounted
<1>5. CASE wq = <<>>
  <2>1. /\ lock' = 0 /\ lockPc' = [lockPc EXCEPT ![a] = "idle"]
        /\ UNCHANGED <<wq, target, lockReady>>
        /\ Lock!TypeOK'
    BY <1>1, <1>2, <1>5 DEF Lock!Unlock, Lock!Goes, Facts, Lock!TypeOK, Lock!Place
  <2>2. \A b \in Lock!Actor : lockPc'[b] = IF b = a THEN "idle" ELSE lockPc[b]
    BY <1>1, <2>1 DEF Facts, Lock!TypeOK
  <2>3. \A b : b \in Wakers' <=> b \in Wakers
    BY <1>2, <2>1, <2>2 DEF Wakers
  <2>4. \A x : x \in Lock!Granted' <=> x \in Lock!Granted
    BY <1>1, <2>1, <2>3, SameGranted DEF Facts
  <2>5. Handover'
    BY <1>1, <1>2, <2>1, <2>2, <2>3 DEF Facts, Handover
  <2>6. Waiting'
    BY <1>1, <1>2, <2>1, <2>2, <2>4 DEF Facts, Waiting
  <2>7. Lock!MutualExclusion'
    BY <1>2, <2>1, <2>2, <2>4 DEF Lock!MutualExclusion, Lock!Holders
  <2>8. Accounted'
    BY <1>1, <1>2, <2>1, <2>2, <2>4, SameAccount DEF Facts, Lock!Actor
  <2>9. Reachable'
    <3>1. \A x : Times(wq, x) = 0
      BY <1>5, TimesEmpty
    <3>2. \A c \in MutexCo : lockPc[c] # "queued"
      BY <1>4, <3>1
    <3>3. Sleepers = {}
      BY <1>4, <3>1, SleepersCount, FS_EmptySet
    <3>4. \A b \in Lock!Actor : lockPc[b] \notin {"queued", "cv", "woken"}
      BY <1>1, <3>2, <3>3 DEF Facts, Waiting, Sleepers
    <3> QED
      BY <2>1, <2>2, <3>4 DEF Reachable
  <2> QED
    BY <2>1, <2>5, <2>6, <2>7, <2>8, <2>9, FactsAre DEF Facts
<1>6. CASE wq # <<>>
  <2> DEFINE h == Head(wq)
  <2>1. /\ h \in MutexCo \cup {Null}
        /\ \A x : Times(wq, x) = Times(Tail(wq), x) + (IF h = x THEN 1 ELSE 0)
        /\ \A x : Times(Tail(wq), x) \in Nat
    <3>1. h \in MutexCo \cup {Null} /\ Tail(wq) \in Seq(MutexCo \cup {Null})
      BY <1>3, <1>6
    <3>2. \A x : Times(wq, x) = Times(Tail(wq), x) + (IF h = x THEN 1 ELSE 0)
      BY <1>3, <1>6, TimesTail
    <3>3. \A x : Times(Tail(wq), x) \in Nat
      BY <3>1, TimesType
    <3> QED
      BY <3>1, <3>2, <3>3
  <2>2. /\ lock' = (IF h = Null THEN 2 ELSE 1) /\ lockPc' = [lockPc EXCEPT ![a] = "wake"]
        /\ target' = [target EXCEPT ![a] = h] /\ UNCHANGED lockReady
        /\ Lock!TypeOK'
    <3>1. /\ lock' = (IF h = Null THEN 2 ELSE 1) /\ lockPc' = [lockPc EXCEPT ![a] = "wake"]
          /\ target' = [target EXCEPT ![a] = h] /\ wq' = Tail(wq) /\ UNCHANGED <<lockReady, locks>>
      BY <1>6 DEF Lock!Unlock, Lock!Goes
    <3>2. wq' \in Seq(MutexCo \cup {Null})
      BY <3>1, <1>3, <1>6
    <3> HIDE DEF h
    <3> QED
      BY <1>1, <2>1, <3>1, <3>2 DEF Facts, Lock!TypeOK, Lock!Place
  <2>3. \A x : Times(wq', x) = Times(Tail(wq), x)
    BY <1>6 DEF Lock!Unlock
  <2> HIDE DEF h
  <2>4. /\ \A b \in Lock!Actor : lockPc'[b] = IF b = a THEN "wake" ELSE lockPc[b]
        /\ \A b \in Lock!Actor : target'[b] = IF b = a THEN h ELSE target[b]
    BY <1>1, <2>2 DEF Facts, Lock!TypeOK
  <2>5. \A b : b \in Wakers' <=> b = a /\ h # Null
    BY <1>2, <2>4 DEF Wakers
  <2>6. \A x : x \in Lock!Granted' <=> x = h /\ h # Null
    BY <1>2, <2>2, <2>4, <2>5, GrantedNext
  <2>7. h # Null => h \in MutexCo /\ lockPc[h] = "queued" /\ h # a
    BY <1>2, <1>4, <2>1
  <2>8. Handover'
    BY <1>1, <1>2, <2>2, <2>4, <2>5 DEF Facts, Handover
  <2>9. Waiting'
    BY <1>1, <2>4, <2>6, <2>7 DEF Facts, Waiting, Lock!Actor
  <2>10. Lock!MutualExclusion'
    <3>1. \A b \in Lock!Actor : lockPc'[b] # "holding"
      BY <1>2, <2>4 DEF Lock!Holders
    <3> QED
      BY <3>1, <2>2, <2>6 DEF Lock!MutualExclusion, Lock!Holders
  <2>11. Accounted'
    <3>1. Sleepers' = Sleepers
      BY <1>2, <2>4 DEF Sleepers, Lock!Actor
    <3>2. \A d \in MutexCo : Times(wq', d) = IF lockPc'[d] = "queued" /\ d \notin Lock!Granted' THEN 1 ELSE 0
      <4> TAKE d \in MutexCo
      <4>1. lockPc'[d] = "queued" <=> lockPc[d] = "queued"
        BY <1>2, <2>4 DEF Lock!Actor
      <4>2. Times(Tail(wq), d) = (IF lockPc[d] = "queued" THEN 1 ELSE 0) - (IF h = d THEN 1 ELSE 0)
        BY <1>4, <2>1
      <4>3. h = d => h # Null /\ lockPc[d] = "queued"
        BY <1>3, <2>7
      <4> QED
        BY <2>3, <2>6, <4>1, <4>2, <4>3
    <3>3. Cardinality(Sleepers') = Times(wq', Null) + (IF lock' = 2 THEN 1 ELSE 0)
      BY <1>4, <2>1, <2>2, <2>3, <3>1
    <3> QED
      BY <3>2, <3>3 DEF Accounted
  <2>12. Reachable'
    BY <2>2, <2>4 DEF Reachable
  <2> QED
    BY <2>2, <2>8, <2>9, <2>10, <2>11, <2>12, FactsAre DEF Facts
<1> QED
  BY <1>5, <1>6

\* add_ready_task passes the coroutine on from unlock() to the ready tasks.
LEMMA WakeCoKeeps ==
    ASSUME LockInv, NEW a \in Lock!Actor, Lock!Wake(a), target[a] # Null
    PROVE  LockInv'
<1> DEFINE c == target[a]
<1>1. Facts
  BY FactsAre
<1>2. /\ lockPc[a] = "wake" /\ lockPc' = [lockPc EXCEPT ![a] = "idle"]
      /\ target' = [target EXCEPT ![a] = Null] /\ lockReady' = lockReady \cup {c}
      /\ UNCHANGED <<lock, wq>>
      /\ a \in Wakers /\ c \in MutexCo
      /\ Lock!TypeOK'
  BY <1>1, SyncAssumption DEF Facts, Lock!TypeOK, Lock!Wake, Lock!Goes, Lock!Place, Wakers
<1> HIDE DEF c
<1>3. /\ \A b \in Lock!Actor : lockPc'[b] = IF b = a THEN "idle" ELSE lockPc[b]
      /\ \A b \in Lock!Actor : target'[b] = IF b = a THEN Null ELSE target[b]
  BY <1>1, <1>2 DEF Facts, Lock!TypeOK
<1>4. \A b : b \in Wakers' <=> b \in Wakers /\ b # a
  BY <1>3 DEF Wakers
<1>5. \A x : x \in Lock!Granted' <=> x \in Lock!Granted
  <2>1. \A b \in Wakers' : b \in Lock!Actor /\ target'[b] = target[b]
    BY <1>3, <1>4 DEF Wakers
  <2> QED
    BY <1>1, <1>2, <1>4, <2>1, GrantedIs, GrantedNext DEF Facts, c
<1>6. Handover'
  <2>1. \A b \in Wakers' : b \in Wakers /\ b # a /\ target'[b] = target[b]
    BY <1>3, <1>4 DEF Wakers
  <2>2. \A b \in Wakers' : target'[b] # c
    BY <1>1, <1>2, <2>1 DEF Facts, Handover, c
  <2> QED
    BY <1>1, <1>2, <1>3, <2>1, <2>2 DEF Facts, Handover
<1>7. Waiting'
  BY <1>1, <1>2, <1>3, <1>5 DEF Facts, Waiting
<1>8. Lock!MutualExclusion'
  BY <1>1, <1>2, <1>3, <1>5 DEF Facts, Lock!MutualExclusion, Lock!Holders
<1>9. Accounted'
  BY <1>1, <1>2, <1>3, <1>5, SameAccount DEF Facts, Lock!Actor
<1>10. Reachable'
  BY <1>1, <1>2, <1>3 DEF Facts, Reachable, Lock!Actor, c
<1> QED
  BY <1>2, <1>6, <1>7, <1>8, <1>9, <1>10, FactsAre DEF Facts

\* cv_notify_one: when no thread is in the condition variable, one that has
\* left it takes the lock that is on its way, for one more thread waits than
\* the queue has null entries.
LEMMA WakeThreadKeeps ==
    ASSUME LockInv, NEW a \in Lock!Actor, Lock!Wake(a), target[a] = Null
    PROVE  LockInv'
<1>1. Facts
  BY FactsAre
<1>2. /\ lockPc[a] = "wake" /\ target' = [target EXCEPT ![a] = Null]
      /\ UNCHANGED <<lock, wq, lockReady, locks>>
  BY DEF Lock!Wake
<1>3. PICK S \in SUBSET MutexThread :
         /\ \A t \in S : lockPc[t] = "cv"
         /\ S = {} => \A t \in MutexThread : lockPc[t] # "cv"
         /\ lockPc' = [b \in Lock!Actor |-> IF b = a THEN "idle" ELSE IF b \in S THEN "woken" ELSE lockPc[b]]
  <2>1. CASE \E t \in MutexThread : lockPc[t] = "cv"
    <3>1. PICK t \in MutexThread : lockPc[t] = "cv" /\ lockPc' = [lockPc EXCEPT ![a] = "idle", ![t] = "woken"]
      BY <2>1 DEF Lock!Wake
    <3>2. lockPc' = [b \in Lock!Actor |-> IF b = a THEN "idle" ELSE IF b \in {t} THEN "woken" ELSE lockPc[b]]
      BY <1>1, <1>2, <3>1 DEF Facts, Lock!TypeOK, Lock!Actor
    <3> QED
      BY <3>1, <3>2
  <2>2. CASE ~ \E t \in MutexThread : lockPc[t] = "cv"
    <3>1. lockPc' = [lockPc EXCEPT ![a] = "idle"]
      BY <2>2 DEF Lock!Wake, Lock!Goes
    <3>2. lockPc' = [b \in Lock!Actor |-> IF b = a THEN "idle" ELSE IF b \in {} THEN "woken" ELSE lockPc[b]]
      BY <1>1, <3>1 DEF Facts, Lock!TypeOK
    <3> WITNESS {} \in SUBSET MutexThread
    <3> QED
      BY <2>2, <3>2
  <2> QED
    BY <2>1, <2>2
<1>4. Lock!TypeOK'
  BY <1>1, <1>2, <1>3 DEF Facts, Lock!TypeOK, Lock!Place
<1>5. /\ \A b \in Lock!Actor : lockPc'[b] = IF b = a THEN "idle" ELSE IF b \in S THEN "woken" ELSE lockPc[b]
      /\ \A b \in Lock!Actor : target'[b] = target[b]
      /\ a \notin S
  BY <1>1, <1>2, <1>3 DEF Facts, Lock!TypeOK
<1>6. S \subseteq Lock!Actor /\ S \cap MutexCo = {}
  BY <1>3, SyncAssumption DEF Lock!Actor
<1>7. \A b : b \in Wakers' <=> b \in Wakers
  BY <1>3, <1>5 DEF Wakers
<1>8. \A x : x \in Lock!Granted' <=> x \in Lock!Granted
  <2>1. \A b \in Wakers : target'[b] = target[b]
    BY <1>5 DEF Wakers
  <2> QED
    BY <1>1, <1>2, <1>4, <1>7, <2>1, SameGranted DEF Facts
<1>9. Handover'
  <2>1. \A b \in Wakers' : b \in Wakers /\ target'[b] = target[b]
    BY <1>5, <1>7 DEF Wakers
  <2>2. \A b \in Lock!Actor : lockPc'[b] # "wake" => target'[b] = Null
    BY <1>1, <1>3, <1>5 DEF Facts, Handover
  <2> QED
    BY <1>1, <1>2, <2>1, <2>2 DEF Facts, Handover
<1>10. Waiting'
  <2>1. \A c \in Lock!Granted : c \in Lock!Actor
    BY <1>1, SyncAssumption DEF Facts, Lock!TypeOK, Lock!Granted, Lock!Actor
  <2>2. \A c \in Lock!Granted : lockPc'[c] = "queued"
    BY <1>1, <1>2, <1>3, <1>5, <2>1 DEF Facts, Waiting
  <2> QED
    BY <1>1, <1>3, <1>5, <1>8, <2>2 DEF Facts, Waiting
<1>11. Lock!MutualExclusion'
  BY <1>1, <1>2, <1>3, <1>5, <1>8 DEF Facts, Lock!MutualExclusion, Lock!Holders
<1>12. Accounted'
  BY <1>1, <1>2, <1>3, <1>5, <1>6, <1>8, SameAccount DEF Facts, Lock!Actor
<1>13. Reachable'
  <2>1. CASE lock = 0
    BY <1>1, <1>2, <1>3, <1>5, <1>6, <2>1 DEF Facts, Reachable
  <2>2. CASE lock = 2
    <3>1. CASE S # {}
      BY <1>2, <1>5, <1>6, <1>3, <2>2, <3>1 DEF Reachable
    <3>2. CASE S = {}
      <4>1. Cardinality(Sleepers) = Times(wq, Null) + 1 /\ Times(wq, Null) \in Nat
        BY <1>1, <2>2, TimesType DEF Facts, Accounted, Lock!TypeOK
      <4>2. Sleepers # {}
        BY <4>1, FS_EmptySet
      <4>3. \E t \in MutexThread : lockPc[t] = "woken"
        BY <4>2, <1>3, <3>2 DEF Sleepers
      <4> QED
        BY <4>3, <1>2, <1>5, <3>2, <2>2 DEF Reachable, Lock!Actor
    <3> QED
      BY <3>1, <3>2
  <2>3. CASE lock = 1
    BY <1>2, <2>3 DEF Reachable
  <2> QED
    BY <1>1, <2>1, <2>2, <2>3 DEF Facts, Lock!TypeOK
<1> QED
  BY <1>4, <1>9, <1>10, <1>11, <1>12, <1>13, FactsAre DEF Facts

LEMMA LockInvStart == Lock!Init => LockInv
<1> SUFFICES ASSUME Lock!Init PROVE LockInv
  OBVIOUS
<1>1. Lock!TypeOK
  BY SyncAssumption DEF Lock!Init, Lock!TypeOK, Lock!Place
<1>2. \A x : x \notin Lock!Granted
  BY DEF Lock!Init, Lock!Granted
<1>3. Handover /\ Waiting
  BY <1>2 DEF Lock!Init, Handover, Waiting, Wakers
<1>4. Lock!MutualExclusion
  BY <1>2 DEF Lock!Init, Lock!MutualExclusion, Lock!Holders
<1>5. Accounted /\ Reachable
  <2>1. \A x : Times(wq, x) = 0
    BY TimesEmpty DEF Lock!Init
  <2>2. Cardinality(Sleepers) = 0
    <3>1. Sleepers = {}
      BY DEF Lock!Init, Sleepers, Lock!Actor
    <3> QED
      BY <3>1, FS_EmptySet
  <2> QED
    BY <2>1, <2>2 DEF Accounted, Reachable, Lock!Init, Lock!Actor
<1> QED
  BY <1>1, <1>3, <1>4, <1>5, FactsAre DEF Facts

LEMMA LockInvNext == LockInv /\ Lock!Next => LockInv'
<1> SUFFICES ASSUME LockInv, Lock!Next PROVE LockInv'
  OBVIOUS
<1>1. ASSUME NEW a \in Lock!Actor, Lock!AcquireFree(a) \/ Lock!Unlock(a) PROVE LockInv'
  BY <1>1, AcquireFreeKeeps, UnlockKeeps
<1>2. ASSUME NEW a \in Lock!Actor, Lock!Wake(a) PROVE LockInv'
  BY <1>2, WakeCoKeeps, WakeThreadKeeps
<1>3. ASSUME NEW c \in MutexCo, Lock!CoStep(c) PROVE LockInv'
  BY <1>3, LockCoKeeps, ResumeCoKeeps DEF Lock!CoStep
<1>4. ASSUME NEW t \in MutexThread, Lock!ThreadStep(t) PROVE LockInv'
  BY <1>4, LockThreadKeeps, ThreadWokenKeeps, SpuriousWakeKeeps DEF Lock!ThreadStep
<1> QED
  BY <1>1, <1>2, <1>3, <1>4 DEF Lock!Next

LEMMA LockInvStutters == LockInv /\ UNCHANGED mutexVars => LockInv'
<1> SUFFICES ASSUME LockInv, UNCHANGED mutexVars PROVE LockInv'
  OBVIOUS
<1>1. UNCHANGED <<lock, wq, lockReady, lockPc, target, locks>>
  BY DEF mutexVars
<1>2. Facts
  BY FactsAre
<1>3. \A b : b \in Wakers' <=> b \in Wakers
  BY <1>1 DEF Wakers
<1>4. Lock!TypeOK'
  BY <1>1, <1>2 DEF Facts, Lock!TypeOK
<1>5. \A x : x \in Lock!Granted' <=> x \in Lock!Granted
  BY <1>1, <1>2, <1>3, <1>4, SameGranted DEF Facts
<1>6. Handover' /\ Waiting'
  BY <1>1, <1>2, <1>3, <1>5 DEF Facts, Handover, Waiting
<1>7. Lock!MutualExclusion'
  BY <1>1, <1>2, <1>5 DEF Facts, Lock!MutualExclusion, Lock!Holders
<1>8. Accounted'
  BY <1>1, <1>2, <1>5, SameAccount DEF Facts
<1>9. Reachable'
  BY <1>1, <1>2 DEF Facts, Reachable
<1> QED
  BY <1>4, <1>6, <1>7, <1>8, <1>9, FactsAre DEF Facts

LEMMA LockInvAlways == AllSpec => []LockInv
<1>1. AllInit => LockInv
  BY LockInvStart DEF AllInit
<1>2. LockInv /\ [AllNext]_<<which, eventVars, groupVars, mutexVars>> => LockInv'
  <2> SUFFICES ASSUME LockInv, [AllNext]_<<which, eventVars, groupVars, mutexVars>>
               PROVE  LockInv'
    OBVIOUS
  <2>1. Lock!Next \/ UNCHANGED mutexVars
    BY DEF AllNext
  <2> QED
    BY <2>1, LockInvNext, LockInvStutters
<1> QED
  BY <1>1, <1>2, PTL DEF AllSpec

\* One coroutine or thread has the mutex, the one it is being handed to
\* included, and every waiter is in the queue once or on its way to the lock.
THEOREM TheLockIsHandedOver == AllSpec => []LockHandedOver
<1>1. LockInv => LockHandedOver
  BY DEF LockInv, LockHandedOver
<1> QED
  BY <1>1, LockInvAlways, PTL

-----------------------------------------------------------------------------
\* Only unlock() gives the lock to a coroutine that did not have it yet, and to
\* the first of the queue.
LEMMA OnlyTheFirst ==
    ASSUME LockInv, LockInv', Lock!Next, NEW d \in MutexCo, d \notin Lock!Granted, d \in Lock!Granted'
    PROVE  wq # <<>> /\ d = Head(wq)
<1>1. Lock!TypeOK /\ Lock!TypeOK' /\ d \notin lockReady /\ (\A a \in Wakers : target[a] # d)
  BY GrantedIs DEF LockInv
<1>2. d \in lockReady' \/ \E a \in Lock!Actor : lockPc'[a] = "wake" /\ target'[a] = d
  BY <1>1, GrantedNext DEF Wakers
<1>3. \A a \in Lock!Actor : lockPc[a] = "wake" => target[a] # d
  BY <1>1, SyncAssumption DEF Wakers
<1>4. ASSUME NEW a \in Lock!Actor, Lock!AcquireFree(a) PROVE FALSE
  BY <1>1, <1>2, <1>3, <1>4 DEF Lock!AcquireFree, Lock!Calls, Lock!Goes, Lock!TypeOK
<1>5. ASSUME NEW a \in Lock!Actor, Lock!Unlock(a) PROVE wq # <<>> /\ d = Head(wq)
  BY <1>1, <1>2, <1>3, <1>5 DEF Lock!Unlock, Lock!Goes, Lock!TypeOK
<1>6. ASSUME NEW a \in Lock!Actor, Lock!Wake(a) PROVE FALSE
  <2>1. lockReady' = lockReady \/ lockReady' = lockReady \cup {target[a]}
    BY <1>6 DEF Lock!Wake
  <2>2. lockPc[a] = "wake" /\ target' = [target EXCEPT ![a] = Null] /\ d # Null
    BY <1>6, SyncAssumption DEF Lock!Wake
  <2>3. \A b \in Lock!Actor : lockPc'[b] = "wake" => lockPc[b] = "wake"
    <3>1. \/ lockPc' = [lockPc EXCEPT ![a] = "idle"]
          \/ \E t \in MutexThread : lockPc' = [lockPc EXCEPT ![a] = "idle", ![t] = "woken"]
      BY <1>6 DEF Lock!Wake, Lock!Goes
    <3> QED
      BY <3>1, <1>1 DEF Lock!TypeOK, Lock!Actor
  <2> QED
    BY <1>1, <1>2, <1>3, <2>1, <2>2, <2>3 DEF Lock!TypeOK
<1>7. ASSUME NEW c \in MutexCo, Lock!CoStep(c) PROVE FALSE
  BY <1>1, <1>2, <1>3, <1>7
  DEF Lock!CoStep, Lock!LockCo, Lock!ResumeCo, Lock!Calls, Lock!Goes, Lock!TypeOK, Lock!Actor
<1>8. ASSUME NEW t \in MutexThread, Lock!ThreadStep(t) PROVE FALSE
  <2>1. UNCHANGED <<lockReady, target>>
    BY <1>8 DEF Lock!ThreadStep, Lock!LockThread, Lock!ThreadWoken, Lock!SpuriousWake, Lock!Calls
  <2>2. \A b \in Lock!Actor : lockPc'[b] = "wake" => lockPc[b] = "wake"
    BY <1>1, <1>8 DEF Lock!ThreadStep, Lock!LockThread, Lock!ThreadWoken, Lock!SpuriousWake, Lock!Calls,
                      Lock!Goes, Lock!TypeOK
  <2> QED
    BY <1>1, <1>2, <1>3, <2>1, <2>2
<1> QED
  BY <1>4, <1>5, <1>6, <1>7, <1>8 DEF Lock!Next

\* Coroutines get the mutex in the order in which they queued: who is the first
\* of the queue is there once, so nobody is before it.
THEOREM TheQueueIsFair == AllSpec => Lock!CoroutinesInOrder
<1>1. LockInv /\ LockInv' /\ [AllNext]_<<which, eventVars, groupVars, mutexVars>>
      => [\A c, d \in MutexCo : Lock!Overtakes(c, d) => ~(d \in Lock!Granted' /\ c \notin Lock!Granted')]_(Lock!vars)
  <2>1. ASSUME LockInv, LockInv', Lock!Next, NEW c \in MutexCo, NEW d \in MutexCo,
               Lock!Overtakes(c, d), d \in Lock!Granted'
        PROVE  FALSE
    <3>1. wq \in Seq(MutexCo \cup {Null}) /\ Accounted
      BY <2>1, FactsAre DEF Facts, Lock!TypeOK
    <3>2. PICK i, j \in 1..Len(wq) : i < j /\ wq[i] = c /\ wq[j] = d
      BY <2>1 DEF Lock!Overtakes
    <3>3. Times(wq, d) # 0
      BY <3>1, <3>2, TimesType
    <3>4. Times(wq, d) = 1 /\ d \notin Lock!Granted
      BY <3>1, <3>3 DEF Accounted
    <3>5. wq # <<>> /\ d = Head(wq)
      BY <2>1, <3>4, OnlyTheFirst
    <3>6. Times(wq, d) = Times(Tail(wq), d) + 1
      BY <3>1, <3>5, TimesTail
    <3>7. Tail(wq) \in Seq(MutexCo \cup {Null}) /\ j - 1 \in 1..Len(Tail(wq)) /\ Tail(wq)[j - 1] = d
      BY <3>1, <3>2, <3>5
    <3>8. Times(Tail(wq), d) \in Nat /\ Times(Tail(wq), d) # 0
      BY <3>7, TimesType
    <3> QED
      BY <3>4, <3>6, <3>8
  <2>2. ASSUME LockInv, LockInv', [AllNext]_<<which, eventVars, groupVars, mutexVars>>
        PROVE  Lock!Next \/ UNCHANGED Lock!vars
    BY <2>2 DEF AllNext, Lock!vars, mutexVars
  <2>3. ASSUME LockInv, LockInv', Lock!Next
        PROVE  \A c, d \in MutexCo : Lock!Overtakes(c, d) => ~(d \in Lock!Granted' /\ c \notin Lock!Granted')
    BY <2>1, <2>3
  <2> QED
    BY <2>2, <2>3
<1> QED
  BY <1>1, LockInvAlways, PTL DEF AllSpec, Lock!CoroutinesInOrder

-----------------------------------------------------------------------------
\* The threads _wt counts: a wait that expired and was notified after it began
\* is no longer one of them.
Counted == {t \in Thread : pc[t] \in {"cv", "expired"} /\ snT[t] = sn}

\* The event of the threads: what is there for coroutines is empty, and _wt is
\* at least the number of threads it counts, so that it never gets negative.
\* (It may be more: a thread that wakes for no reason does not take itself out.)
ThreadsInv ==
    /\ wc = <<>> /\ rest = [s \in Signaler |-> <<>>]
    /\ wst = [w \in {} |-> "free"] /\ ready = [c \in {} |-> 0]
    /\ pc \in [Thread -> {"idle", "cv", "notified", "expired"}]
    /\ snT \in [Thread -> Nat] /\ sn \in Nat /\ wt \in Nat
    /\ \A t \in Thread : snT[t] <= sn
    /\ Cardinality(Counted) <= wt

LEMMA CountedCount ==
    /\ IsFiniteSet(Counted) /\ Cardinality(Counted) \in Nat
    /\ IsFiniteSet(Counted') /\ Cardinality(Counted') \in Nat
    /\ \A t : t \notin Counted => Cardinality(Counted \cup {t}) = Cardinality(Counted) + 1
    /\ \A t \in Counted : Cardinality(Counted \ {t}) = Cardinality(Counted) - 1
<1>1. Counted \in SUBSET Thread /\ Counted' \in SUBSET Thread
  BY DEF Counted
<1>2. IsFiniteSet(Counted) /\ IsFiniteSet(Counted')
  BY <1>1, SyncAssumption, FS_Subset
<1> QED
  BY <1>2, FS_CardinalityType, FS_AddElement, FS_RemoveElement

LEMMA ThreadsStart == AllInit /\ which = "sync_event" => ThreadsEv!Init /\ ThreadsInv
<1> SUFFICES ASSUME AllInit, which = "sync_event" PROVE ThreadsEv!Init /\ ThreadsInv
  OBVIOUS
<1>1. ThreadsEv!Init
  BY DEF AllInit
<1>2. Counted = {}
  BY <1>1 DEF ThreadsEv!Init, ThreadsEv!Waiter, Counted
<1>3. Cardinality(Counted) = 0
  BY <1>2, FS_EmptySet
<1> QED
  BY <1>1, <1>3 DEF ThreadsEv!Init, ThreadsEv!Waiter, ThreadsInv

\* What the event for threads leaves alone.
CoroutinesApart == UNCHANGED <<wc, wst, wco, coWx, ready, rest>>

LEMMA WaitIsWait ==
    ASSUME ThreadsInv, CoroutinesApart, NEW t \in Thread, Threads!Wait(t)
    PROVE  ThreadsInv' /\ ThreadsEv!Step(t)
<1> USE DEF CoroutinesApart
<1>1. ThreadsEv!Waiter = Thread
  BY DEF ThreadsEv!Waiter
<1>2. CASE signaled
  <2>1. ThreadsEv!WaitSignaled(t)
    BY <1>2 DEF Threads!Wait, Threads!Returns, ThreadsEv!WaitSignaled, ThreadsEv!Begin, ThreadsEv!Returns
  <2>2. Counted' = Counted
    BY <1>2 DEF Threads!Wait, Threads!Returns, Counted, ThreadsInv
  <2>3. ThreadsInv'
    BY <1>2, <2>2 DEF Threads!Wait, Threads!Returns, ThreadsInv
  <2> QED
    BY <2>1, <2>3 DEF ThreadsEv!Step
<1>3. CASE ~signaled /\ wt' = wt
  <2>1. ThreadsEv!WaitZero(t)
    BY <1>3 DEF Threads!Wait, Threads!Returns, ThreadsEv!WaitZero, ThreadsEv!Begin, ThreadsEv!Returns, ThreadsInv
  <2>2. Counted' = Counted
    BY <1>3 DEF Threads!Wait, Threads!Returns, Counted, ThreadsInv
  <2>3. ThreadsInv'
    BY <1>3, <2>2 DEF Threads!Wait, Threads!Returns, ThreadsInv
  <2> QED
    BY <2>1, <2>3 DEF ThreadsEv!Step
<1>4. CASE ~signaled /\ wt' # wt
  <2>1. ThreadsEv!WaitThread(t)
    BY <1>4 DEF Threads!Wait, ThreadsEv!WaitThread, ThreadsEv!Begin, ThreadsEv!Blocks
  <2>2. t \notin Counted /\ Counted' = Counted \cup {t}
    BY <1>4 DEF Threads!Wait, Counted, ThreadsInv
  <2>3. Cardinality(Counted') = Cardinality(Counted) + 1 /\ Cardinality(Counted) \in Nat
    BY <2>2, CountedCount
  <2>4. wt' = wt + 1 /\ UNCHANGED sn
    BY <1>4 DEF Threads!Wait
  <2>5. Cardinality(Counted') <= wt' /\ wt' \in Nat
    BY <2>3, <2>4 DEF ThreadsInv
  <2>6. /\ pc' \in [Thread -> {"idle", "cv", "notified", "expired"}]
        /\ snT' \in [Thread -> Nat] /\ \A r \in Thread : snT'[r] <= sn'
    <3>1. pc' = [pc EXCEPT ![t] = "cv"] /\ snT' = [snT EXCEPT ![t] = sn] /\ UNCHANGED sn
      BY <1>4 DEF Threads!Wait
    <3> QED
      BY <3>1 DEF ThreadsInv
  <2>7. ThreadsInv'
    BY <2>4, <2>5, <2>6 DEF ThreadsInv
  <2> QED
    BY <2>1, <2>7 DEF ThreadsEv!Step
<1> QED
  BY <1>2, <1>3, <1>4 DEF Threads!Wait

LEMMA LeaveIsLeave ==
    ASSUME ThreadsInv, CoroutinesApart, NEW t \in Thread, Threads!Leave(t)
    PROVE  ThreadsInv' /\ ThreadsEv!Step(t)
<1> USE DEF CoroutinesApart
<1>1. ThreadsEv!Leave(t)
  BY DEF Threads!Leave, ThreadsEv!Leave
<1>2. Counted' \in SUBSET Counted
  BY DEF Threads!Leave, ThreadsInv, Counted
<1>3. Cardinality(Counted') <= Cardinality(Counted)
  BY <1>2, CountedCount, FS_Subset
<1>4. Cardinality(Counted') <= wt' /\ UNCHANGED <<wt, sn, snT>>
  BY <1>3, CountedCount DEF Threads!Leave, ThreadsInv
<1>5. pc' \in [Thread -> {"idle", "cv", "notified", "expired"}]
  BY DEF Threads!Leave, ThreadsInv
<1>6. ThreadsInv'
  BY <1>4, <1>5 DEF ThreadsInv
<1> QED
  BY <1>1, <1>6 DEF ThreadsEv!Step

LEMMA LeftIsNotifiedOrExpired ==
    ASSUME ThreadsInv, CoroutinesApart, NEW t \in Thread, Threads!Left(t)
    PROVE  ThreadsInv' /\ ThreadsEv!Step(t)
<1> USE DEF CoroutinesApart
<1>1. ThreadsEv!ThreadNotified(t) \/ ThreadsEv!ThreadExpired(t)
  BY DEF Threads!Left, Threads!Returns, ThreadsEv!ThreadNotified, ThreadsEv!ThreadExpired, ThreadsEv!Returns
<1>2. /\ pc' \in [Thread -> {"idle", "cv", "notified", "expired"}]
      /\ UNCHANGED <<sn, snT>>
      /\ Counted' = Counted \ {t}
  BY DEF Threads!Left, Threads!Returns, ThreadsInv, Counted
<1>3. wt' \in Nat /\ Cardinality(Counted') <= wt'
  <2>1. CASE t \in Counted /\ pc[t] = "expired"
    <3>1. Cardinality(Counted') = Cardinality(Counted) - 1
      BY <1>2, <2>1, CountedCount
    <3>2. wt' = wt - 1
      BY <2>1 DEF Threads!Left, Counted
    <3> QED
      BY <3>1, <3>2, CountedCount DEF ThreadsInv
  <2>2. CASE t \notin Counted \/ pc[t] # "expired"
    <3>1. t \notin Counted
      BY <2>2 DEF Threads!Left, Counted
    <3>2. Counted' = Counted
      BY <1>2, <3>1
    <3>3. wt' = wt
      BY <2>2 DEF Threads!Left, Counted
    <3> QED
      BY <3>2, <3>3 DEF ThreadsInv
  <2> QED
    BY <2>1, <2>2
<1>4. ThreadsInv'
  BY <1>2, <1>3 DEF ThreadsInv
<1> QED
  BY <1>1, <1>4 DEF ThreadsEv!Step

LEMMA SignalIsSignal ==
    ASSUME ThreadsInv, CoroutinesApart, NEW s \in Signaler, Threads!Signal(s)
    PROVE  ThreadsInv' /\ ThreadsEv!Signal(s)
<1> USE DEF CoroutinesApart
<1>1. ThreadsEv!Waiter = Thread /\ rest[s] = <<>> /\ wc' = <<>>
  BY DEF ThreadsEv!Waiter, ThreadsInv
<1>2. ThreadsEv!InSection(s)
  BY <1>1 DEF Threads!Signal, Threads!Calls, ThreadsEv!InSection
<1>3. CASE wt > 0
  <2>1. rest' = [rest EXCEPT ![s] = wc]
    BY DEF ThreadsInv
  <2>2. ThreadsEv!NotifyThreads(s)
    BY <1>1, <1>3, <2>1 DEF Threads!Signal, ThreadsEv!NotifyThreads
  <2>3. /\ wt' = 0 /\ sn' = sn + 1 /\ UNCHANGED snT
        /\ pc' \in [Thread -> {"idle", "cv", "notified", "expired"}]
    BY <1>3 DEF Threads!Signal, ThreadsInv
  <2>4. Counted' = {}
    BY <2>3 DEF ThreadsInv, Counted
  <2>5. Cardinality(Counted') = 0
    BY <2>4, FS_EmptySet
  <2>6. ThreadsInv'
    BY <2>3, <2>5 DEF ThreadsInv
  <2> QED
    BY <1>1, <1>2, <2>2, <2>6 DEF Threads!Signal, ThreadsEv!Signal
<1>4. CASE ~(wt > 0)
  <2>1. ThreadsEv!FirstLive = 0 /\ wt = 0
    BY <1>4 DEF ThreadsInv, ThreadsEv!FirstLive
  <2>2. ThreadsEv!MarkSignaled(s)
    BY <1>4, <2>1 DEF Threads!Signal, ThreadsEv!MarkSignaled, ThreadsInv
  <2>3. Counted' = Counted
    BY <1>4 DEF Threads!Signal, Counted
  <2>4. ThreadsInv'
    BY <1>4, <2>3 DEF Threads!Signal, ThreadsInv
  <2> QED
    BY <1>1, <1>2, <2>2, <2>4 DEF Threads!Signal, ThreadsEv!Signal
<1> QED
  BY <1>3, <1>4

LEMMA ResetIsReset ==
    ASSUME ThreadsInv, CoroutinesApart, NEW s \in Signaler, Threads!Reset(s)
    PROVE  ThreadsInv' /\ ThreadsEv!Reset(s)
<1> USE DEF CoroutinesApart
<1>1. ThreadsEv!Reset(s)
  BY DEF Threads!Reset, Threads!Calls, ThreadsInv, ThreadsEv!Reset, ThreadsEv!InSection
<1>2. Counted' = Counted
  BY DEF Threads!Reset, Counted
<1> QED
  BY <1>1, <1>2 DEF Threads!Reset, ThreadsInv

\* The event for threads implements the event: it starts as one, and each of
\* its steps is a step of it.
THEOREM SyncEventIsEvent == AllSpec => ImplementsEvent
<1> DEFINE Inv == which = "sync_event" => ThreadsInv
           allVars == <<which, eventVars, groupVars, mutexVars>>
<1>1. AllInit => Inv /\ (which = "sync_event" => ThreadsEv!Init)
  BY ThreadsStart
<1>2. ASSUME Inv, [AllNext]_allVars, which' = "sync_event"
      PROVE  ThreadsInv' /\ (ThreadsEv!Next \/ UNCHANGED eventVars)
  <2>1. which = "sync_event" /\ ThreadsInv
    BY <1>2 DEF AllNext
  <2>2. CASE Threads!SyncNext /\ CoroutinesApart
    <3>1. ASSUME NEW t \in Thread, Threads!Wait(t) \/ Threads!Leave(t) \/ Threads!Left(t)
          PROVE  ThreadsInv' /\ ThreadsEv!Next
      BY <2>1, <2>2, <3>1, WaitIsWait, LeaveIsLeave, LeftIsNotifiedOrExpired
      DEF ThreadsEv!Next, ThreadsEv!Waiter
    <3>2. ASSUME NEW s \in Signaler, Threads!Signal(s) \/ Threads!Reset(s)
          PROVE  ThreadsInv' /\ ThreadsEv!Next
      BY <2>1, <2>2, <3>2, SignalIsSignal, ResetIsReset DEF ThreadsEv!Next
    <3> QED
      BY <2>2, <3>1, <3>2 DEF Threads!SyncNext
  <2>3. CASE UNCHANGED eventVars
    <3>1. Counted' = Counted
      BY <2>3 DEF eventVars, Counted
    <3> QED
      BY <2>1, <2>3, <3>1 DEF eventVars, ThreadsInv
  <2> QED
    BY <1>2, <2>1, <2>2, <2>3 DEF AllNext, CoroutinesApart
<1>3. Inv /\ [AllNext]_allVars => Inv'
  BY <1>2
<1>4. Inv /\ [AllNext]_allVars => [which = "sync_event" => ThreadsEv!Next]_eventVars
  BY <1>2 DEF AllNext
<1> QED
  BY <1>1, <1>3, <1>4, PTL DEF AllSpec, ImplementsEvent

-----------------------------------------------------------------------------
\* The event.
EvL == INSTANCE EventLemmas WITH Spurious <- TRUE

\* A waitx is reused with the coroutine it had, so what follows is about
\* coroutines that wait without a timeout, or about one.
NoReuse == TimedCo = {} \/ \A c, d \in Co : c = d

LEMMA EventAssumed == EvL!EventAssumption /\ (NoReuse => EvL!NoReuse)
<1>1. EvL!IsFiniteSet(Thread)
  BY SyncAssumption DEF EvL!IsFiniteSet, IsFiniteSet
<1> QED
  BY <1>1, SyncAssumption DEF EvL!EventAssumption, EvL!NoReuse, NoReuse

\* The two instances of the event say the same.
LEMMA EventStepIs == ASSUME NEW a, Ev!Step(a) PROVE EvL!Step(a)
<1>1. Ev!WaitSignaled(a) => EvL!WaitSignaled(a)
  BY DEF Ev!WaitSignaled, EvL!WaitSignaled, Ev!Begin, EvL!Begin, Ev!Returns, EvL!Returns
<1>2. Ev!WaitZero(a) => EvL!WaitZero(a)
  BY DEF Ev!WaitZero, EvL!WaitZero, Ev!Begin, EvL!Begin, Ev!Returns, EvL!Returns
<1>3. Ev!WaitCo(a) => EvL!WaitCo(a)
  BY DEF Ev!WaitCo, EvL!WaitCo, Ev!Begin, EvL!Begin, Ev!Blocks, EvL!Blocks, Ev!Stale, EvL!Stale, Ev!StaleLength, EvL!StaleLength, Ev!Fresh, EvL!Fresh
<1>4. Ev!Resume(a) => EvL!Resume(a)
  BY DEF Ev!Resume, EvL!Resume, Ev!Returns, EvL!Returns
<1>5. Ev!Timeout(a) => EvL!Timeout(a)
  BY DEF Ev!Timeout, EvL!Timeout
<1>6. Ev!ResumeTimedOut(a) => EvL!ResumeTimedOut(a)
  BY DEF Ev!ResumeTimedOut, EvL!ResumeTimedOut, Ev!Returns, EvL!Returns
<1>7. Ev!WaitThread(a) => EvL!WaitThread(a)
  BY DEF Ev!WaitThread, EvL!WaitThread, Ev!Begin, EvL!Begin, Ev!Blocks, EvL!Blocks
<1>8. Ev!Leave(a) => EvL!Leave(a)
  BY DEF Ev!Leave, EvL!Leave
<1>9. Ev!ThreadNotified(a) => EvL!ThreadNotified(a)
  BY DEF Ev!ThreadNotified, EvL!ThreadNotified, Ev!Returns, EvL!Returns
<1>10. Ev!ThreadExpired(a) => EvL!ThreadExpired(a)
  BY DEF Ev!ThreadExpired, EvL!ThreadExpired, Ev!Returns, EvL!Returns
<1> QED
  BY <1>1, <1>2, <1>3, <1>4, <1>5, <1>6, <1>7, <1>8, <1>9, <1>10 DEF Ev!Step, EvL!Step

LEMMA EventSignalIs ==
    ASSUME NEW s, Ev!Signal(s) \/ Ev!SignalRest(s) \/ Ev!Reset(s)
    PROVE  EvL!Signal(s) \/ EvL!SignalRest(s) \/ EvL!Reset(s)
<1>1. Ev!NotifyThreads(s) => EvL!NotifyThreads(s)
  BY DEF Ev!NotifyThreads, EvL!NotifyThreads, Ev!Waiter, EvL!Waiter
<1>2. Ev!WakeFirst(s) => EvL!WakeFirst(s)
  BY DEF Ev!WakeFirst, EvL!WakeFirst, Ev!Waiter, EvL!Waiter, Ev!FirstLive, EvL!FirstLive
<1>3. Ev!MarkSignaled(s) => EvL!MarkSignaled(s)
  BY DEF Ev!MarkSignaled, EvL!MarkSignaled, Ev!FirstLive, EvL!FirstLive
<1>4. Ev!SignalRest(s) => EvL!SignalRest(s)
  BY DEF Ev!SignalRest, EvL!SignalRest
<1>5. Ev!Reset(s) => EvL!Reset(s)
  BY DEF Ev!Reset, EvL!Reset, Ev!InSection, EvL!InSection
<1>6. Ev!Signal(s) => EvL!Signal(s)
  BY <1>1, <1>2, <1>3 DEF Ev!Signal, EvL!Signal, Ev!InSection, EvL!InSection
<1> QED
  BY <1>4, <1>5, <1>6

LEMMA EventIs ==
    /\ Ev!Init => EvL!Init
    /\ Ev!Next => EvL!Next
    /\ UNCHANGED eventVars => UNCHANGED EvL!vars
<1>1. Ev!Init => EvL!Init
  BY DEF Ev!Init, EvL!Init, Ev!Waiter, EvL!Waiter
<1>2. Ev!Next => EvL!Next
  BY EventStepIs, EventSignalIs DEF Ev!Next, EvL!Next, Ev!Waiter, EvL!Waiter
<1> QED
  BY <1>1, <1>2 DEF eventVars, EvL!vars

LEMMA EventInvAlways == ASSUME NoReuse PROVE AllSpec => [](which = "event" => EvL!EventInv)
<1> DEFINE Inv == which = "event" => EvL!EventInv
<1>1. AllInit => Inv
  BY EventIs, EvL!EventInvStart DEF AllInit
<1>2. Inv /\ [AllNext]_<<which, eventVars, groupVars, mutexVars>> => Inv'
  <2> SUFFICES ASSUME Inv, [AllNext]_<<which, eventVars, groupVars, mutexVars>>, which' = "event"
               PROVE  EvL!EventInv'
    OBVIOUS
  <2>1. which = "event" /\ EvL!EventInv /\ (EvL!Next \/ UNCHANGED EvL!vars)
    BY EventIs DEF AllNext
  <2> QED
    BY <2>1, EventAssumed, EvL!EventInvNext, EvL!EventInvStutters
<1> QED
  BY <1>1, <1>2, PTL DEF AllSpec

LEMMA EventMeans ==
    ASSUME EvL!EventInv
    PROVE  Ev!NoWaiterForgotten /\ Ev!SignaledMeansNoWaiter /\ Ev!CoVerdict /\ Ev!WaitxOwned
<1>1. EvL!NoWaiterForgotten /\ EvL!SignaledMeansNoWaiter /\ EvL!CoVerdict /\ EvL!WaitxOwned
  BY EvL!EventInvMeans
<1> QED
  BY <1>1 DEF EvL!NoWaiterForgotten, EvL!SignaledMeansNoWaiter, EvL!CoVerdict, EvL!WaitxOwned,
              Ev!NoWaiterForgotten, Ev!SignaledMeansNoWaiter, Ev!CoVerdict, Ev!WaitxOwned,
              Ev!Listed, EvL!Listed, Ev!InList, EvL!InList

\* Every coroutine inside wait() can still be found by a signal or has been,
\* nobody sleeps on a signaled event, and wait() returns true to the coroutines
\* a signal was spent on, and to no others.
THEOREM TheEventServes == ASSUME NoReuse PROVE AllSpec => []WaitersServed
<1>1. (which = "event" => EvL!EventInv) => WaitersServed
  BY EventMeans DEF WaitersServed
<1> QED
  BY <1>1, EventInvAlways, PTL

\* No waitx is used after it was freed, and none is leaked.
THEOREM NoWaitxIsLost == ASSUME NoReuse PROVE AllSpec => []WaitxOwned
<1>1. (which = "event" => EvL!EventInv) => WaitxOwned
  BY EventMeans DEF WaitxOwned
<1> QED
  BY <1>1, EventInvAlways, PTL

-----------------------------------------------------------------------------
\* The wait_group.
GrL == INSTANCE EventLemmas WITH
    Co <- GroupCo, Thread <- GroupThread, Signaler <- Worker, TimedCo <- {},
    TimedThread <- {}, Spurious <- FALSE, MaxWait <- 1, MaxSignal <- 1

LEMMA GroupAssumed == GrL!GroupAssumption
<1>1. GrL!IsFiniteSet(GroupThread) /\ GrL!IsFiniteSet(Worker)
  BY SyncAssumption DEF GrL!IsFiniteSet, IsFiniteSet
<1> QED
  BY <1>1, SyncAssumption DEF GrL!GroupAssumption, GrL!EventAssumption

LEMMA GroupStepIs == ASSUME NEW a, Group!Step(a) PROVE GrL!Step(a)
<1>1. Group!WaitSignaled(a) => GrL!WaitSignaled(a)
  BY DEF Group!WaitSignaled, GrL!WaitSignaled, Group!Begin, GrL!Begin, Group!Returns, GrL!Returns
<1>2. Group!WaitZero(a) => GrL!WaitZero(a)
  BY DEF Group!WaitZero, GrL!WaitZero, Group!Begin, GrL!Begin, Group!Returns, GrL!Returns
<1>3. Group!WaitCo(a) => GrL!WaitCo(a)
  BY DEF Group!WaitCo, GrL!WaitCo, Group!Begin, GrL!Begin, Group!Blocks, GrL!Blocks, Group!Stale, GrL!Stale, Group!StaleLength, GrL!StaleLength, Group!Fresh, GrL!Fresh
<1>4. Group!Resume(a) => GrL!Resume(a)
  BY DEF Group!Resume, GrL!Resume, Group!Returns, GrL!Returns
<1>5. Group!Timeout(a) => GrL!Timeout(a)
  BY DEF Group!Timeout, GrL!Timeout
<1>6. Group!ResumeTimedOut(a) => GrL!ResumeTimedOut(a)
  BY DEF Group!ResumeTimedOut, GrL!ResumeTimedOut, Group!Returns, GrL!Returns
<1>7. Group!WaitThread(a) => GrL!WaitThread(a)
  BY DEF Group!WaitThread, GrL!WaitThread, Group!Begin, GrL!Begin, Group!Blocks, GrL!Blocks
<1>8. Group!Leave(a) => GrL!Leave(a)
  BY DEF Group!Leave, GrL!Leave
<1>9. Group!ThreadNotified(a) => GrL!ThreadNotified(a)
  BY DEF Group!ThreadNotified, GrL!ThreadNotified, Group!Returns, GrL!Returns
<1>10. Group!ThreadExpired(a) => GrL!ThreadExpired(a)
  BY DEF Group!ThreadExpired, GrL!ThreadExpired, Group!Returns, GrL!Returns
<1> QED
  BY <1>1, <1>2, <1>3, <1>4, <1>5, <1>6, <1>7, <1>8, <1>9, <1>10 DEF Group!Step, GrL!Step

LEMMA GroupSignalIs ==
    ASSUME NEW s
    PROVE  (Group!Signal(s) => GrL!Signal(s)) /\ (Group!SignalRest(s) => GrL!SignalRest(s))
<1>1. Group!NotifyThreads(s) => GrL!NotifyThreads(s)
  BY DEF Group!NotifyThreads, GrL!NotifyThreads, Group!Waiter, GrL!Waiter
<1>2. Group!WakeFirst(s) => GrL!WakeFirst(s)
  BY DEF Group!WakeFirst, GrL!WakeFirst, Group!Waiter, GrL!Waiter, Group!FirstLive, GrL!FirstLive
<1>3. Group!MarkSignaled(s) => GrL!MarkSignaled(s)
  BY DEF Group!MarkSignaled, GrL!MarkSignaled, Group!FirstLive, GrL!FirstLive
<1>4. Group!SignalRest(s) => GrL!SignalRest(s)
  BY DEF Group!SignalRest, GrL!SignalRest
<1>5. Group!Signal(s) => GrL!Signal(s)
  BY <1>1, <1>2, <1>3 DEF Group!Signal, GrL!Signal, Group!InSection, GrL!InSection
<1> QED
  BY <1>4, <1>5

SignalsRest(s) == Group!SignalRest(s) /\ UNCHANGED Group!wgVars

LEMMA GroupIs ==
    /\ Group!WGInit => GrL!WGInit
    /\ Group!WGNext => GrL!WGNext
    /\ UNCHANGED <<eventVars, groupVars>> => UNCHANGED <<GrL!vars, GrL!wgVars>>
<1>1. Group!WGInit => GrL!WGInit
  BY DEF Group!WGInit, GrL!WGInit, Group!Init, GrL!Init, Group!Waiter, GrL!Waiter
<1>2. Group!WGNext => GrL!WGNext
  <2>1. ASSUME NEW a \in Group!Waiter, Group!Step(a) /\ UNCHANGED Group!wgVars PROVE GrL!WGNext
    <3>1. a \in GrL!Waiter /\ GrL!Step(a) /\ UNCHANGED GrL!wgVars
      BY <2>1, GroupStepIs DEF Group!Waiter, GrL!Waiter, Group!wgVars, GrL!wgVars
    <3> QED
      BY <3>1 DEF GrL!WGNext
  <2>2. ASSUME NEW s \in Worker, SignalsRest(s) PROVE GrL!WGNext
    <3>1. GrL!SignalRest(s) /\ UNCHANGED GrL!wgVars
      BY <2>2, GroupSignalIs DEF SignalsRest, Group!wgVars, GrL!wgVars
    <3> QED
      BY <3>1 DEF GrL!WGNext
  <2>3. ASSUME NEW s \in Worker, Group!Done(s) \/ Group!DoneSignal(s) \/ \E r \in Worker : Group!Add(s, r)
        PROVE  GrL!WGNext
    <3>1. CASE \E r \in Worker : Group!Add(s, r)
      <4>1. PICK r \in Worker : Group!Add(s, r)
        BY <3>1
      <4>2. GrL!Add(s, r)
        BY <4>1 DEF Group!Add, GrL!Add, Group!vars, GrL!vars
      <4> QED
        BY <4>2 DEF GrL!WGNext
    <3>2. CASE Group!Done(s) \/ Group!DoneSignal(s)
      <4>1. GrL!Done(s) \/ GrL!DoneSignal(s)
        BY <3>2, GroupSignalIs DEF Group!Done, GrL!Done, Group!DoneSignal, GrL!DoneSignal, Group!vars, GrL!vars
      <4> QED
        BY <4>1 DEF GrL!WGNext
    <3> QED
      BY <2>3, <3>1, <3>2
  <2> QED
    BY <2>1, <2>2, <2>3 DEF Group!WGNext, SignalsRest
<1> QED
  BY <1>1, <1>2 DEF eventVars, groupVars, GrL!vars, GrL!wgVars

LEMMA GroupInvAlways == AllSpec => [](which = "wait_group" => GrL!GroupInv)
<1> DEFINE Inv == which = "wait_group" => GrL!GroupInv
<1>1. AllInit => Inv
  BY GroupIs, GroupAssumed, GrL!GroupInvStart DEF AllInit
<1>2. Inv /\ [AllNext]_<<which, eventVars, groupVars, mutexVars>> => Inv'
  <2> SUFFICES ASSUME Inv, [AllNext]_<<which, eventVars, groupVars, mutexVars>>, which' = "wait_group"
               PROVE  GrL!GroupInv'
    OBVIOUS
  <2>1. which = "wait_group" /\ GrL!GroupInv /\ (GrL!WGNext \/ UNCHANGED <<GrL!vars, GrL!wgVars>>)
    BY GroupIs DEF AllNext
  <2> QED
    BY <2>1, GroupAssumed, GrL!GroupInvNext, GrL!GroupInvStutters
<1> QED
  BY <1>1, <1>2, PTL DEF AllSpec

\* wait() does not return while a worker is counted, and the last done()
\* releases all that wait: who is left behind came later, and another one has
\* what was signaled.
THEOREM TheGroupIsReleased == AllSpec => []GroupReleased
<1>1. (which = "wait_group" => GrL!GroupInv) => GroupReleased
  <2>1. GrL!GroupInv => GrL!NoEarlyReturn /\ GrL!LeftOnlyByAnother
    BY GroupAssumed, GrL!GroupInvMeans
  <2> QED
    BY <2>1 DEF GroupReleased, GrL!NoEarlyReturn, Group!NoEarlyReturn, GrL!LeftOnlyByAnother, Group!LeftOnlyByAnother,
                GrL!Settled, Group!Settled, GrL!Blocked, Group!Blocked, GrL!Waiter, Group!Waiter
<1> QED
  BY <1>1, GroupInvAlways, PTL

-----------------------------------------------------------------------------
(***************************************************************************)
(* The queue of the mutex, for blocks of any size: the entries lie in a    *)
(* row through the blocks, so that the i-th of them is found by dividing   *)
(* its place by the size of a block.                                       *)
(***************************************************************************)
LEMMA Multiples ==
    ASSUME NEW n \in Nat \ {0}, NEW i \in Nat, NEW j \in Nat
    PROVE  /\ i * n \in Nat
           /\ i < j => i * n + n <= j * n
<1>1. i * n \in Nat
  OBVIOUS
<1>2. ASSUME i < j PROVE i * n + n <= j * n
  <2>1. j - i - 1 \in Nat /\ j = i + 1 + (j - i - 1)
    BY <1>2
  <2>2. PICK d \in Nat : j = i + 1 + d
    BY <2>1
  <2>3. j * n = i * n + n + d * n /\ d * n \in Nat
    BY <2>2
  <2> QED
    BY <1>1, <2>3
<1> QED
  BY <1>1, <1>2

LEMMA Divides ==
    ASSUME NEW n \in Nat \ {0}, NEW a \in Nat
    PROVE  /\ a \div n \in Nat /\ a % n \in 0..n - 1
           /\ a = (a \div n) * n + (a % n)
OBVIOUS

LEMMA Place ==
    ASSUME NEW n \in Nat \ {0}, NEW k \in Nat, NEW r \in 0..n - 1
    PROVE  /\ k * n + r \in Nat
           /\ (k * n + r) \div n = k
           /\ (k * n + r) % n = r
<1> DEFINE a == k * n + r
<1>1. k * n \in Nat /\ a \in Nat /\ r \in Nat
  BY Multiples
<1>2. PICK l \in Nat, s \in 0..n - 1 : l = a \div n /\ s = a % n /\ a = l * n + s
  BY <1>1, Divides
<1>3. l * n \in Nat /\ (k < l => k * n + n <= l * n) /\ (l < k => l * n + n <= k * n)
  BY Multiples
<1>4. k = l
  BY <1>1, <1>2, <1>3
<1> QED
  BY <1>1, <1>2, <1>4

\* In the row, the place before the first entry of block b, the block of the
\* place a, and which of its entries it is.
Start(b) == (b - 1) * N
BlockAt(a) == (a \div N) + 1
EntryIn(a) == (a % N) + 1

LEMMA Starts ==
    ASSUME N \in Nat \ {0}
    PROVE  /\ Start(1) = 0
           /\ \A b \in Nat \ {0} : Start(b) \in Nat /\ Start(b + 1) = Start(b) + N
           /\ \A b, c \in Nat \ {0} : b < c => Start(b) + N <= Start(c)
<1>1. Start(1) = 0
  BY DEF Start
<1>2. ASSUME NEW b \in Nat \ {0} PROVE Start(b) \in Nat /\ Start(b + 1) = Start(b) + N
  <2>1. PICK k \in Nat : b = k + 1
    <3>1. b - 1 \in Nat /\ b = (b - 1) + 1
      OBVIOUS
    <3> QED
      BY <3>1
  <2>2. b - 1 = k /\ (b + 1) - 1 = k + 1
    BY <2>1
  <2>3. (k + 1) * N = k * N + N /\ k * N \in Nat
    BY Multiples
  <2> QED
    BY <2>2, <2>3 DEF Start
<1>3. ASSUME NEW b \in Nat \ {0}, NEW c \in Nat \ {0}, b < c PROVE Start(b) + N <= Start(c)
  <2>1. b - 1 \in Nat /\ c - 1 \in Nat /\ b - 1 < c - 1
    BY <1>3
  <2> QED
    BY <2>1, Multiples DEF Start
<1> QED
  BY <1>1, <1>2, <1>3

LEMMA PlaceOf ==
    ASSUME N \in Nat \ {0}, NEW a \in Nat
    PROVE  /\ BlockAt(a) \in Nat \ {0} /\ EntryIn(a) \in 1..N
           /\ a + 1 = Start(BlockAt(a)) + EntryIn(a)
<1>1. a \div N \in Nat /\ a % N \in 0..N - 1 /\ a = (a \div N) * N + (a % N)
  BY Divides
<1>2. PICK k \in Nat, r \in 0..N - 1 : k = a \div N /\ r = a % N /\ a = k * N + r
  BY <1>1
<1>3. BlockAt(a) = k + 1 /\ EntryIn(a) = r + 1 /\ (k + 1) - 1 = k
  BY <1>2 DEF BlockAt, EntryIn
<1>4. Start(BlockAt(a)) = k * N
  BY <1>3 DEF Start
<1>5. PICK p \in Nat : p = k * N
  BY Multiples
<1> QED
  BY <1>2, <1>3, <1>4, <1>5

LEMMA PlaceIs ==
    ASSUME N \in Nat \ {0}, NEW a \in Nat, NEW b \in Nat \ {0}, NEW r \in 1..N, a + 1 = Start(b) + r
    PROVE  BlockAt(a) = b /\ EntryIn(a) = r
<1>1. /\ BlockAt(a) \in Nat \ {0} /\ EntryIn(a) \in 1..N
      /\ a + 1 = Start(BlockAt(a)) + EntryIn(a)
  BY PlaceOf
<1>2. PICK c \in Nat \ {0}, t \in 1..N : c = BlockAt(a) /\ t = EntryIn(a)
  BY <1>1
<1>3. Start(c) + t = Start(b) + r
  BY <1>1, <1>2
<1>4. /\ Start(b) \in Nat /\ Start(c) \in Nat
      /\ b < c => Start(b) + N <= Start(c)
      /\ c < b => Start(c) + N <= Start(b)
  BY Starts
<1>5. b = c
  BY <1>3, <1>4
<1> QED
  BY <1>2, <1>3, <1>4, <1>5

\* The blocks s: the row they make, and what is true of them at all times, or
\* with a new block at the end.
SpanOf(s) == IF s = <<>> THEN 0 ELSE Start(Len(s)) + s[Len(s)].wx - s[1].rx
PlaceIn(s, i) == s[1].rx + i - 1
EntryOf(s, i) == s[BlockAt(PlaceIn(s, i))].e[EntryIn(PlaceIn(s, i))]
RowOf(s) == [i \in 1..SpanOf(s) |-> EntryOf(s, i)]

InRow(s) == \A b \in 1..Len(s) : (b # Len(s) => s[b].wx = N) /\ (b # 1 => s[b].rx = 0)

Row(s) ==
    /\ s \in Seq(Block)
    /\ InRow(s)
    /\ s # <<>> => /\ s[1].size = SpanOf(s)
                   /\ s[1].rx < s[1].wx \/ (Len(s) = 1 /\ s[1].rx = 0 /\ s[1].wx = 0)
Last(s) == Len(s) > 1 => s[Len(s)].wx > 0

LEMMA BlocksAre ==
    ASSUME NEW s, s \in Seq(Block), s # <<>>
    PROVE  /\ Len(s) \in Nat \ {0} /\ 1 \in 1..Len(s) /\ Len(s) \in 1..Len(s)
           /\ Len(s) = 1 \/ Len(s) > 1
           /\ \A b \in 1..Len(s) : /\ s[b].size \in Nat /\ s[b].rx \in 0..N /\ s[b].wx \in 0..N
                                   /\ s[b].e \in [1..N -> Item]
<1>1. Len(s) \in Nat \ {0}
  OBVIOUS
<1>2. 1 \in 1..Len(s) /\ Len(s) \in 1..Len(s) /\ (Len(s) = 1 \/ Len(s) > 1)
  <2>1. \A n \in Nat \ {0} : 1 \in 1..n /\ n \in 1..n /\ (n = 1 \/ n > 1)
    OBVIOUS
  <2> QED
    BY ONLY <1>1, <2>1
<1>3. \A b \in 1..Len(s) : s[b] \in Block
  OBVIOUS
<1>4. \A b \in 1..Len(s) : /\ s[b].size \in Nat /\ s[b].rx \in 0..N /\ s[b].wx \in 0..N
                           /\ s[b].e \in [1..N -> Item]
  BY ONLY <1>3 DEF Block
<1> QED
  BY ONLY <1>1, <1>2, <1>4

\* How long the row is, in numbers.
LEMMA SpanIs ==
    ASSUME N \in Nat \ {0}, NEW s, Row(s), s # <<>>
    PROVE  \E p \in Nat, w \in 0..N, r \in 0..N :
              /\ p = Start(Len(s)) /\ w = s[Len(s)].wx /\ r = s[1].rx
              /\ SpanOf(s) = p + w - r /\ SpanOf(s) \in Nat
              /\ Len(s) = 1 => p = 0
              /\ Len(s) > 1 => p >= N
<1>1. s \in Seq(Block)
  BY DEF Row
<1>2. Len(s) \in Nat \ {0} /\ s[Len(s)].wx \in 0..N /\ s[1].rx \in 0..N
  BY <1>1, BlocksAre
<1>3. PICK w \in 0..N, r \in 0..N : w = s[Len(s)].wx /\ r = s[1].rx
  BY <1>2
<1>4. PICK p \in Nat : p = Start(Len(s))
  BY <1>2, Starts
<1>5. SpanOf(s) = p + w - r
  BY <1>3, <1>4 DEF SpanOf
<1>6. (Len(s) = 1 => p = 0) /\ (Len(s) > 1 => p >= N)
  <2>1. Start(1) = 0 /\ (1 < Len(s) => Start(1) + N <= Start(Len(s)))
    BY <1>2, Starts
  <2> QED
    BY <1>2, <1>4, <2>1
<1>7. p + w - r \in Nat
  <2>1. CASE Len(s) = 1
    BY <1>3, <1>6, <2>1 DEF Row
  <2>2. CASE Len(s) > 1
    BY <1>6, <2>2
  <2>3. Len(s) = 1 \/ Len(s) > 1
    BY <1>1, BlocksAre
  <2> QED
    BY <2>1, <2>2, <2>3
<1> QED
  BY <1>3, <1>4, <1>5, <1>6, <1>7

\* Every entry of the row is one of a block that has been written.
LEMMA RowPlace ==
    ASSUME N \in Nat \ {0}, NEW s, Row(s), s # <<>>, NEW i \in 1..SpanOf(s)
    PROVE  \E b \in 1..Len(s), r \in 1..N :
              /\ PlaceIn(s, i) \in Nat /\ PlaceIn(s, i) + 1 = Start(b) + r
              /\ b = BlockAt(PlaceIn(s, i)) /\ r = EntryIn(PlaceIn(s, i))
              /\ b = Len(s) => r <= s[Len(s)].wx
              /\ EntryOf(s, i) = s[b].e[r] /\ EntryOf(s, i) \in Item
<1>1. PICK p \in Nat, w \in 0..N, x \in 0..N :
         /\ p = Start(Len(s)) /\ w = s[Len(s)].wx /\ x = s[1].rx
         /\ SpanOf(s) = p + w - x /\ SpanOf(s) \in Nat
  BY SpanIs
<1>2. PICK a \in Nat : a = PlaceIn(s, i) /\ a + 1 <= p + w
  <2>1. i \in Nat \ {0} /\ i <= p + w - x
    BY <1>1
  <2>2. PlaceIn(s, i) = x + i - 1
    BY <1>1 DEF PlaceIn
  <2>3. x + i - 1 \in Nat /\ (x + i - 1) + 1 <= p + w
    BY <2>1
  <2> QED
    BY <2>2, <2>3
<1>3. PICK b \in Nat \ {0}, r \in 1..N : b = BlockAt(a) /\ r = EntryIn(a) /\ a + 1 = Start(b) + r
  BY PlaceOf
<1>4. s \in Seq(Block) /\ Len(s) \in Nat \ {0}
  BY BlocksAre DEF Row
<1>5. Start(b) \in Nat /\ (Len(s) < b => p + N <= Start(b))
  BY <1>1, <1>4, Starts
<1>6. b <= Len(s)
  BY <1>2, <1>3, <1>4, <1>5
<1>7. b = Len(s) => r <= w
  <2> SUFFICES ASSUME b = Len(s) PROVE r <= w
    OBVIOUS
  <2>1. a + 1 = p + r /\ a + 1 <= p + w /\ a \in Nat /\ p \in Nat /\ r \in Nat /\ w \in Nat
    BY <1>1, <1>2, <1>3
  <2> QED
    BY ONLY <2>1
<1>8. b \in 1..Len(s)
  BY <1>4, <1>6
<1>9. EntryOf(s, i) = s[b].e[r]
  BY <1>2, <1>3 DEF EntryOf
<1>10. s[b].e[r] \in Item
  <2>1. s[b].e \in [1..N -> Item]
    BY <1>4, <1>8, BlocksAre
  <2> QED
    BY <2>1
<1> QED
  BY <1>1, <1>2, <1>3, <1>7, <1>8, <1>9, <1>10

LEMMA RowType ==
    ASSUME N \in Nat \ {0}, NEW s, Row(s)
    PROVE  /\ SpanOf(s) \in Nat /\ RowOf(s) \in Seq(Item) /\ Len(RowOf(s)) = SpanOf(s)
           /\ \A i \in 1..SpanOf(s) : RowOf(s)[i] = EntryOf(s, i)
<1>1. SpanOf(s) \in Nat /\ \A i \in 1..SpanOf(s) : EntryOf(s, i) \in Item
  <2>1. CASE s = <<>>
    BY <2>1 DEF SpanOf
  <2>2. CASE s # <<>>
    BY <2>2, SpanIs, RowPlace
  <2> QED
    BY <2>1, <2>2
<1>2. RowOf(s) \in [1..SpanOf(s) -> Item]
  BY <1>1 DEF RowOf
<1> QED
  BY <1>1, <1>2 DEF RowOf

\* An entry is written behind the last one.
LEMMA RowPush ==
    ASSUME N \in Nat \ {0}, NEW p, Row(p), p # <<>>, p[Len(p)].wx < N, NEW x \in Item,
           NEW t, t \in Seq(Block), Len(t) = Len(p),
           \A b \in 1..Len(p) :
              /\ t[b].rx = p[b].rx
              /\ t[b].wx = IF b = Len(p) THEN p[b].wx + 1 ELSE p[b].wx
              /\ t[b].size = IF b = 1 THEN p[b].size + 1 ELSE p[b].size
              /\ \A r \in 1..N : t[b].e[r] = IF b = Len(p) /\ r = p[b].wx + 1 THEN x ELSE p[b].e[r]
    PROVE  Row(t) /\ Last(t) /\ RowOf(t) = Append(RowOf(p), x)
<1>0. t # <<>> /\ Len(p) \in Nat \ {0} /\ 1 \in 1..Len(p) /\ Len(p) \in 1..Len(p)
  BY BlocksAre DEF Row
<1>1. PICK m \in Nat, w \in 0..N, a \in 0..N :
         /\ m = Start(Len(p)) /\ w = p[Len(p)].wx /\ a = p[1].rx
         /\ SpanOf(p) = m + w - a /\ SpanOf(p) \in Nat
         /\ Len(p) = 1 => m = 0
         /\ Len(p) > 1 => m >= N
  BY SpanIs
<1>2. t[Len(p)].wx = w + 1 /\ t[1].rx = a
  BY <1>0, <1>1
<1>types. m \in Nat /\ w \in Nat /\ a \in Nat /\ N \in Nat
  OBVIOUS
<1>span. SpanOf(p) = m + w - a /\ Start(Len(p)) = m /\ w < N
  BY <1>1
<1>3. SpanOf(t) = SpanOf(p) + 1
  <2>1. SpanOf(t) = m + (w + 1) - a
    BY <1>0, <1>1, <1>2 DEF SpanOf
  <2> QED
    BY ONLY <1>types, <1>span, <2>1
<1>4. Row(t)
  <2>1. t[1].size = SpanOf(t)
    BY <1>0, <1>3 DEF Row
  <2>2. t[1].rx < t[1].wx
    <3>1. p[1].rx \in 0..N /\ p[1].wx \in 0..N
      BY <1>0, BlocksAre DEF Row
    <3>2. p[1].rx < p[1].wx \/ (Len(p) = 1 /\ p[1].rx = 0 /\ p[1].wx = 0)
      BY DEF Row
    <3> QED
      BY <1>0, <3>1, <3>2
  <2>3. InRow(t)
    BY <1>0 DEF Row, InRow
  <2> QED
    BY <2>1, <2>2, <2>3 DEF Row
<1>5. Last(t)
  BY <1>2 DEF Last
<1>6. ASSUME NEW i \in 1..SpanOf(p) PROVE EntryOf(t, i) = EntryOf(p, i)
  <2>1. PICK b \in 1..Len(p), r \in 1..N :
              /\ PlaceIn(p, i) \in Nat /\ PlaceIn(p, i) + 1 = Start(b) + r
              /\ b = BlockAt(PlaceIn(p, i)) /\ r = EntryIn(PlaceIn(p, i))
              /\ b = Len(p) => r <= p[Len(p)].wx
              /\ EntryOf(p, i) = p[b].e[r] /\ EntryOf(p, i) \in Item
    BY RowPlace
  <2>2. PlaceIn(t, i) = PlaceIn(p, i)
    BY <1>1, <1>2 DEF PlaceIn
  <2>3. EntryOf(t, i) = t[b].e[r]
    BY <2>1, <2>2 DEF EntryOf
  <2>4. ~(b = Len(p) /\ r = p[b].wx + 1)
    BY <1>1, <2>1
  <2>5. t[b].e[r] = p[b].e[r]
    BY <2>4
  <2> QED
    BY <2>1, <2>3, <2>5
<1>7. EntryOf(t, SpanOf(p) + 1) = x
  <2>1. PlaceIn(t, SpanOf(p) + 1) = m + w
    <3>1. PlaceIn(t, SpanOf(p) + 1) = a + (SpanOf(p) + 1) - 1
      BY <1>2 DEF PlaceIn
    <3> QED
      BY ONLY <1>types, <1>span, <3>1
  <2>2. m + w \in Nat /\ w + 1 \in 1..N /\ (m + w) + 1 = Start(Len(p)) + (w + 1)
    BY ONLY <1>types, <1>span
  <2>3. BlockAt(m + w) = Len(p) /\ EntryIn(m + w) = w + 1
    BY <1>0, <2>2, PlaceIs
  <2>4. EntryOf(t, SpanOf(p) + 1) = t[Len(p)].e[w + 1]
    BY <2>1, <2>3 DEF EntryOf
  <2>5. t[Len(p)].e[w + 1] = x
    BY <1>0, <1>1, <2>2
  <2> QED
    BY <2>4, <2>5
<1>8. /\ RowOf(p) \in Seq(Item) /\ Len(RowOf(p)) = SpanOf(p)
      /\ \A i \in 1..SpanOf(p) : RowOf(p)[i] = EntryOf(p, i)
  BY RowType
<1>9. /\ RowOf(t) \in Seq(Item) /\ Len(RowOf(t)) = SpanOf(p) + 1
      /\ \A i \in 1..SpanOf(p) + 1 : RowOf(t)[i] = EntryOf(t, i)
  BY <1>3, <1>4, RowType
<1>10. RowOf(t) = Append(RowOf(p), x)
  <2>1. /\ Append(RowOf(p), x) \in Seq(Item) /\ Len(Append(RowOf(p), x)) = SpanOf(p) + 1
        /\ \A i \in 1..SpanOf(p) : Append(RowOf(p), x)[i] = RowOf(p)[i]
        /\ Append(RowOf(p), x)[SpanOf(p) + 1] = x
    BY <1>8, AppendProperties
  <2>2. ASSUME NEW i \in 1..SpanOf(p) + 1 PROVE RowOf(t)[i] = Append(RowOf(p), x)[i]
    <3>1. i \in 1..SpanOf(p) \/ i = SpanOf(p) + 1
      BY <1>1
    <3> QED
      BY <1>6, <1>7, <1>8, <1>9, <2>1, <3>1
  <2> QED
    BY <1>9, <2>1, <2>2, SeqEqual
<1> QED
  BY <1>4, <1>5, <1>10

\* A new block at the end changes nothing yet.
LEMMA RowGrows ==
    ASSUME N \in Nat \ {0}, NEW s, Row(s), NEW b \in Block,
           b.size = 0, b.rx = 0, b.wx = 0, s # <<>> => s[Len(s)].wx = N
    PROVE  Row(Append(s, b)) /\ RowOf(Append(s, b)) = RowOf(s)
<1> DEFINE t == Append(s, b)
<1>1. /\ s \in Seq(Block) /\ Len(s) \in Nat /\ t \in Seq(Block) /\ t # <<>> /\ Len(t) = Len(s) + 1
      /\ \A i \in 1..Len(s) : t[i] = s[i]
      /\ t[Len(s) + 1] = b
  <2>1. s \in Seq(Block)
    BY DEF Row
  <2> QED
    BY <2>1, AppendProperties, LenProperties
<1> HIDE DEF t
<1>2. CASE s = <<>>
  <2>1. Len(t) = 1 /\ t[1] = b
    BY <1>1, <1>2
  <2>2. SpanOf(s) = 0 /\ SpanOf(t) = 0
    <3>1. Start(1) = 0
      BY Starts
    <3>2. SpanOf(t) = 0 + b.wx - b.rx
      BY <1>1, <2>1, <3>1 DEF SpanOf
    <3> QED
      BY <1>2, <3>2 DEF SpanOf
  <2>3. InRow(t)
    BY <2>1 DEF InRow
  <2>4. Row(t)
    BY <1>1, <2>1, <2>2, <2>3 DEF Row
  <2>5. RowOf(t) = RowOf(s)
    BY <2>2 DEF RowOf
  <2> QED
    BY <2>4, <2>5 DEF t
<1>3. CASE s # <<>>
  <2>1. Len(s) \in Nat \ {0} /\ 1 \in 1..Len(s) /\ Len(s) \in 1..Len(s) /\ t[1] = s[1]
    BY <1>1, <1>3, BlocksAre
  <2>2. SpanOf(t) = SpanOf(s)
    <3>1. PICK m \in Nat, w \in 0..N, a \in 0..N :
             /\ m = Start(Len(s)) /\ w = s[Len(s)].wx /\ a = s[1].rx
             /\ SpanOf(s) = m + w - a /\ SpanOf(s) \in Nat
             /\ Len(s) = 1 => m = 0
             /\ Len(s) > 1 => m >= N
      BY <1>3, SpanIs
    <3>2. Start(Len(s) + 1) = m + N
      BY <2>1, <3>1, Starts
    <3>3. SpanOf(t) = (m + N) + 0 - a
      BY <1>1, <2>1, <3>1, <3>2 DEF SpanOf
    <3>4. SpanOf(s) = m + N - a /\ m \in Nat /\ a \in Nat
      BY <1>3, <3>1
    <3> QED
      BY ONLY <3>3, <3>4, N \in Nat
  <2>3. InRow(t)
    <3> SUFFICES ASSUME NEW i \in 1..Len(t)
                 PROVE  (i # Len(t) => t[i].wx = N) /\ (i # 1 => t[i].rx = 0)
      BY DEF InRow
    <3>1. CASE i = Len(s) + 1
      BY <1>1, <3>1
    <3>2. CASE i \in 1..Len(s)
      BY <1>1, <1>3, <3>2 DEF Row, InRow
    <3> QED
      BY <1>1, <3>1, <3>2
  <2>4. Row(t)
    <3>1. t[1].size = SpanOf(t)
      BY <1>3, <2>1, <2>2 DEF Row
    <3>2. t[1].rx < t[1].wx
      <4>1. s[1].rx < s[1].wx \/ (Len(s) = 1 /\ s[1].wx = 0)
        BY <1>3 DEF Row
      <4> QED
        BY <1>3, <2>1, <4>1
    <3> QED
      BY <1>1, <2>3, <3>1, <3>2 DEF Row
  <2>5. ASSUME NEW i \in 1..SpanOf(s) PROVE EntryOf(t, i) = EntryOf(s, i)
    <3>1. PICK c \in 1..Len(s), r \in 1..N :
              /\ PlaceIn(s, i) \in Nat /\ PlaceIn(s, i) + 1 = Start(c) + r
              /\ c = BlockAt(PlaceIn(s, i)) /\ r = EntryIn(PlaceIn(s, i))
              /\ c = Len(s) => r <= s[Len(s)].wx
              /\ EntryOf(s, i) = s[c].e[r] /\ EntryOf(s, i) \in Item
      BY <1>3, RowPlace
    <3>2. PlaceIn(t, i) = PlaceIn(s, i)
      BY <2>1 DEF PlaceIn
    <3>3. EntryOf(t, i) = t[c].e[r]
      BY <3>1, <3>2 DEF EntryOf
    <3> QED
      BY <1>1, <3>1, <3>3
  <2>6. RowOf(t) = RowOf(s)
    BY <2>2, <2>5 DEF RowOf
  <2> QED
    BY <2>4, <2>6 DEF t
<1> QED
  BY <1>2, <1>3

\* The row without its first entry.
LEMMA TailIs ==
    ASSUME N \in Nat \ {0}, NEW s, Row(s), NEW t, Row(t), SpanOf(s) = SpanOf(t) + 1,
           \A i \in 1..SpanOf(t) : EntryOf(t, i) = EntryOf(s, i + 1)
    PROVE  RowOf(s) # <<>> /\ RowOf(t) = Tail(RowOf(s))
<1>1. /\ RowOf(s) \in Seq(Item) /\ Len(RowOf(s)) = SpanOf(t) + 1 /\ SpanOf(t) \in Nat
      /\ \A i \in 1..SpanOf(t) + 1 : RowOf(s)[i] = EntryOf(s, i)
  BY RowType
<1>2. /\ RowOf(t) \in Seq(Item) /\ Len(RowOf(t)) = SpanOf(t)
      /\ \A i \in 1..SpanOf(t) : RowOf(t)[i] = EntryOf(t, i)
  BY RowType
<1>3. RowOf(s) # <<>>
  BY <1>1
<1>4. /\ Tail(RowOf(s)) \in Seq(Item) /\ Len(Tail(RowOf(s))) = SpanOf(t)
      /\ \A i \in 1..SpanOf(t) : Tail(RowOf(s))[i] = RowOf(s)[i + 1]
  BY <1>1, <1>3, HeadTailProperties
<1>5. \A i \in 1..SpanOf(t) : RowOf(t)[i] = Tail(RowOf(s))[i]
  BY <1>1, <1>2, <1>4
<1> QED
  BY <1>2, <1>3, <1>4, <1>5, SeqEqual

\* An entry is read, and there are more in its block.
LEMMA RowPop ==
    ASSUME N \in Nat \ {0}, NEW s, Row(s), Last(s), s # <<>>, s[1].rx + 1 < s[1].wx,
           NEW t, t \in Seq(Block), Len(t) = Len(s), t[1].rx = s[1].rx + 1, t[1].size = s[1].size - 1,
           \A b \in 1..Len(s) : t[b].wx = s[b].wx /\ t[b].e = s[b].e /\ (b # 1 => t[b].rx = s[b].rx)
    PROVE  Row(t) /\ Last(t) /\ RowOf(s) # <<>> /\ RowOf(t) = Tail(RowOf(s))
<1>0. t # <<>> /\ Len(s) \in Nat \ {0} /\ 1 \in 1..Len(s) /\ Len(s) \in 1..Len(s)
  BY BlocksAre DEF Row
<1>1. PICK m \in Nat, w \in 0..N, a \in 0..N :
         /\ m = Start(Len(s)) /\ w = s[Len(s)].wx /\ a = s[1].rx
         /\ SpanOf(s) = m + w - a /\ SpanOf(s) \in Nat
         /\ Len(s) = 1 => m = 0
         /\ Len(s) > 1 => m >= N
  BY SpanIs
<1>2. m \in Nat /\ w \in Nat /\ a \in Nat
  OBVIOUS
<1>3. SpanOf(s) = m + w - a /\ SpanOf(s) \in Nat /\ s[1].size = SpanOf(s)
  BY <1>1 DEF Row
<1>4. SpanOf(t) = m + w - (a + 1)
  BY <1>0, <1>1 DEF SpanOf
<1>5. SpanOf(s) = SpanOf(t) + 1 /\ SpanOf(t) = SpanOf(s) - 1 /\ SpanOf(t) \in Int
  BY ONLY <1>2, <1>3, <1>4
<1>6. Row(t)
  <2>1. t[1].size = SpanOf(t)
    BY <1>3, <1>5
  <2>2. t[1].rx < t[1].wx
    BY <1>0
  <2>3. InRow(t)
    BY <1>0 DEF Row, InRow
  <2> QED
    BY <2>1, <2>2, <2>3 DEF Row
<1>7. Last(t)
  BY <1>0 DEF Last
<1>8. ASSUME NEW i \in 1..SpanOf(t) PROVE EntryOf(t, i) = EntryOf(s, i + 1)
  <2>1. i + 1 \in 1..SpanOf(s) /\ i \in Int
    BY ONLY <1>3, <1>5, i \in 1..SpanOf(t)
  <2>2. PICK b \in 1..Len(s), r \in 1..N :
              /\ PlaceIn(s, i + 1) \in Nat /\ PlaceIn(s, i + 1) + 1 = Start(b) + r
              /\ b = BlockAt(PlaceIn(s, i + 1)) /\ r = EntryIn(PlaceIn(s, i + 1))
              /\ b = Len(s) => r <= s[Len(s)].wx
              /\ EntryOf(s, i + 1) = s[b].e[r] /\ EntryOf(s, i + 1) \in Item
    BY <2>1, RowPlace
  <2>3. PlaceIn(t, i) = PlaceIn(s, i + 1)
    <3>1. PlaceIn(t, i) = (a + 1) + i - 1 /\ PlaceIn(s, i + 1) = a + (i + 1) - 1
      BY <1>1 DEF PlaceIn
    <3> QED
      BY ONLY <1>2, <2>1, <3>1
  <2>4. EntryOf(t, i) = t[b].e[r]
    BY <2>2, <2>3 DEF EntryOf
  <2> QED
    BY <2>2, <2>4
<1> QED
  BY <1>5, <1>6, <1>7, <1>8, TailIs

\* The last entry is read: the block is used again.
LEMMA RowPopLast ==
    ASSUME N \in Nat \ {0}, NEW s, Row(s), Len(s) = 1, s[1].rx + 1 = s[1].wx,
           NEW t, t \in Seq(Block), Len(t) = 1, t[1].rx = 0, t[1].wx = 0, t[1].size = s[1].size - 1
    PROVE  Row(t) /\ Last(t) /\ RowOf(s) # <<>> /\ RowOf(t) = Tail(RowOf(s))
<1>1. s # <<>> /\ t # <<>> /\ Start(1) = 0
  <2>1. Start(1) = 0
    BY Starts
  <2> QED
    BY <2>1
<1>2. s[1].rx \in 0..N /\ s[1].wx \in 0..N /\ s[1].size = SpanOf(s)
  BY <1>1, BlocksAre DEF Row
<1>3. SpanOf(s) = 0 + s[1].wx - s[1].rx
  BY <1>1 DEF SpanOf
<1>4. SpanOf(s) = 1
  BY <1>2, <1>3
<1>5. SpanOf(t) = 0
  BY <1>1 DEF SpanOf
<1>6. InRow(t)
  BY DEF InRow
<1>7. Row(t)
  BY <1>2, <1>4, <1>5, <1>6 DEF Row
<1>8. \A i \in 1..SpanOf(t) : EntryOf(t, i) = EntryOf(s, i + 1)
  BY <1>5
<1>9. RowOf(s) # <<>> /\ RowOf(t) = Tail(RowOf(s))
  BY <1>4, <1>5, <1>7, <1>8, TailIs
<1> QED
  BY <1>7, <1>9 DEF Last

\* The last entry of the front block is read: the next one is the front.
LEMMA RowPopBlock ==
    ASSUME N \in Nat \ {0}, NEW s, Row(s), Last(s), NEW n \in Nat \ {0}, Len(s) = n + 1,
           s[1].rx + 1 = s[1].wx,
           NEW t, t \in Seq(Block), Len(t) = n, t[1].size = s[1].size - 1,
           \A b \in 1..n : t[b].rx = s[b + 1].rx /\ t[b].wx = s[b + 1].wx /\ t[b].e = s[b + 1].e
    PROVE  Row(t) /\ Last(t) /\ RowOf(s) # <<>> /\ RowOf(t) = Tail(RowOf(s))
<1>0. /\ s # <<>> /\ t # <<>> /\ n + 1 > 1 /\ n + 1 # 1 /\ 1 # n + 1
      /\ 1 \in 1..n /\ n \in 1..n /\ 1 \in 1..n + 1
      /\ \A b \in 1..n : b + 1 \in 1..n + 1 /\ b + 1 # 1 /\ (b # n => b + 1 # n + 1)
  OBVIOUS
<1>1. PICK m \in Nat, w \in 0..N, a \in 0..N :
         /\ m = Start(Len(s)) /\ w = s[Len(s)].wx /\ a = s[1].rx
         /\ SpanOf(s) = m + w - a /\ SpanOf(s) \in Nat
         /\ Len(s) = 1 => m = 0
         /\ Len(s) > 1 => m >= N
  BY <1>0, SpanIs
<1>2. /\ s[1].wx = N /\ w > 0 /\ s[n + 1].wx = w
      /\ \A b \in 1..n : t[b].rx = 0 /\ (b # n => t[b].wx = N)
      /\ t[n].wx = w
  <2>1. InRow(s) /\ Len(s) = n + 1 /\ n + 1 \in 1..n + 1
    BY <1>0 DEF Row
  <2>2. s[1].wx = N /\ \A b \in 1..n : s[b + 1].rx = 0 /\ (b # n => s[b + 1].wx = N)
    BY ONLY <1>0, <2>1 DEF InRow
  <2>3. w > 0 /\ s[n + 1].wx = w
    BY <1>0, <1>1 DEF Last
  <2>4. \A b \in 1..n : t[b].rx = s[b + 1].rx /\ t[b].wx = s[b + 1].wx
    OBVIOUS
  <2>5. \A b \in 1..n : t[b].rx = 0 /\ (b # n => t[b].wx = N)
    BY ONLY <2>2, <2>4
  <2>6. t[n].wx = w
    BY ONLY <1>0, <2>3, <2>4
  <2> QED
    BY ONLY <2>2, <2>3, <2>5, <2>6
<1>3. m \in Nat /\ w \in Nat /\ a \in Nat /\ N \in Nat \ {0} /\ a + 1 = N
  BY <1>1, <1>2
<1>4. SpanOf(s) = m + w - a /\ SpanOf(s) \in Nat /\ s[1].size = SpanOf(s)
  BY <1>0, <1>1 DEF Row
<1>5. PICK l \in Nat : l = Start(n) /\ m = l + N
  BY <1>1, Starts
<1>6. SpanOf(t) = l + w - 0
  BY <1>0, <1>2, <1>5 DEF SpanOf
<1>7. SpanOf(s) = SpanOf(t) + 1 /\ SpanOf(t) = SpanOf(s) - 1 /\ SpanOf(t) \in Nat
  <2>1. l \in Nat /\ m = l + N
    BY <1>5
  <2> QED
    BY ONLY <1>3, <1>4, <1>6, <2>1
<1>8. Row(t)
  <2>1. t[1].size = SpanOf(t)
    BY <1>4, <1>7
  <2>2. t[1].rx < t[1].wx
    <3>1. t[1].rx = 0 /\ (t[1].wx = N \/ t[1].wx = w)
      BY <1>0, <1>2
    <3> QED
      BY <1>2, <1>3, <3>1
  <2>3. InRow(t)
    BY <1>2 DEF InRow
  <2> QED
    BY <2>1, <2>2, <2>3 DEF Row
<1>9. Last(t)
  BY <1>2 DEF Last
<1>10. ASSUME NEW i \in 1..SpanOf(t) PROVE EntryOf(t, i) = EntryOf(s, i + 1)
  <2>1. PICK b \in 1..Len(t), r \in 1..N :
              /\ PlaceIn(t, i) \in Nat /\ PlaceIn(t, i) + 1 = Start(b) + r
              /\ b = BlockAt(PlaceIn(t, i)) /\ r = EntryIn(PlaceIn(t, i))
              /\ b = Len(t) => r <= t[Len(t)].wx
              /\ EntryOf(t, i) = t[b].e[r] /\ EntryOf(t, i) \in Item
    BY <1>0, <1>8, RowPlace
  <2>2. b \in Nat \ {0} /\ b + 1 \in Nat \ {0}
    OBVIOUS
  <2>3. PICK p \in Nat : p = Start(b) /\ Start(b + 1) = p + N
    BY <2>2, Starts
  <2>4. /\ p \in Nat /\ r \in Nat /\ i \in Int
        /\ 0 + i - 1 + 1 = p + r
    <3>1. PlaceIn(t, i) = 0 + i - 1
      BY <1>0, <1>2 DEF PlaceIn
    <3>2. PlaceIn(t, i) + 1 = p + r
      BY <2>1, <2>3
    <3>3. i \in Int
      BY ONLY <1>7, i \in 1..SpanOf(t)
    <3> QED
      BY <3>1, <3>2, <3>3
  <2>5. PlaceIn(s, i + 1) = a + (i + 1) - 1
    BY <1>1 DEF PlaceIn
  <2>6. PlaceIn(s, i + 1) \in Nat /\ PlaceIn(s, i + 1) + 1 = (p + N) + r
    BY ONLY <1>3, <2>4, <2>5
  <2>7. BlockAt(PlaceIn(s, i + 1)) = b + 1 /\ EntryIn(PlaceIn(s, i + 1)) = r
    <3>1. PlaceIn(s, i + 1) + 1 = Start(b + 1) + r
      BY <2>3, <2>6
    <3> QED
      BY <2>2, <2>6, <3>1, PlaceIs
  <2>8. EntryOf(s, i + 1) = s[b + 1].e[r]
    BY <2>7 DEF EntryOf
  <2> QED
    BY <2>1, <2>8
<1>11. RowOf(s) # <<>> /\ RowOf(t) = Tail(RowOf(s))
  BY <1>7, <1>8, <1>10, TailIs
<1> QED
  BY <1>8, <1>9, <1>11

-----------------------------------------------------------------------------
QueueInv == Row(q) /\ Last(q)

LEMMA EmptyRow == Row(<<>>) /\ Last(<<>>) /\ RowOf(<<>>) = <<>>
<1>1. SpanOf(<<>>) = 0
  BY DEF SpanOf
<1>2. RowOf(<<>>) = <<>>
  BY <1>1 DEF RowOf
<1> QED
  BY <1>2 DEF Row, InRow, Last


\* What an operation leaves of the blocks, block by block.
LEMMA Replaced ==
    ASSUME NEW S, NEW p \in Seq(S), NEW l \in 1..Len(p), NEW c \in S, NEW u, u = [p EXCEPT ![l] = c]
    PROVE  /\ u \in Seq(S) /\ Len(u) = Len(p)
           /\ \A b \in 1..Len(p) : u[b] = IF b = l THEN c ELSE p[b]
OBVIOUS

Filled(b, x) == [[b EXCEPT !.e = [b.e EXCEPT ![b.wx + 1] = x]] EXCEPT !.wx = @ + 1]

LEMMA FilledIs ==
    ASSUME N \in Nat \ {0}, NEW b \in Block, b.wx < N, NEW x \in Item
    PROVE  LET c == Filled(b, x) IN
           /\ c \in Block /\ c.rx = b.rx /\ c.wx = b.wx + 1 /\ c.size = b.size
           /\ \A r \in 1..N : c.e[r] = IF r = b.wx + 1 THEN x ELSE b.e[r]
<1>1. b.wx + 1 \in 1..N /\ b.wx \in 0..N /\ b.e \in [1..N -> Item]
  BY DEF Block
<1>2. PICK n \in 0..N : n = b.wx + 1
  BY <1>1
<1>3. PICK f \in [1..N -> Item] : f = [b.e EXCEPT ![b.wx + 1] = x]
  BY <1>1
<1>4. PICK g : g = [b EXCEPT !.e = f]
  OBVIOUS
<1>5. g \in Block /\ g.rx = b.rx /\ g.wx = b.wx /\ g.size = b.size /\ g.e = f
  BY <1>4 DEF Block
<1>6. PICK c : c = [g EXCEPT !.wx = n]
  OBVIOUS
<1>7. c \in Block /\ c.rx = g.rx /\ c.wx = n /\ c.size = g.size /\ c.e = g.e
  BY ONLY <1>5, <1>6, n \in 0..N DEF Block
<1>8. Filled(b, x) = c
  <2>1. Filled(b, x) = [g EXCEPT !.wx = g.wx + 1]
    BY <1>3, <1>4 DEF Filled
  <2> QED
    BY <1>2, <1>5, <1>6, <2>1
<1>9. \A r \in 1..N : f[r] = IF r = b.wx + 1 THEN x ELSE b.e[r]
  BY <1>1, <1>3
<1> QED
  BY <1>2, <1>5, <1>7, <1>8, <1>9

LEMMA SizeIs ==
    ASSUME NEW b \in Block, NEW n \in Nat, NEW c, c = [b EXCEPT !.size = n]
    PROVE  c \in Block /\ c.rx = b.rx /\ c.wx = b.wx /\ c.size = n /\ c.e = b.e
BY DEF Block

Pushed(p, x) ==
    [[p EXCEPT ![Len(p)].e[p[Len(p)].wx + 1] = x, ![Len(p)].wx = @ + 1] EXCEPT ![1].size = @ + 1]

LEMMA PushPoints ==
    ASSUME N \in Nat \ {0}, NEW p, p \in Seq(Block), p # <<>>, p[Len(p)].wx < N, NEW x \in Item
    PROVE  LET t == Pushed(p, x) IN
           /\ t \in Seq(Block) /\ Len(t) = Len(p)
           /\ \A b \in 1..Len(p) :
                 /\ t[b].rx = p[b].rx
                 /\ t[b].wx = IF b = Len(p) THEN p[b].wx + 1 ELSE p[b].wx
                 /\ t[b].size = IF b = 1 THEN p[b].size + 1 ELSE p[b].size
                 /\ \A r \in 1..N : t[b].e[r] = IF b = Len(p) /\ r = p[b].wx + 1 THEN x ELSE p[b].e[r]
<1>push. PICK t : t = Pushed(p, x)
  OBVIOUS
<1>0. 1 \in 1..Len(p) /\ Len(p) \in 1..Len(p)
  BY BlocksAre
<1>1. PICK l \in 1..Len(p) : l = Len(p)
  BY <1>0
<1>2. PICK u : u = [p EXCEPT ![l].e[p[l].wx + 1] = x, ![l].wx = @ + 1]
  OBVIOUS
<1>3. PICK c : c = Filled(p[l], x)
  OBVIOUS
<1>4. u = [p EXCEPT ![l] = c]
  BY <1>2, <1>3 DEF Filled
<1>5. p[l] \in Block
  OBVIOUS
<1>room. N \in Nat \ {0} /\ x \in Item /\ p[l].wx < N
  BY <1>1
<1>6. /\ c \in Block /\ c.rx = p[l].rx /\ c.wx = p[l].wx + 1 /\ c.size = p[l].size
      /\ \A r \in 1..N : c.e[r] = IF r = p[l].wx + 1 THEN x ELSE p[l].e[r]
  BY ONLY <1>room, <1>3, <1>5, FilledIs
<1>7. /\ u \in Seq(Block) /\ Len(u) = Len(p)
      /\ \A b \in 1..Len(p) : u[b] = IF b = l THEN c ELSE p[b]
  BY ONLY <1>4, <1>6, p \in Seq(Block), Replaced
<1>8. u[1] \in Block /\ u[1].size + 1 \in Nat
  <2>1. u[1] \in Block
    BY ONLY <1>0, <1>1, <1>5, <1>6, <1>7, p \in Seq(Block)
  <2> QED
    BY ONLY <2>1 DEF Block
<1>9. PICK d : d = [u[1] EXCEPT !.size = u[1].size + 1]
  OBVIOUS
<1>10. t = [u EXCEPT ![1] = d]
  BY <1>push, <1>1, <1>2, <1>9 DEF Pushed
<1>11. d \in Block /\ d.rx = u[1].rx /\ d.wx = u[1].wx /\ d.size = u[1].size + 1 /\ d.e = u[1].e
  BY <1>8, <1>9, SizeIs
<1>12. /\ t \in Seq(Block) /\ Len(t) = Len(p)
       /\ \A b \in 1..Len(p) : t[b] = IF b = 1 THEN d ELSE u[b]
  BY ONLY <1>0, <1>7, <1>10, <1>11, Replaced
<1>13. \A b \in 1..Len(p) : /\ t[b].rx = u[b].rx /\ t[b].wx = u[b].wx /\ t[b].e = u[b].e
                            /\ t[b].size = IF b = 1 THEN u[b].size + 1 ELSE u[b].size
  BY ONLY <1>11, <1>12
<1>14. \A b \in 1..Len(p) : /\ u[b].rx = p[b].rx /\ u[b].size = p[b].size
                            /\ u[b].wx = IF b = l THEN p[b].wx + 1 ELSE p[b].wx
                            /\ \A r \in 1..N : u[b].e[r] = IF b = l /\ r = p[b].wx + 1 THEN x ELSE p[b].e[r]
  BY ONLY <1>6, <1>7
<1> QED
  BY ONLY <1>push, <1>1, <1>12, <1>13, <1>14

LEMMA PushBackKeeps ==
    ASSUME N \in Nat \ {0}, QueueInv, NEW x \in Item, PushBack(x)
    PROVE  QueueInv' /\ RowOf(q') = Append(RowOf(q), x)
<1>1. PICK p \in Roomy : q' = Pushed(p, x)
  BY DEF PushBack, Pushed
<1>2. Row(p) /\ RowOf(p) = RowOf(q) /\ p # <<>> /\ p[Len(p)].wx < N
  <2>1. CASE q = <<>> \/ q[Len(q)].wx = N
    <3>1. PICK e \in {[i \in 1..N |-> y] : y \in Item} : p = Append(q, NewBlock(e))
      BY <1>1, <2>1 DEF Roomy
    <3>2. PICK b \in Block : b = NewBlock(e) /\ b.size = 0 /\ b.rx = 0 /\ b.wx = 0
      BY <3>1 DEF NewBlock, Block
    <3>3. q \in Seq(Block)
      BY DEF QueueInv, Row
    <3>4. Row(p) /\ RowOf(p) = RowOf(q)
      BY <2>1, <3>1, <3>2, RowGrows DEF QueueInv
    <3>5. p # <<>> /\ p[Len(p)] = b
      BY <3>1, <3>2, <3>3
    <3> QED
      BY <3>2, <3>4, <3>5
  <2>2. CASE ~(q = <<>> \/ q[Len(q)].wx = N)
    <3>1. p = q
      BY <1>1, <2>2 DEF Roomy
    <3>2. q[Len(q)].wx \in 0..N
      BY <2>2, BlocksAre DEF QueueInv, Row
    <3> QED
      BY <2>2, <3>1, <3>2 DEF QueueInv
  <2> QED
    BY <2>1, <2>2
<1>3. p \in Seq(Block)
  BY <1>2 DEF Row
<1>4. PICK t : t = q'
  OBVIOUS
<1>5. /\ t \in Seq(Block) /\ Len(t) = Len(p)
      /\ \A b \in 1..Len(p) :
            /\ t[b].rx = p[b].rx
            /\ t[b].wx = IF b = Len(p) THEN p[b].wx + 1 ELSE p[b].wx
            /\ t[b].size = IF b = 1 THEN p[b].size + 1 ELSE p[b].size
            /\ \A r \in 1..N : t[b].e[r] = IF b = Len(p) /\ r = p[b].wx + 1 THEN x ELSE p[b].e[r]
  <2>1. t = Pushed(p, x)
    BY <1>1, <1>4
  <2> QED
    BY ONLY <1>2, <1>3, <2>1, N \in Nat \ {0}, x \in Item, PushPoints
<1>6. Row(t) /\ Last(t) /\ RowOf(t) = Append(RowOf(p), x)
  BY <1>2, <1>5, RowPush
<1> QED
  BY <1>2, <1>4, <1>6 DEF QueueInv

Read(b) == [b EXCEPT !.rx = @ + 1, !.size = @ - 1]

LEMMA ReadIs ==
    ASSUME N \in Nat \ {0}, NEW b \in Block, b.rx < b.wx, b.size > 0
    PROVE  LET m == Read(b) IN
           m \in Block /\ m.rx = b.rx + 1 /\ m.size = b.size - 1 /\ m.wx = b.wx /\ m.e = b.e
<1>1. b.rx + 1 \in 0..N /\ b.size - 1 \in Nat
  BY DEF Block
<1>2. PICK r \in 0..N, n \in Nat : r = b.rx + 1 /\ n = b.size - 1
  BY <1>1
<1>3. PICK g : g = [b EXCEPT !.rx = r]
  OBVIOUS
<1>4. g \in Block /\ g.rx = r /\ g.wx = b.wx /\ g.size = b.size /\ g.e = b.e
  BY ONLY <1>3, b \in Block, r \in 0..N DEF Block
<1>5. PICK c : c = [g EXCEPT !.size = n]
  OBVIOUS
<1>6. c \in Block /\ c.rx = g.rx /\ c.wx = g.wx /\ c.size = n /\ c.e = g.e
  BY ONLY <1>4, <1>5, n \in Nat DEF Block
<1>7. Read(b) = c
  <2>1. Read(b) = [g EXCEPT !.size = g.size - 1]
    BY <1>2, <1>3, <1>4 DEF Read
  <2> QED
    BY <1>2, <1>4, <1>5, <2>1
<1> QED
  BY <1>2, <1>4, <1>6, <1>7

LEMMA PopFrontKeeps ==
    ASSUME N \in Nat \ {0}, QueueInv, PopFront
    PROVE  QueueInv' /\ RowOf(q) # <<>> /\ RowOf(q') = Tail(RowOf(q))
<1> DEFINE m == Read(q[1])
<1>0. N \in Nat \ {0} /\ Row(q) /\ Last(q) /\ q \in Seq(Block) /\ q # <<>> /\ q[1].rx < q[1].wx /\ q[1].size > 0
  BY DEF QueueInv, Row, PopFront, Size
<1>1. /\ Len(q) \in Nat \ {0} /\ 1 \in 1..Len(q) /\ (Len(q) = 1 \/ Len(q) > 1) /\ q[1] \in Block
      /\ q[1].rx \in 0..N /\ q[1].wx \in 0..N /\ q[1].size \in Nat
  BY <1>0, BlocksAre
<1>2. m \in Block /\ m.rx = q[1].rx + 1 /\ m.size = q[1].size - 1 /\ m.wx = q[1].wx /\ m.e = q[1].e
  BY <1>0, <1>1, ReadIs
<1>3. IF m.rx < m.wx THEN q' = [q EXCEPT ![1] = m]
      ELSE IF Len(q) = 1 THEN q' = [q EXCEPT ![1] = [m EXCEPT !.rx = 0, !.wx = 0]]
      ELSE q' = [Tail(q) EXCEPT ![1].size = m.size]
  BY DEF PopFront, Read
<1>4. PICK t : t = q'
  OBVIOUS
<1> HIDE DEF m
<1>5. CASE m.rx < m.wx
  <2>1. t = [q EXCEPT ![1] = m]
    BY <1>3, <1>4, <1>5
  <2>2. t \in Seq(Block) /\ Len(t) = Len(q) /\ \A b \in 1..Len(q) : t[b] = IF b = 1 THEN m ELSE q[b]
    BY ONLY <1>0, <1>1, <1>2, <2>1, Replaced
  <2>3. /\ t[1].rx = q[1].rx + 1 /\ t[1].size = q[1].size - 1
        /\ \A b \in 1..Len(q) : t[b].wx = q[b].wx /\ t[b].e = q[b].e /\ (b # 1 => t[b].rx = q[b].rx)
    BY ONLY <1>1, <1>2, <2>2
  <2>4. q[1].rx + 1 < q[1].wx
    BY ONLY <1>2, <1>5
  <2>5. Row(t) /\ Last(t) /\ RowOf(q) # <<>> /\ RowOf(t) = Tail(RowOf(q))
    BY ONLY <1>0, <2>2, <2>3, <2>4, RowPop
  <2> QED
    BY <1>4, <2>5 DEF QueueInv
<1>6. CASE ~(m.rx < m.wx) /\ Len(q) = 1
  <2>1. PICK g : g = [m EXCEPT !.rx = 0]
    OBVIOUS
  <2>2. g \in Block /\ g.rx = 0 /\ g.size = m.size
    <3>1. m \in Block /\ 0 \in 0..N
      BY ONLY <1>0, <1>2
    <3> QED
      BY ONLY <2>1, <3>1 DEF Block
  <2>3. PICK c : c = [g EXCEPT !.wx = 0]
    OBVIOUS
  <2>4. c \in Block /\ c.rx = 0 /\ c.wx = 0 /\ c.size = m.size
    <3>1. g \in Block /\ 0 \in 0..N
      BY ONLY <1>0, <2>2
    <3> QED
      BY ONLY <2>2, <2>3, <3>1 DEF Block
  <2>5. t = [q EXCEPT ![1] = c]
    BY <1>3, <1>4, <1>6, <2>1, <2>3
  <2>6. t \in Seq(Block) /\ Len(t) = Len(q) /\ \A b \in 1..Len(q) : t[b] = IF b = 1 THEN c ELSE q[b]
    BY ONLY <1>0, <1>1, <2>4, <2>5, Replaced
  <2>7. Len(t) = 1 /\ t[1].rx = 0 /\ t[1].wx = 0 /\ t[1].size = q[1].size - 1
    BY ONLY <1>1, <1>2, <1>6, <2>4, <2>6
  <2>8. Len(q) = 1 /\ q[1].rx + 1 = q[1].wx
    BY ONLY <1>0, <1>1, <1>2, <1>6
  <2>9. Row(t) /\ Last(t) /\ RowOf(q) # <<>> /\ RowOf(t) = Tail(RowOf(q))
    BY ONLY <1>0, <2>6, <2>7, <2>8, RowPopLast
  <2> QED
    BY <1>4, <2>9 DEF QueueInv
<1>7. CASE ~(m.rx < m.wx) /\ Len(q) > 1
  <2>1. PICK n \in Nat \ {0} : Len(q) = n + 1
    <3>1. \A n \in Nat \ {0} : n > 1 => n - 1 \in Nat \ {0} /\ n = (n - 1) + 1
      OBVIOUS
    <3> QED
      BY <1>1, <1>7, <3>1
  <2>2. PICK u : u = Tail(q) /\ u \in Seq(Block) /\ Len(u) = n /\ \A b \in 1..n : u[b] = q[b + 1]
    <3>1. Tail(q) \in Seq(Block) /\ Len(Tail(q)) = Len(q) - 1 /\ \A b \in 1..Len(q) - 1 : Tail(q)[b] = q[b + 1]
      BY ONLY <1>0, HeadTailProperties
    <3>2. Len(q) - 1 = n
      BY ONLY <2>1, n \in Nat \ {0}
    <3> QED
      BY ONLY <3>1, <3>2
  <2>3. 1 \in 1..n /\ 1 \in 1..Len(u) /\ u[1] \in Block
    BY ONLY <2>2, n \in Nat \ {0}
  <2>4. m.size \in Nat
    BY ONLY <1>2 DEF Block
  <2>5. PICK c : c = [u[1] EXCEPT !.size = m.size]
    OBVIOUS
  <2>6. c \in Block /\ c.rx = u[1].rx /\ c.wx = u[1].wx /\ c.size = m.size /\ c.e = u[1].e
    BY ONLY <2>3, <2>4, <2>5, SizeIs
  <2>7. t = [u EXCEPT ![1] = c]
    <3>1. q' = [Tail(q) EXCEPT ![1].size = m.size]
      BY <1>3, <1>7, <1>1
    <3> QED
      BY ONLY <1>4, <2>2, <2>5, <3>1
  <2>8. t \in Seq(Block) /\ Len(t) = Len(u) /\ \A b \in 1..Len(u) : t[b] = IF b = 1 THEN c ELSE u[b]
    <3>1. u \in Seq(Block) /\ 1 \in 1..Len(u) /\ c \in Block
      BY <2>2, <2>3, <2>6
    <3> QED
      BY ONLY <2>7, <3>1, Replaced
  <2>9. /\ Len(t) = n /\ t[1].size = q[1].size - 1
        /\ \A b \in 1..n : t[b].rx = q[b + 1].rx /\ t[b].wx = q[b + 1].wx /\ t[b].e = q[b + 1].e
    <3>1. Len(t) = n /\ t[1].size = q[1].size - 1
      BY ONLY <1>2, <2>2, <2>3, <2>6, <2>8
    <3>2. \A b \in 1..n : t[b].rx = u[b].rx /\ t[b].wx = u[b].wx /\ t[b].e = u[b].e
      BY ONLY <2>2, <2>6, <2>8
    <3> QED
      BY ONLY <2>2, <3>1, <3>2
  <2>10. q[1].rx + 1 = q[1].wx
    BY ONLY <1>0, <1>1, <1>2, <1>7
  <2>11. Row(t) /\ Last(t) /\ RowOf(q) # <<>> /\ RowOf(t) = Tail(RowOf(q))
    BY ONLY <1>0, <2>1, <2>8, <2>9, <2>10, n \in Nat \ {0}, RowPopBlock
  <2> QED
    BY <1>4, <2>11 DEF QueueInv
<1> QED
  BY <1>1, <1>5, <1>6, <1>7

LEMMA ContentsAre == Contents = RowOf(q) /\ Contents' = RowOf(q')
BY DEF Contents, Span, RowOf, SpanOf, EntryOf, PlaceIn, BlockAt, EntryIn, Start

\* For blocks of any size, the blocks of the queue of a mutex are one queue: what
\* is popped is what was pushed first, its entries lie in a row through the
\* blocks, and the front block has their number (IsMailbox).
THEOREM TheBlocksAreAQueue == ASSUME N \in Nat \ {0} PROVE Spec => IsMailbox
<1>1. Init => QueueInv /\ Fifo!Init
  BY EmptyRow, ContentsAre DEF Init, QueueInv, Fifo!Init
<1>2. QueueInv /\ [Next]_q => QueueInv' /\ [Fifo!Next]_q
  <2> SUFFICES ASSUME QueueInv, [Next]_q PROVE QueueInv' /\ [Fifo!Next]_q
    OBVIOUS
  <2>1. ASSUME NEW x \in Item, PushBack(x) PROVE QueueInv' /\ [Fifo!Next]_q
    <3>1. QueueInv' /\ Contents' = Append(Contents, x)
      BY <2>1, PushBackKeeps, ContentsAre
    <3> QED
      BY <3>1 DEF Fifo!Next, Fifo!Put
  <2>2. CASE PopFront
    <3>1. QueueInv' /\ Contents # <<>> /\ Contents' = Tail(Contents)
      BY <2>2, PopFrontKeeps, ContentsAre
    <3> QED
      BY <3>1 DEF Fifo!Next, Fifo!Take
  <2>3. CASE UNCHANGED q
    BY <2>3 DEF QueueInv, Row, InRow, Last, SpanOf
  <2> QED
    BY <2>1, <2>2, <2>3 DEF Next
<1>3. QueueInv => InARow
  <2> SUFFICES ASSUME QueueInv PROVE InARow
    OBVIOUS
  <2>1. Size = Span
    BY DEF QueueInv, Row, Size, Span, SpanOf, Start
  <2> QED
    BY <2>1 DEF QueueInv, Row, InRow, InARow
<1> QED
  BY <1>1, <1>2, <1>3, PTL DEF Spec, IsMailbox
-----------------------------------------------------------------------------
(***************************************************************************)
(* The schedulers of a process, for any number of them and any threads, of *)
(* programs that start and stop them as the manager allows for.            *)
(***************************************************************************)
\* There is a processor, a thread is no scheduler, and main() runs in one; and
\* the program takes none of the liberties.
ManTame ==
    /\ Ncpu \in Nat \ {0} /\ SchedNum \in Nat
    /\ Main \in AppThread /\ AppThread \cap Nat = {}
    /\ ManLiberties = {}

ManTypes ==
    /\ asMain \in BOOLEAN /\ made \in BOOLEAN /\ active \in BOOLEAN
    /\ inLoop \in [Scheds -> SUBSET Callers]
    /\ stopped \subseteq Scheds /\ ended \subseteq Scheds
    /\ table \in [Callers -> {0, Num, Ncpu}]
    /\ stopping \in [Callers -> [at : 0..Num, waits : BOOLEAN, stops : BOOLEAN]]
    /\ done \subseteq Callers /\ phase \in {"runs", "exit", "gone"}

\* Who runs each scheduler: its thread or main(), which may be still to come.
Runners ==
    /\ asMain => made
    /\ ~made => stopped = {} /\ done = {} /\ phase = "runs"
    /\ \A s \in Scheds :
          /\ inLoop[s] \subseteq IF s = 0 /\ asMain THEN {Main} ELSE {s}
          /\ ~made => inLoop[s] = {}
          /\ made => inLoop[s] # {} \/ s \in ended \/ (s = 0 /\ asMain)

\* One stops the schedulers at a time, from outside of them; main() has run its
\* scheduler before it does, unless it exits.
OneStops ==
    /\ \A t, u \in Callers : stopping[t].stops /\ stopping[u].stops => t = u
    /\ \A t \in Callers :
          /\ stopping[t].stops => made /\ t \in AppThread
          /\ stopping[t].waits => stopping[t].stops /\ stopping[t].at < Num
    /\ phase = "exit" => stopping[Main].stops
    /\ phase = "gone" => \A t \in Callers : ~stopping[t].stops
    /\ stopping[Main].stops /\ phase = "runs" /\ asMain => 0 \in ended

\* Whoever was told to stop has left its loop, or is waited for.
Told ==
    /\ ended \subseteq stopped
    /\ \A t \in Callers : stopping[t].stops =>
          \A s \in Scheds : s < stopping[t].at => s \in stopped
    /\ \A s \in stopped : \/ inLoop[s] \subseteq {Main}
                          \/ \E t \in Callers : stopping[t].waits /\ stopping[t].at = s
    /\ \A s \in ended : inLoop[s] \subseteq {Main}
    /\ done # {} \/ phase = "gone" =>
          \A s \in Scheds : inLoop[s] \subseteq {Main} /\ s \in stopped

ManInv == ManTypes /\ Runners /\ OneStops /\ Told

LEMMA NumIs ==
    ASSUME ManTame
    PROVE  /\ Num \in Nat \ {0} /\ Num <= Ncpu
           /\ 0 \in Scheds /\ Scheds \subseteq Nat
           /\ \A s \in Scheds : s < Num /\ s \notin AppThread
           /\ Main \in Callers /\ AppThread \subseteq Callers
           /\ Scheds \subseteq Callers
           /\ \A t \in Callers : t \in AppThread \/ t \in Scheds
<1>1. Num \in Nat \ {0} /\ Num <= Ncpu
  BY DEF ManTame, Num
<1> QED
  BY <1>1 DEF ManTame, Scheds, Callers

LEMMA ManStarts == ASSUME ManTame, ManInit PROVE ManInv
<1> USE NumIs DEF ManInit, NotStopping
<1>1. ManTypes
  <2>1. NotStopping \in [at : 0..Num, waits : BOOLEAN, stops : BOOLEAN]
    OBVIOUS
  <2> QED
    BY <2>1 DEF ManTypes
<1>2. Runners
  BY DEF Runners
<1>3. OneStops
  BY DEF OneStops
<1>4. Told
  BY DEF Told
<1> QED
  BY <1>1, <1>2, <1>3, <1>4 DEF ManInv

\* The schedulers start.
LEMMA MakeKeeps ==
    ASSUME ManTame, ManInv, Make, asMain' \in BOOLEAN,
           UNCHANGED <<stopped, ended, stopping, done, phase>>,
           table' \in [Callers -> {0, Num, Ncpu}]
    PROVE  ManInv'
<1> USE NumIs DEF Make, ManInv
<1>0. /\ made' /\ ~made /\ stopped' = {} /\ ended' = {} /\ done' = {} /\ phase' = "runs"
      /\ \A t \in Callers : ~stopping'[t].stops /\ ~stopping'[t].waits
  BY DEF ManTypes, Runners, OneStops, Told
<1>1. ManTypes'
  BY DEF ManTypes
<1>2. Runners'
  BY <1>0 DEF Runners
<1>3. OneStops'
  BY <1>0 DEF OneStops
<1>4. Told'
  BY <1>0 DEF Told
<1> QED
  BY <1>1, <1>2, <1>3, <1>4

LEMMA StartKeeps ==
    ASSUME ManTame, ManInv,
           MainSched \/ MainLoop \/ \E t \in Callers : NextSched(t)
    PROVE  ManInv'
<1> USE NumIs
<1>1. ASSUME MainSched PROVE ManInv'
  <2>1. Make /\ asMain' \in BOOLEAN /\ UNCHANGED <<stopped, ended, stopping, done, phase>>
    BY <1>1 DEF MainSched, ManTame
  <2>2. table' \in [Callers -> {0, Num, Ncpu}]
    BY <1>1 DEF MainSched, ManInv, ManTypes
  <2> QED
    BY <2>1, <2>2, MakeKeeps
<1>2. ASSUME MainLoop PROVE ManInv'
  <2> USE <1>2 DEF MainLoop, ManInv
  <2>1. ManTypes'
    BY DEF ManTypes
  <2>2. Runners'
    BY DEF Runners, ManTypes
  <2>3. OneStops'
    BY DEF OneStops
  <2>4. Told'
    BY DEF Told, ManTypes
  <2> QED
    BY <2>1, <2>2, <2>3, <2>4
<1>3. ASSUME NEW t \in Callers, NextSched(t) PROVE ManInv'
  <2>1. table' \in [Callers -> {0, Num, Ncpu}]
    BY <1>3 DEF NextSched, ManInv, ManTypes
  <2>2. asMain' \in BOOLEAN /\ UNCHANGED <<asMain, stopped, ended, stopping, done, phase>>
    BY <1>3 DEF NextSched, ManInv, ManTypes
  <2>3. CASE Make
    BY <2>1, <2>2, <2>3, MakeKeeps
  <2>4. CASE made /\ UNCHANGED <<made, active, inLoop>>
    <3> USE <2>1, <2>2, <2>4 DEF ManInv
    <3>1. ManTypes'
      BY DEF ManTypes
    <3>2. Runners' /\ OneStops' /\ Told'
      BY DEF Runners, OneStops, Told
    <3> QED
      BY <3>1, <3>2
  <2> QED
    BY <1>3, <2>3, <2>4 DEF NextSched
<1> QED
  BY <1>1, <1>2, <1>3

LEMMA EndKeeps ==
    ASSUME ManTame, ManInv, NEW s \in Scheds, NEW r \in inLoop[s], LoopEnds(s, r)
    PROVE  ManInv'
<1> USE NumIs DEF LoopEnds, ManInv
<1>1. ManTypes'
  BY DEF ManTypes
<1>2. Runners'
  BY DEF Runners, ManTypes
<1>3. OneStops'
  BY DEF OneStops
<1>4. Told'
  <2>1. \A u \in Scheds : inLoop'[u] \subseteq inLoop[u]
    BY DEF ManTypes
  <2>2. inLoop'[s] \subseteq {Main}
    BY DEF ManTypes, Runners
  <2> QED
    BY <2>1, <2>2 DEF Told, ManTypes
<1> QED
  BY <1>1, <1>2, <1>3, <1>4

\* stop_scheds(), or exit, begins.
LEMMA BeginKeeps ==
    ASSUME ManTame, ManInv, NEW t \in AppThread, Begins(t), made, phase # "gone",
           UNCHANGED <<asMain, made, active, inLoop, stopped, ended, table, done>>,
           phase' = phase \/ (phase' = "exit" /\ t = Main),
           t = Main /\ asMain /\ phase' = "runs" => 0 \in ended
    PROVE  ManInv'
<1> USE NumIs DEF ManInv
<1>0. /\ \A u \in Callers : ~stopping[u].stops /\ ~stopping[u].waits
      /\ stopping' = [stopping EXCEPT ![t] = [at |-> 0, waits |-> FALSE, stops |-> TRUE]]
  BY DEF Begins, ManTame, OneStops
<1>1. ManTypes'
  BY <1>0 DEF ManTypes
<1>2. /\ \A u \in Callers : (stopping'[u].stops <=> u = t) /\ ~stopping'[u].waits
      /\ stopping'[t].at = 0
  BY <1>0 DEF ManTypes
<1>3. Runners'
  BY DEF Runners
<1>4. OneStops'
  BY <1>0, <1>2 DEF OneStops, ManTypes
<1>5. Told'
  BY <1>0, <1>2 DEF Told, ManTypes
<1> QED
  BY <1>1, <1>3, <1>4, <1>5

LEMMA StopOneKeeps ==
    ASSUME ManTame, ManInv, NEW t \in Callers, StopOne(t)
    PROVE  ManInv'
<1> DEFINE s == stopping[t].at
<1>1. s \in Scheds /\ s \in Nat /\ stopping[t].stops /\ made /\ ~stopping[t].waits
  BY NumIs DEF ManInv, ManTypes, OneStops, StopOne, Scheds
<1>2. /\ \A u \in Callers : /\ stopping'[u].stops = stopping[u].stops
                                    /\ u # t => stopping'[u] = stopping[u] /\ ~stopping[u].stops
      /\ ~stopping[t].waits
      /\ IF s \in stopped THEN stopping'[t].at = s + 1 /\ ~stopping'[t].waits
         ELSE stopping'[t].at = s /\ stopping'[t].waits
      /\ stopped' = stopped \cup {s}
  BY <1>1 DEF ManInv, ManTypes, OneStops, StopOne
<1> USE NumIs DEF ManInv
<1>3. ManTypes'
  <2>1. stopping' \in [Callers -> [at : 0..Num, waits : BOOLEAN, stops : BOOLEAN]]
    <3>1. CASE s \in stopped
      BY <1>1, <3>1 DEF ManTypes, StopOne
    <3>2. CASE s \notin stopped
      BY <1>1, <3>2 DEF ManTypes, StopOne
    <3> QED
      BY <3>1, <3>2
  <2> QED
    BY <1>1, <2>1 DEF ManTypes, StopOne
<1>4. Runners'
  BY <1>1 DEF Runners, StopOne
<1>5. OneStops'
  BY <1>1, <1>2 DEF OneStops, StopOne, ManTypes
<1>6. Told'
  BY <1>1, <1>2 DEF Told, StopOne, ManTypes, OneStops
<1> QED
  BY <1>3, <1>4, <1>5, <1>6

LEMMA WaitedKeeps ==
    ASSUME ManTame, ManInv, NEW t \in Callers, StopWaited(t)
    PROVE  ManInv'
<1> DEFINE s == stopping[t].at
<1>1. s \in Scheds /\ s \in Nat /\ stopping[t].stops /\ made /\ s < Num
  BY NumIs DEF ManInv, ManTypes, OneStops, StopWaited, Scheds
<1>2. /\ \A u \in Callers : /\ stopping'[u].stops = stopping[u].stops
                                    /\ u # t => stopping'[u] = stopping[u] /\ ~stopping[u].stops
      /\ stopping'[t].at = s + 1 /\ ~stopping'[t].waits
      /\ inLoop[s] \subseteq {Main}
  BY <1>1 DEF ManInv, ManTypes, OneStops, Told, StopWaited, Expires, ManTame
<1> USE NumIs DEF ManInv
<1>3. ManTypes'
  BY <1>1 DEF ManTypes, StopWaited
<1>4. Runners'
  BY <1>1 DEF Runners, StopWaited
<1>5. OneStops'
  BY <1>1, <1>2 DEF OneStops, StopWaited, ManTypes
<1>6. Told'
  BY <1>1, <1>2 DEF Told, StopWaited, ManTypes, OneStops
<1> QED
  BY <1>3, <1>4, <1>5, <1>6

LEMMA ReturnsKeeps ==
    ASSUME ManTame, ManInv, NEW t \in Callers, StopReturns(t)
    PROVE  ManInv'
<1> USE NumIs DEF ManInv
<1>1. /\ \A u \in Callers : ~stopping'[u].stops /\ ~stopping'[u].waits
      /\ \A u \in Callers : ~stopping[u].waits
  BY DEF ManTypes, OneStops, StopReturns, NotStopping
<1>2. ManTypes'
  <2>1. NotStopping \in [at : 0..Num, waits : BOOLEAN, stops : BOOLEAN]
    BY DEF NotStopping
  <2>2. stopping' \in [Callers -> [at : 0..Num, waits : BOOLEAN, stops : BOOLEAN]]
    BY <2>1 DEF ManTypes, StopReturns
  <2> QED
    BY <2>2 DEF ManTypes, StopReturns
<1>3. Runners'
  BY DEF Runners, OneStops, StopReturns
<1>4. OneStops'
  <2>1. phase' # "exit"
    BY DEF OneStops, ManTypes, StopReturns
  <2> QED
    BY <1>1, <2>1 DEF OneStops
<1>5. Told'
  <2>1. \A s \in Scheds : s \in stopped /\ inLoop[s] \subseteq {Main}
    BY <1>1 DEF Told, ManTypes, OneStops, StopReturns
  <2> QED
    BY <1>1, <2>1 DEF Told, ManTypes, StopReturns
<1> QED
  BY <1>2, <1>3, <1>4, <1>5

LEMMA ManStays ==
    ASSUME ManTame, ManInv, [ManNext]_manVars
    PROVE  ManInv'
<1>1. CASE UNCHANGED manVars
  BY <1>1 DEF manVars, ManInv, ManTypes, Runners, OneStops, Told
<1>2. CASE Exit
  <2>1. Main \in AppThread
    BY DEF ManTame
  <2> QED
    BY <1>2, <2>1, BeginKeeps DEF Exit, CanCall
<1>3. ASSUME NEW t \in Callers, StopScheds(t) PROVE ManInv'
  <2>1. t \in AppThread /\ (t = Main /\ asMain => 0 \in ended)
    BY <1>3 DEF StopScheds, ManTame
  <2> QED
    BY <1>3, <2>1, BeginKeeps DEF StopScheds, CanCall
<1> QED
  BY <1>1, <1>2, <1>3, StartKeeps, EndKeeps, StopOneKeeps, WaitedKeeps, ReturnsKeeps DEF ManNext

LEMMA ManCardinality == \A S : Cardinality(S) = Cardinality(S)
BY DEF Cardinality, Cardinality

LEMMA ManOrder == ASSUME ManTame, ManInv PROVE StopsInOrder
<1> USE NumIs DEF ManInv
<1>1. ASSUME NEW s \in Scheds PROVE Cardinality(inLoop[s]) <= 1
  <2>1. PICK r : inLoop[s] \subseteq {r}
    BY DEF Runners
  <2>2. inLoop[s] = {} \/ inLoop[s] = {r}
    BY <2>1
  <2>3. Cardinality(inLoop[s]) \in {0, 1}
    BY <2>2, FS_EmptySet, FS_Singleton
  <2> QED
    BY <2>3, ManCardinality
<1>2. StopIsComplete
  BY <1>1 DEF Told, StopIsComplete
<1>3. StopCanReturn
  <2> SUFFICES ASSUME NEW t \in Callers, stopping[t].waits, stopping[t].at \notin ended,
                      ~(t = Main /\ phase = "exit")
               PROVE  \/ inLoop[stopping[t].at] # {} /\ ~stopping[stopping[t].at].stops
                      \/ stopping[t].at = 0 /\ asMain /\ phase = "runs" /\ ~stopping[Main].stops
    BY DEF StopCanReturn
  <2>1. stopping[t].at \in Scheds /\ stopping[t].stops /\ made
    BY DEF ManTypes, OneStops, Scheds
  <2>2. ~stopping[stopping[t].at].stops
    BY <2>1 DEF OneStops
  <2>3. phase = "runs"
    BY <2>1 DEF OneStops, ManTypes
  <2>4. stopping[Main].stops => t = Main
    BY <2>1 DEF OneStops
  <2>5. CASE inLoop[stopping[t].at] # {}
    BY <2>2, <2>5
  <2>6. CASE stopping[t].at = 0 /\ asMain
    BY <2>3, <2>4, <2>6, <2>1 DEF OneStops
  <2> QED
    BY <2>1, <2>5, <2>6 DEF Runners
<1>4. TimesCovered
  BY DEF ManTypes, TimesCovered, ManTame
<1> QED
  BY <1>2, <1>3, <1>4 DEF StopsInOrder

\* Whatever the number of schedulers and threads, one thread at most runs each
\* scheduler; when stop_scheds() has returned, and when they are destroyed, all
\* of them were told to stop and none runs; who waits for one of them waits for
\* a loop that runs or that main() is still to run; and the times a thread
\* remembers cover all of them (StopsInOrder).
THEOREM ManagerStops == ManTame => (ManSpec => []StopsInOrder)
<1> SUFFICES ASSUME ManTame PROVE ManSpec => []StopsInOrder
  OBVIOUS
<1>1. ManInit => ManInv
  BY ManStarts
<1>2. ManInv /\ [ManNext]_manVars => ManInv'
  BY ManStays
<1>3. ManInv => StopsInOrder
  BY ManOrder
<1> QED
  BY <1>1, <1>2, <1>3, PTL DEF ManSpec
=============================================================================
