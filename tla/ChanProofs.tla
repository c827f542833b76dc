----------------------------- MODULE ChanProofs -----------------------------
(***************************************************************************)
(* Proofs about the channel, for any coroutines and threads, any capacity  *)
(* and any number of operations: the inductive invariant behind Fifo,      *)
(* DoneVerdict and WaitersExact, and the proof of StacksUntouched.         *)
(*                                                                         *)
(* The invariant follows an operation from the call to the answer.  Who is *)
(* queued waits or has timed out, readers on an empty buffer and writers   *)
(* on a full one; an operation is served (done() says so, or will) exactly *)
(* if the object of the writer entered the channel, or the reader has one; *)
(* and each object that left the channel is with one reader.               *)
(***************************************************************************)
EXTENDS Chan, QueueLemmas

\* An operation nobody has called, and one that has not returned.
Future(o) == o[2] > ops[o[1]]
Pending(o) == o[2] = ops[o[1]] /\ pc[o[1]] # "idle"

\* Its answer is that it is done, or will be.
Served(o) == told[o] = "done" \/ done[o] = 1
Holds(o, x) == got[o] = x \/ hbuf[o] = x

PlacesInv == (full => rx = wx) /\ \A k \in 0..Cap-1 : slot[k] # Raw <=> (k + Cap - rx) % Cap < Count

QueueInv ==
    /\ Distinct(wq)
    /\ \A o \in Op : Queued(o) =>
          /\ done[o] = 0 /\ doing[o] # "none"
          /\ IF doing[o] = "read" THEN Empty /\ closed # 2 ELSE full

WaitxInv ==
    \A o \in Op :
        /\ state[o] = "wait" => Waits(o) /\ (Timed => done[o] = 0)
        /\ state[o] = "ready" => Waits(o) /\ done[o] # 0
        /\ state[o] = "timeout" => Queued(o) /\ ~Waits(o)
        /\ state[o] = "free" => ~Queued(o) /\ ~Waits(o)
        /\ Waits(o) /\ done[o] = 0 => state[o] = "wait" /\ Queued(o)

ThreadPhases == {"idle", "cv", "woken"} \cup IF Timed THEN {"expired"} ELSE {}

PhaseInv ==
    /\ \A a \in Actor : /\ pc[a] # "idle" => ops[a] # 0
                        /\ a \in Co => pc[a] \in {"idle", "suspended", "timedout"}
                        /\ a \in Thread => pc[a] \in ThreadPhases
    /\ \A o \in Op :
        /\ doing[o] = "none" <=> Future(o)
        /\ told[o] = "none" <=> Future(o) \/ Pending(o)
        /\ told[o] = "none" /\ ~Waits(o) => done[o] = 0
        /\ told[o] = "enod" => done[o] # 1
        /\ done[o] = 2 => doing[o] = "read"

WritersInv ==
    \A o \in Op :
        /\ Entered(o) => doing[o] = "write"
        /\ doing[o] = "write" => (Entered(o) <=> Served(o))
        /\ doing[o] # "read" =>
              got[o] = Raw /\ hbuf[o] = IF o[1] \in OnStack /\ Queued(o) THEN o ELSE Raw

ReadersInv ==
    \A o \in Op : doing[o] = "read" =>
        /\ Served(o) <=> got[o] # Raw \/ hbuf[o] # Raw
        /\ o[1] \notin OnStack \/ told[o] # "none" => hbuf[o] = Raw
        /\ o[1] \in OnStack /\ told[o] = "none" => got[o] = Raw

\* Each object that left the channel is with one reader.
HoldersInv ==
    /\ \A o \in Reads, x \in Op : Holds(o, x) => Has(delivered, x)
    /\ \A o, p \in Reads, x \in Op : Holds(o, x) /\ Holds(p, x) => o = p
    /\ \A x \in Op : Has(delivered, x) => \E o \in Reads : Holds(o, x)

OrderInv == accepted = delivered \o Contents /\ Distinct(accepted)

ChanInv ==
    TypeOK /\ PlacesInv /\ QueueInv /\ WaitxInv /\ PhaseInv /\ WritersInv /\ ReadersInv /\ HoldersInv /\ OrderInv

-----------------------------------------------------------------------------
\* The ring, read at r and written at w: how many blocks are in use, the
\* objects in them, oldest first, and which blocks they are.
Slots == [0..Cap-1 -> Op \cup {Raw}]

Size(r, w, f) == IF f THEN Cap ELSE (w + Cap - r) % Cap
Row(s, r, n) == [i \in 1..n |-> s[(r + i - 1) % Cap]]
Used(s, r, n) == \A k \in 0..Cap-1 : s[k] # Raw <=> (k + Cap - r) % Cap < n

\* t is s but for one block.
Puts(s, t, b, x) == \A k \in 0..Cap-1 : t[k] = IF k = b THEN x ELSE s[k]

LEMMA ModOnce ==
    ASSUME NEW n \in Nat, n < 2 * Cap
    PROVE  n % Cap = IF n < Cap THEN n ELSE n - Cap
BY ChanAssumption

LEMMA StepIs ==
    ASSUME NEW i \in 0..Cap-1
    PROVE  Step(i) \in 0..Cap-1 /\ Step(i) = IF i + 1 = Cap THEN 0 ELSE i + 1
<1>1. (i + 1) % Cap = IF i + 1 < Cap THEN i + 1 ELSE i + 1 - Cap
  BY ModOnce, ChanAssumption
<1> QED
  BY <1>1, ChanAssumption DEF Step

LEMMA PlaceIs ==
    ASSUME NEW r \in 0..Cap-1, NEW i \in 1..Cap
    PROVE  /\ (r + i - 1) % Cap = IF r + i - 1 < Cap THEN r + i - 1 ELSE r + i - 1 - Cap
           /\ (r + i - 1) % Cap \in 0..Cap-1
<1>1. r + i - 1 \in Nat /\ r + i - 1 < 2 * Cap
  BY ChanAssumption
<1> QED
  BY <1>1, ModOnce, ChanAssumption

LEMMA OffsetIs ==
    ASSUME NEW r \in 0..Cap-1, NEW k \in 0..Cap-1
    PROVE  /\ (k + Cap - r) % Cap = IF k < r THEN k + Cap - r ELSE k - r
           /\ (k + Cap - r) % Cap \in 0..Cap-1
<1>1. k + Cap - r \in Nat /\ k + Cap - r < 2 * Cap
  BY ChanAssumption
<1> QED
  BY <1>1, ModOnce, ChanAssumption

\* How many blocks are in use, after a read, a write, and both.
LEMMA SizeIs ==
    ASSUME NEW r \in 0..Cap-1, NEW w \in 0..Cap-1, NEW f \in BOOLEAN, f => r = w
    PROVE  /\ Size(r, w, f) \in 0..Cap
           /\ Size(r, w, f) = 0 <=> r = w /\ ~f
           /\ Size(r, w, f) = Cap <=> f
           /\ Size(r, w, f) # 0 => Size(Step(r), w, FALSE) = Size(r, w, f) - 1
           /\ ~f => Size(r, Step(w), r = Step(w)) = Size(r, w, f) + 1
           /\ ~f => w = (r + (Size(r, w, f) + 1) - 1) % Cap
<1>1. /\ Step(r) \in 0..Cap-1 /\ Step(r) = IF r + 1 = Cap THEN 0 ELSE r + 1
      /\ Step(w) \in 0..Cap-1 /\ Step(w) = IF w + 1 = Cap THEN 0 ELSE w + 1
  BY StepIs
<1>2. Size(r, w, f) = IF f THEN Cap ELSE IF w < r THEN w + Cap - r ELSE w - r
  BY OffsetIs DEF Size
<1>3. Size(Step(r), w, FALSE) = IF w < Step(r) THEN w + Cap - Step(r) ELSE w - Step(r)
  BY <1>1, OffsetIs DEF Size
<1>4. Size(r, Step(w), r = Step(w)) = IF r = Step(w) THEN Cap ELSE IF Step(w) < r THEN Step(w) + Cap - r ELSE Step(w) - r
  BY <1>1, OffsetIs DEF Size
<1>5. Size(r, w, f) \in 0..Cap /\ (Size(r, w, f) = 0 <=> r = w /\ ~f) /\ (Size(r, w, f) = Cap <=> f)
  BY <1>2, ChanAssumption
<1>6. Size(r, w, f) # 0 => Size(Step(r), w, FALSE) = Size(r, w, f) - 1
  <2> DEFINE q == Step(r)
             m == Size(q, w, FALSE)
             n == Size(r, w, f)
  <2>1. q \in 0..Cap-1 /\ q = (IF r + 1 = Cap THEN 0 ELSE r + 1) /\ m = IF w < q THEN w + Cap - q ELSE w - q
    BY <1>1, <1>3
  <2>2. n = (IF f THEN Cap ELSE IF w < r THEN w + Cap - r ELSE w - r) /\ (n = 0 <=> r = w /\ ~f)
    BY <1>2, <1>5
  <2> HIDE DEF q, m, n
  <2>3. n # 0 => m = n - 1
    <3>1. CASE f
      BY <2>1, <2>2, <3>1, ChanAssumption
    <3>2. CASE ~f
      BY <2>1, <2>2, <3>2, ChanAssumption
    <3> QED
      BY <3>1, <3>2
  <2> QED
    BY <2>3 DEF q, m, n
<1>7. ~f => Size(r, Step(w), r = Step(w)) = Size(r, w, f) + 1
  BY <1>1, <1>2, <1>4, ChanAssumption
<1>8. ~f => w = (r + (Size(r, w, f) + 1) - 1) % Cap
  BY <1>2, <1>5, PlaceIs, ChanAssumption
<1> QED
  BY <1>5, <1>6, <1>7, <1>8

LEMMA RowIs ==
    ASSUME NEW s \in Slots, NEW r \in 0..Cap-1, NEW n \in 0..Cap, Used(s, r, n)
    PROVE  /\ Row(s, r, n) \in Seq(Op) /\ Len(Row(s, r, n)) = n
           /\ \A i \in 1..n : Row(s, r, n)[i] = s[(r + i - 1) % Cap]
<1>1. ASSUME NEW i \in 1..n PROVE s[(r + i - 1) % Cap] \in Op
  <2> DEFINE k == (r + i - 1) % Cap
  <2>1. k \in 0..Cap-1 /\ k = IF r + i - 1 < Cap THEN r + i - 1 ELSE r + i - 1 - Cap
    BY PlaceIs, ChanAssumption
  <2>2. (k + Cap - r) % Cap = IF k < r THEN k + Cap - r ELSE k - r
    BY <2>1, OffsetIs
  <2>3. (k + Cap - r) % Cap < n
    BY <2>1, <2>2, ChanAssumption
  <2> QED
    BY <2>1, <2>3 DEF Slots, Used
<1>2. n \in Nat
  BY ChanAssumption
<1>3. Row(s, r, n) \in [1..n -> Op]
  BY <1>1 DEF Row
<1>4. \A i \in 1..n : Row(s, r, n)[i] = s[(r + i - 1) % Cap]
  BY DEF Row
<1> QED
  BY <1>2, <1>3, <1>4

\* The oldest object is taken.
LEMMA RowTail ==
    ASSUME NEW s \in Slots, NEW t \in Slots, NEW r \in 0..Cap-1, NEW n \in 1..Cap, Used(s, r, n),
           Puts(s, t, r, Raw)
    PROVE  /\ Used(t, Step(r), n - 1)
           /\ Row(s, r, n) # <<>> /\ Head(Row(s, r, n)) = s[r]
           /\ Row(t, Step(r), n - 1) = Tail(Row(s, r, n))
<1> USE DEF Puts
<1>1. Step(r) \in 0..Cap-1 /\ Step(r) = IF r + 1 = Cap THEN 0 ELSE r + 1
  BY StepIs
<1>2. Used(t, Step(r), n - 1)
  <2> SUFFICES ASSUME NEW k \in 0..Cap-1 PROVE t[k] # Raw <=> (k + Cap - Step(r)) % Cap < n - 1
    BY DEF Used
  <2>1. /\ (k + Cap - r) % Cap = IF k < r THEN k + Cap - r ELSE k - r
        /\ (k + Cap - Step(r)) % Cap = IF k < Step(r) THEN k + Cap - Step(r) ELSE k - Step(r)
    BY <1>1, OffsetIs
  <2>2. s[k] # Raw <=> (k + Cap - r) % Cap < n
    BY DEF Used
  <2>3. k # r => ((k + Cap - r) % Cap < n <=> (k + Cap - Step(r)) % Cap < n - 1)
    BY <1>1, <2>1, ChanAssumption
  <2>4. k = r => ~((k + Cap - Step(r)) % Cap < n - 1)
    BY <1>1, <2>1, ChanAssumption
  <2> QED
    BY <2>2, <2>3, <2>4
<1>3. /\ Row(s, r, n) \in Seq(Op) /\ Len(Row(s, r, n)) = n
      /\ \A i \in 1..n : Row(s, r, n)[i] = s[(r + i - 1) % Cap]
  <2>1. n \in 0..Cap
    BY ChanAssumption
  <2> QED
    BY <2>1, RowIs
<1>4. /\ Row(t, Step(r), n - 1) \in Seq(Op) /\ Len(Row(t, Step(r), n - 1)) = n - 1
      /\ \A i \in 1..n - 1 : Row(t, Step(r), n - 1)[i] = t[(Step(r) + i - 1) % Cap]
  <2>1. n - 1 \in 0..Cap
    BY ChanAssumption
  <2> QED
    BY <1>1, <1>2, <2>1, RowIs
<1> DEFINE R == Row(s, r, n)
           T == Row(t, Step(r), n - 1)
<1> HIDE DEF R, T
<1>5. R # <<>> /\ Head(R) = s[r]
  <2>1. (r + 1 - 1) % Cap = r
    BY PlaceIs, ChanAssumption
  <2> QED
    BY <1>3, <2>1 DEF R
<1>6. /\ Tail(R) \in Seq(Op) /\ Len(Tail(R)) = n - 1
      /\ \A i \in 1..n - 1 : Tail(R)[i] = R[i + 1]
  BY <1>3, <1>5, HeadTailProperties DEF R
<1>7. ASSUME NEW i \in 1..n - 1 PROVE Tail(R)[i] = T[i]
  <2>1. i \in 1..Cap /\ i + 1 \in 1..Cap /\ i + 1 \in 1..n
    BY ChanAssumption
  <2>2. (r + (i + 1) - 1) % Cap = IF r + (i + 1) - 1 < Cap THEN r + (i + 1) - 1 ELSE r + (i + 1) - 1 - Cap
    BY <2>1, PlaceIs
  <2>3. (Step(r) + i - 1) % Cap = IF Step(r) + i - 1 < Cap THEN Step(r) + i - 1 ELSE Step(r) + i - 1 - Cap
    BY <1>1, <2>1, PlaceIs
  <2>4. (r + (i + 1) - 1) % Cap = (Step(r) + i - 1) % Cap /\ (Step(r) + i - 1) % Cap # r /\ (Step(r) + i - 1) % Cap \in 0..Cap-1
    BY <1>1, <2>1, <2>2, <2>3, ChanAssumption
  <2>5. Tail(R)[i] = R[i + 1] /\ R[i + 1] = s[(r + (i + 1) - 1) % Cap] /\ T[i] = t[(Step(r) + i - 1) % Cap]
    BY <1>3, <1>4, <1>6, <2>1 DEF R, T
  <2> QED
    BY <2>4, <2>5
<1>8. T = Tail(R)
  BY <1>4, <1>6, <1>7, SeqEqual DEF T
<1> QED
  BY <1>2, <1>5, <1>8 DEF R, T

\* One more, in the block behind the last.
LEMMA RowAppend ==
    ASSUME NEW s \in Slots, NEW t \in Slots, NEW r \in 0..Cap-1, NEW n \in 0..Cap-1, Used(s, r, n),
           NEW w, w = (r + (n + 1) - 1) % Cap, NEW x \in Op,
           Puts(s, t, w, x)
    PROVE  /\ Used(t, r, n + 1)
           /\ Row(t, r, n + 1) = Append(Row(s, r, n), x)
<1> USE DEF Puts
<1>1. w \in 0..Cap-1 /\ w = IF r + (n + 1) - 1 < Cap THEN r + (n + 1) - 1 ELSE r + (n + 1) - 1 - Cap
  BY PlaceIs, ChanAssumption
<1>2. Used(t, r, n + 1)
  <2> SUFFICES ASSUME NEW k \in 0..Cap-1 PROVE t[k] # Raw <=> (k + Cap - r) % Cap < n + 1
    BY DEF Used
  <2>1. (k + Cap - r) % Cap = IF k < r THEN k + Cap - r ELSE k - r
    BY OffsetIs
  <2>2. s[k] # Raw <=> (k + Cap - r) % Cap < n
    BY DEF Used
  <2>3. k # w => ((k + Cap - r) % Cap < n <=> (k + Cap - r) % Cap < n + 1)
    BY <1>1, <2>1, ChanAssumption
  <2>4. k = w => (k + Cap - r) % Cap < n + 1
    BY <1>1, <2>1, ChanAssumption
  <2>5. x # Raw /\ w \in 0..Cap-1
    BY <1>1, ChanAssumption DEF Op, Actor
  <2>6. t[k] = IF k = w THEN x ELSE s[k]
    OBVIOUS
  <2> QED
    BY <2>2, <2>3, <2>4, <2>5, <2>6
<1>3. /\ Row(s, r, n) \in Seq(Op) /\ Len(Row(s, r, n)) = n
      /\ \A i \in 1..n : Row(s, r, n)[i] = s[(r + i - 1) % Cap]
  BY RowIs, ChanAssumption
<1>4. /\ Row(t, r, n + 1) \in Seq(Op) /\ Len(Row(t, r, n + 1)) = n + 1
      /\ \A i \in 1..n + 1 : Row(t, r, n + 1)[i] = t[(r + i - 1) % Cap]
  <2>1. n + 1 \in 0..Cap
    BY ChanAssumption
  <2> QED
    BY <1>2, <2>1, RowIs
<1> DEFINE R == Row(s, r, n)
           T == Row(t, r, n + 1)
<1> HIDE DEF R, T
<1>5. Append(R, x) \in Seq(Op) /\ Len(Append(R, x)) = n + 1
      /\ \A i \in 1..n + 1 : Append(R, x)[i] = IF i = n + 1 THEN x ELSE R[i]
  BY <1>3, AppendProperties DEF R
<1>6. ASSUME NEW i \in 1..n PROVE T[i] = R[i]
  <2>1. i \in 1..Cap
    BY ChanAssumption
  <2>2. (r + i - 1) % Cap = IF r + i - 1 < Cap THEN r + i - 1 ELSE r + i - 1 - Cap
    BY <2>1, PlaceIs
  <2>3. (r + i - 1) % Cap # w /\ (r + i - 1) % Cap \in 0..Cap-1
    BY <1>1, <2>1, <2>2, ChanAssumption
  <2>4. T[i] = t[(r + i - 1) % Cap] /\ R[i] = s[(r + i - 1) % Cap]
    BY <1>3, <1>4 DEF R, T
  <2> QED
    BY <2>3, <2>4
<1>7. T[n + 1] = x
  <2>1. n + 1 \in 1..n + 1 /\ T[n + 1] = t[(r + (n + 1) - 1) % Cap]
    BY <1>4, ChanAssumption DEF T
  <2> QED
    BY <1>1, <2>1
<1>8. T = Append(R, x)
  BY <1>4, <1>5, <1>6, <1>7, SeqEqual DEF T
<1> QED
  BY <1>2, <1>8 DEF R, T

-----------------------------------------------------------------------------
\* Operations.
LEMMA OpIs ==
    ASSUME NEW o \in Op
    PROVE  /\ o = <<o[1], o[2]>> /\ o[1] \in Actor /\ o[2] \in 1..MaxOps
           /\ Waits(o) <=> o[2] = ops[o[1]] /\ pc[o[1]] \notin {"idle", "timedout"}
           /\ Waits(o)' <=> o[2] = ops'[o[1]] /\ pc'[o[1]] \notin {"idle", "timedout"}
<1>1. o = <<o[1], o[2]>> /\ o[1] \in Actor /\ o[2] \in 1..MaxOps
  BY DEF Op
<1>2. \A a \in Actor : (o = <<a, ops[a]>> <=> a = o[1] /\ o[2] = ops[a])
  BY <1>1
<1>3. \A a \in Actor : (o = <<a, ops'[a]>> <=> a = o[1] /\ o[2] = ops'[a])
  BY <1>1
<1> QED
  BY <1>1, <1>2, <1>3 DEF Waits, Current

\* The operation a is about to begin.
New(a) == <<a, ops[a] + 1>>

LEMMA BeginIs ==
    ASSUME ChanInv, NEW a \in Actor, NEW kind \in {"read", "write"}, Begin(a, kind)
    PROVE  /\ Current(a)' = New(a) /\ New(a) \in Op /\ New(a)[1] = a
           /\ pc[a] = "idle" /\ ops' = [ops EXCEPT ![a] = @ + 1]
           /\ ops' \in [Actor -> 0..MaxOps]
           /\ doing' \in [Op -> {"none", "read", "write"}]
           /\ doing'[New(a)] = kind /\ \A o \in Op \ {New(a)} : doing'[o] = doing[o]
           /\ closed' = closed
           /\ doing[New(a)] = "none" /\ told[New(a)] = "none" /\ done[New(a)] = 0 /\ state[New(a)] = "free"
           /\ got[New(a)] = Raw /\ hbuf[New(a)] = Raw
           /\ ~Queued(New(a)) /\ ~Entered(New(a)) /\ ~Pending(New(a)) /\ ~Waits(New(a))
           /\ \A o \in Op : Future(o)' <=> Future(o) /\ o # New(a)
<1> DEFINE n == New(a)
<1>1. /\ pc[a] = "idle" /\ ops[a] < MaxOps /\ ops' = [ops EXCEPT ![a] = @ + 1] /\ closed' = closed
      /\ doing' = [doing EXCEPT ![Current(a)'] = kind] /\ TypeOK
  BY DEF Begin, ChanInv
<1>2. ops[a] \in 0..MaxOps /\ ops'[a] = ops[a] + 1 /\ ops[a] + 1 \in 1..MaxOps /\ MaxOps \in Nat
  BY <1>1, ChanAssumption DEF TypeOK
<1>3. Current(a)' = n /\ n \in Op /\ n[1] = a /\ n[2] = ops[a] + 1
  BY <1>2 DEF Current, New, Op
<1> HIDE DEF n
<1>4. /\ ops' \in [Actor -> 0..MaxOps] /\ doing' \in [Op -> {"none", "read", "write"}]
      /\ doing'[n] = kind /\ \A o \in Op \ {n} : doing'[o] = doing[o]
  BY <1>1, <1>2, <1>3 DEF TypeOK
<1>5. Future(n) /\ ~Pending(n) /\ ~Waits(n)
  BY <1>1, <1>2, <1>3, OpIs DEF Future, Pending
<1>6. doing[n] = "none" /\ told[n] = "none" /\ done[n] = 0
  BY <1>3, <1>5 DEF ChanInv, PhaseInv
<1>7. state[n] = "free" /\ ~Queued(n) /\ ~Entered(n) /\ got[n] = Raw /\ hbuf[n] = Raw
  BY <1>1, <1>3, <1>5, <1>6 DEF ChanInv, TypeOK, QueueInv, WaitxInv, WritersInv
<1>8. ASSUME NEW o \in Op PROVE Future(o)' <=> Future(o) /\ o # n
  <2>1. o = <<o[1], o[2]>> /\ o[1] \in Actor /\ o[2] \in 1..MaxOps
    BY OpIs
  <2>2. n = <<a, ops[a] + 1>>
    BY DEF n, New
  <2>3. CASE o[1] = a
    BY <1>2, <2>1, <2>2, <2>3 DEF Future
  <2>4. CASE o[1] # a
    BY <1>1, <1>3, <2>1, <2>4 DEF Future, TypeOK
  <2> QED
    BY <2>3, <2>4
<1> QED
  BY <1>1, <1>3, <1>4, <1>5, <1>6, <1>7, <1>8 DEF n

\* Threads may have been notified.
SamePhases ==
    /\ pc' \in [Actor -> {"idle", "suspended", "timedout", "cv", "woken", "expired"}]
    /\ \A b \in Actor : pc'[b] = pc[b] \/ (b \in Thread /\ pc[b] = "cv" /\ pc'[b] = "woken")

LEMMA PhasesKept ==
    ASSUME ChanInv, NEW a \in Actor, NEW kind \in {"read", "write"}, Begin(a, kind), SamePhases
    PROVE  /\ \A o \in Op : (Pending(o)' <=> Pending(o)) /\ (Waits(o)' <=> Waits(o))
           /\ \A b \in Actor : /\ pc'[b] # "idle" => ops'[b] # 0
                               /\ b \in Co => pc'[b] \in {"idle", "suspended", "timedout"}
                               /\ b \in Thread => pc'[b] \in ThreadPhases
<1>1. pc[a] = "idle" /\ ops' = [ops EXCEPT ![a] = @ + 1] /\ ops \in [Actor -> 0..MaxOps] /\ Co \cap Thread = {}
  BY BeginIs, ChanAssumption DEF ChanInv, TypeOK
<1>2. pc'[a] = "idle" /\ \A b \in Actor \ {a} : ops'[b] = ops[b]
  BY <1>1 DEF SamePhases
<1>3. \A b \in Actor : (pc'[b] = "idle" <=> pc[b] = "idle") /\ (pc'[b] = "timedout" <=> pc[b] = "timedout")
  BY DEF SamePhases
<1>4. ASSUME NEW o \in Op PROVE (Pending(o)' <=> Pending(o)) /\ (Waits(o)' <=> Waits(o))
  BY <1>1, <1>2, <1>3, OpIs DEF Pending
<1>5. \A b \in Actor : /\ pc'[b] # "idle" => ops'[b] # 0
                       /\ b \in Co => pc'[b] \in {"idle", "suspended", "timedout"}
                       /\ b \in Thread => pc'[b] \in ThreadPhases
  BY <1>1, <1>2 DEF SamePhases, ChanInv, PhaseInv, ThreadPhases
<1> QED
  BY <1>4, <1>5

-----------------------------------------------------------------------------
\* The waiters of P, who have timed out, are freed, and those of F are served
\* with the answer d.
Serving(P, F, d) ==
    /\ P \subseteq {o \in Op : Queued(o) /\ state[o] = "timeout"}
    /\ F \subseteq {o \in Op : Queued(o) /\ state[o] = "wait"}
    /\ wq' \in Seq(Op) /\ Distinct(wq)'
    /\ \A o \in Op : Queued(o)' <=> Queued(o) /\ o \notin P /\ o \notin F
    /\ state' \in [Op -> {"free", "wait", "ready", "timeout"}]
    /\ \A o \in Op : IF o \in P THEN state'[o] = "free"
                     ELSE IF o \in F THEN state'[o] = "ready" \/ (~Timed /\ state'[o] = "wait")
                     ELSE state'[o] = state[o]
    /\ done' \in [Op -> 0..2]
    /\ \A o \in Op : done'[o] = IF o \in F THEN d ELSE done[o]

LEMMA NobodyServed ==
    ASSUME ChanInv, UNCHANGED <<wq, state, done>>
    PROVE  Serving({}, {}, 1)
BY DEF Serving, ChanInv, TypeOK, QueueInv, Distinct, Queued

LEMMA NobodyFoundIs ==
    ASSUME ChanInv, NobodyFound
    PROVE  Serving({o \in Op : Queued(o)}, {}, 1) /\ wq' = <<>> /\ \A o \in Op : ~Queued(o)'
<1>1. /\ wq' = <<>> /\ done' = done
      /\ state' = [o \in Op |-> IF Queued(o) THEN "free" ELSE state[o]]
  BY DEF NobodyFound, Queued
<1>2. \A o \in Op : Queued(o) => state[o] # "wait"
  BY DEF NobodyFound, Queued, Live
<1>3. \A o \in Op : Queued(o) => state[o] = "timeout"
  <2>1. \A o \in Op : Queued(o) => done[o] = 0
    BY DEF ChanInv, QueueInv
  <2> QED
    BY <1>2, <2>1 DEF ChanInv, TypeOK, WaitxInv
<1>4. \A o \in Op : ~Queued(o)'
  BY <1>1 DEF Queued
<1>5. wq' \in Seq(Op) /\ Distinct(wq)'
  BY <1>1 DEF Distinct
<1>6. state' \in [Op -> {"free", "wait", "ready", "timeout"}] /\ done' \in [Op -> 0..2]
  BY <1>1 DEF ChanInv, TypeOK
<1> QED
  BY <1>1, <1>3, <1>4, <1>5, <1>6 DEF Serving

LEMMA FirstIs ==
    ASSUME TypeOK, Live # {}
    PROVE  First \in 1..Len(wq) /\ state[wq[First]] = "wait" /\ \A i \in 1..First - 1 : state[wq[i]] # "wait"
<1>1. Len(wq) \in Nat
  BY DEF TypeOK
<1>2. \E i \in Live : \A j \in Live : i <= j
  BY <1>1, Least DEF Live
<1>3. First \in Live /\ \A j \in Live : First <= j
  BY <1>2 DEF First
<1> QED
  BY <1>1, <1>3 DEF Live

LEMMA FoundIs ==
    ASSUME ChanInv, Live # {}, NEW w, w = wq[First], Found(w)
    PROVE  /\ w \in Op /\ Queued(w) /\ Waits(w) /\ state[w] = "wait" /\ done[w] = 0
           /\ Popped \subseteq Op /\ Serving(Popped, {w}, 1)
<1>1. /\ wq' = AfterFirst /\ done' = [done EXCEPT ![w] = 1]
      /\ state' = [o \in Op |-> IF o \in Popped THEN "free"
                                ELSE IF o = w /\ Timed THEN "ready" ELSE state[o]]
      /\ TypeOK /\ Distinct(wq) /\ WaitxInv
  BY DEF Found, ChanInv, QueueInv
<1>2. First \in 1..Len(wq) /\ state[w] = "wait" /\ \A i \in 1..First - 1 : state[wq[i]] # "wait"
  BY <1>1, FirstIs
<1>3. Len(wq) \in Nat /\ First \in Nat /\ 1..First - 1 \subseteq 1..Len(wq) /\ \A i \in 1..Len(wq) : wq[i] \in Op
  BY <1>1, <1>2 DEF TypeOK
<1>4. w \in Op /\ Queued(w) /\ w \notin Popped
  BY <1>1, <1>2, <1>3 DEF Queued, Popped, Distinct
<1>5. Waits(w) /\ done[w] = 0
  BY <1>2, <1>4 DEF ChanInv, WaitxInv, QueueInv
<1>6. \A o \in Popped : o \in Op /\ Queued(o) /\ state[o] = "timeout"
  <2>1. \A o \in Popped : o \in Op /\ Queued(o) /\ state[o] # "wait"
    BY <1>2, <1>3 DEF Popped, Queued
  <2>2. \A o \in Op : Queued(o) => done[o] = 0
    BY DEF ChanInv, QueueInv
  <2> QED
    BY <1>1, <2>1, <2>2 DEF WaitxInv, TypeOK
<1>7. /\ wq' \in Seq(Op) /\ Distinct(wq')
      /\ \A x : Has(wq', x) <=> Has(wq, x) /\ ~ \E i \in 1..First : wq[i] = x
  <2>1. First \in 0..Len(wq) /\ wq \in Seq(Op)
    BY <1>1, <1>2 DEF TypeOK
  <2> QED
    BY <1>1, <2>1, HasDrop DEF AfterFirst
<1>8. \A x : (\E i \in 1..First : wq[i] = x) <=> x \in Popped \/ x = w
  BY <1>2, <1>3 DEF Popped
<1>9. \A o \in Op : Queued(o)' <=> Queued(o) /\ o \notin Popped /\ o # w
  BY <1>7, <1>8 DEF Queued, Has
<1>10. state' \in [Op -> {"free", "wait", "ready", "timeout"}] /\ done' \in [Op -> 0..2]
  BY <1>1, <1>4 DEF TypeOK
<1>11. \A o \in Op : done'[o] = IF o \in {w} THEN 1 ELSE done[o]
  BY <1>1, <1>4 DEF TypeOK
<1>12. \A o \in Op : IF o \in Popped THEN state'[o] = "free"
                     ELSE IF o \in {w} THEN state'[o] = "ready" \/ (~Timed /\ state'[o] = "wait")
                     ELSE state'[o] = state[o]
  BY <1>1, <1>2, ChanAssumption
<1>13. Serving(Popped, {w}, 1)
  BY <1>2, <1>4, <1>6, <1>7, <1>9, <1>10, <1>11, <1>12 DEF Serving
<1> QED
  BY <1>2, <1>4, <1>5, <1>6, <1>13

-----------------------------------------------------------------------------
\* The waiters, and what they have been told.
WaitersType ==
    /\ closed \in 0..2 /\ wq \in Seq(Op)
    /\ state \in [Op -> {"free", "wait", "ready", "timeout"}] /\ done \in [Op -> 0..2]
    /\ pc \in [Actor -> {"idle", "suspended", "timedout", "cv", "woken", "expired"}]
    /\ doing \in [Op -> {"none", "read", "write"}] /\ ops \in [Actor -> 0..MaxOps]
    /\ told \in [Op -> {"none", "done", "enod"}]

WaitersInv == WaitersType /\ QueueInv /\ WaitxInv /\ PhaseInv

LEMMA WaitersAre == ASSUME ChanInv PROVE WaitersInv
BY DEF ChanInv, TypeOK, WaitersInv, WaitersType

\* An operation that returns at once, and may serve one that waits.
LEMMA ReturnKeeps ==
    ASSUME ChanInv, NEW a \in Actor, NEW kind \in {"read", "write"}, NEW how \in {"done", "enod"},
           Begin(a, kind), Returns(a, how), SamePhases, NEW P, NEW F, Serving(P, F, 1),
           ((Empty' <=> Empty) /\ full' = full) \/ \A o \in Op : ~Queued(o)'
    PROVE  /\ WaitersInv'
           /\ \A o \in Op : Served(o)' <=> Served(o) \/ o \in F \/ (o = New(a) /\ how = "done")
<1> DEFINE n == New(a)
<1>1. /\ WaitersInv /\ n \in Op
      /\ ops' \in [Actor -> 0..MaxOps] /\ doing' \in [Op -> {"none", "read", "write"}]
      /\ doing'[n] = kind /\ (\A o \in Op \ {n} : doing'[o] = doing[o])
      /\ closed' = closed
      /\ doing[n] = "none" /\ told[n] = "none" /\ done[n] = 0 /\ state[n] = "free"
      /\ ~Queued(n) /\ ~Pending(n) /\ ~Waits(n)
      /\ \A o \in Op : Future(o)' <=> Future(o) /\ o # n
  BY BeginIs, WaitersAre
<1>2. /\ \A o \in Op : (Pending(o)' <=> Pending(o)) /\ (Waits(o)' <=> Waits(o))
      /\ \A b \in Actor : /\ pc'[b] # "idle" => ops'[b] # 0
                          /\ b \in Co => pc'[b] \in {"idle", "suspended", "timedout"}
                          /\ b \in Thread => pc'[b] \in ThreadPhases
  BY PhasesKept
<1>3. told' = [told EXCEPT ![n] = how]
  <2>1. Current(a)' = n
    BY BeginIs
  <2> QED
    BY <2>1 DEF Returns
<1> HIDE DEF n
<1>4. told'[n] = how /\ (\A o \in Op \ {n} : told'[o] = told[o]) /\ told' \in [Op -> {"none", "done", "enod"}]
  BY <1>1, <1>3 DEF WaitersInv, WaitersType
<1>5. /\ \A o \in P : o \in Op /\ Queued(o) /\ state[o] = "timeout"
      /\ \A o \in F : o \in Op /\ Queued(o) /\ state[o] = "wait" /\ done[o] = 0 /\ Waits(o) /\ o \notin P
  BY <1>1 DEF Serving, WaitersInv, WaitxInv, QueueInv
<1>6. n \notin P /\ n \notin F
  BY <1>1, <1>5
<1>7. WaitersType'
  BY <1>1, <1>4 DEF WaitersType, WaitersInv, Serving, SamePhases
<1>8. QueueInv'
  <2>1. \A o \in Op : Queued(o)' => Queued(o) /\ o # n /\ done'[o] = done[o] /\ doing'[o] = doing[o]
    BY <1>1, <1>6 DEF Serving
  <2> QED
    BY <1>1, <2>1 DEF Serving, QueueInv, WaitersInv
<1>9. WaitxInv'
  <2> SUFFICES ASSUME NEW o \in Op
               PROVE  /\ state'[o] = "wait" => Waits(o) /\ (Timed => done'[o] = 0)
                      /\ state'[o] = "ready" => Waits(o) /\ done'[o] # 0
                      /\ state'[o] = "timeout" => Queued(o)' /\ ~Waits(o)
                      /\ state'[o] = "free" => ~Queued(o)' /\ ~Waits(o)
                      /\ Waits(o) /\ done'[o] = 0 => state'[o] = "wait" /\ Queued(o)'
    BY <1>2 DEF WaitxInv
  <2>1. /\ Queued(o)' <=> Queued(o) /\ o \notin P /\ o \notin F
        /\ done'[o] = IF o \in F THEN 1 ELSE done[o]
        /\ o \in P => state'[o] = "free"
        /\ o \in F => state'[o] = "ready" \/ (~Timed /\ state'[o] = "wait")
        /\ o \notin P /\ o \notin F => state'[o] = state[o]
    BY <1>5 DEF Serving
  <2>2. /\ state[o] = "wait" => Waits(o) /\ (Timed => done[o] = 0)
        /\ state[o] = "ready" => Waits(o) /\ done[o] # 0
        /\ state[o] = "timeout" => Queued(o) /\ ~Waits(o)
        /\ state[o] = "free" => ~Queued(o) /\ ~Waits(o)
        /\ Waits(o) /\ done[o] = 0 => state[o] = "wait" /\ Queued(o)
    BY <1>1 DEF WaitersInv, WaitxInv
  <2> QED
    BY <1>5, <2>1, <2>2
<1>10. PhaseInv'
  <2> SUFFICES ASSUME NEW o \in Op
               PROVE  /\ doing'[o] = "none" <=> Future(o)'
                      /\ told'[o] = "none" <=> Future(o)' \/ Pending(o)
                      /\ told'[o] = "none" /\ ~Waits(o) => done'[o] = 0
                      /\ told'[o] = "enod" => done'[o] # 1
                      /\ done'[o] = 2 => doing'[o] = "read"
    BY <1>2 DEF PhaseInv
  <2>1. done'[o] = IF o \in F THEN 1 ELSE done[o]
    BY DEF Serving
  <2>2. /\ doing[o] = "none" <=> Future(o)
        /\ told[o] = "none" <=> Future(o) \/ Pending(o)
        /\ told[o] = "none" /\ ~Waits(o) => done[o] = 0
        /\ told[o] = "enod" => done[o] # 1
        /\ done[o] = 2 => doing[o] = "read"
    BY <1>1 DEF WaitersInv, PhaseInv
  <2>3. CASE o = n
    BY <1>1, <1>4, <1>6, <2>1, <2>3
  <2>4. CASE o # n
    <3>1. doing'[o] = doing[o] /\ told'[o] = told[o] /\ (Future(o)' <=> Future(o))
      BY <1>1, <1>4, <2>4
    <3>2. o \in F => Waits(o) /\ told[o] = "none"
      <4>1. Waits(o) => Pending(o)
        BY OpIs DEF Pending
      <4> QED
        BY <1>5, <2>2, <4>1
    <3> QED
      BY <2>1, <2>2, <3>1, <3>2
  <2> QED
    BY <2>3, <2>4
<1>11. \A o \in Op : Served(o)' <=> Served(o) \/ o \in F \/ (o = n /\ how = "done")
  BY <1>1, <1>4, <1>6 DEF Served, Serving
<1> QED
  BY <1>7, <1>8, <1>9, <1>10, <1>11 DEF WaitersInv, n

\* An operation that waits.
LEMMA EnlistKeeps ==
    ASSUME ChanInv, NEW a \in Actor, NEW kind \in {"read", "write"}, Begin(a, kind), Enlists(a),
           IF kind = "read" THEN Empty /\ closed = 0 ELSE full
    PROVE  /\ WaitersInv'
           /\ \A o \in Op : (Served(o)' <=> Served(o)) /\ (Queued(o)' <=> Queued(o) \/ o = New(a))
<1> DEFINE n == New(a)
<1>1. /\ WaitersInv /\ n \in Op /\ n[1] = a /\ pc[a] = "idle"
      /\ ops' = [ops EXCEPT ![a] = @ + 1]
      /\ ops' \in [Actor -> 0..MaxOps] /\ doing' \in [Op -> {"none", "read", "write"}]
      /\ doing'[n] = kind /\ (\A o \in Op \ {n} : doing'[o] = doing[o])
      /\ closed' = closed
      /\ doing[n] = "none" /\ told[n] = "none" /\ done[n] = 0 /\ state[n] = "free"
      /\ ~Queued(n) /\ ~Pending(n) /\ ~Waits(n)
      /\ \A o \in Op : Future(o)' <=> Future(o) /\ o # n
  BY BeginIs, WaitersAre
<1>2. /\ wq' = Append(wq, n) /\ state' = [state EXCEPT ![n] = "wait"]
      /\ pc' = [pc EXCEPT ![a] = IF a \in Co THEN "suspended" ELSE "cv"]
      /\ UNCHANGED <<rx, wx, full, done, told>>
  <2>1. Current(a)' = n
    BY BeginIs
  <2> QED
    BY <2>1 DEF Enlists, ring
<1>3. n[2] = ops'[a] /\ ops[a] + 1 = ops'[a] /\ ops'[a] # 0 /\ ops[a] \in Nat
  BY <1>1, ChanAssumption DEF New, WaitersInv, WaitersType
<1> HIDE DEF n
<1>4. /\ wq' \in Seq(Op) /\ Distinct(wq') /\ \A o \in Op : Queued(o)' <=> Queued(o) \/ o = n
  <2>1. wq \in Seq(Op) /\ Distinct(wq) /\ ~Has(wq, n)
    BY <1>1 DEF WaitersInv, WaitersType, QueueInv, Queued, Has
  <2>2. /\ Append(wq, n) \in Seq(Op) /\ Distinct(Append(wq, n))
        /\ \A x : Has(Append(wq, n), x) <=> Has(wq, x) \/ x = n
    BY <1>1, <2>1, HasAppend
  <2>3. wq' = Append(wq, n)
    BY <1>2
  <2> QED
    BY <2>2, <2>3 DEF Queued, Has
<1>5. pc'[a] \in {"suspended", "cv"} /\ \A b \in Actor \ {a} : pc'[b] = pc[b] /\ ops'[b] = ops[b]
  BY <1>1, <1>2 DEF WaitersInv, WaitersType
<1>6. \A o \in Op : (Pending(o)' <=> Pending(o) \/ o = n) /\ (Waits(o)' <=> Waits(o) \/ o = n)
  <2> TAKE o \in Op
  <2>1. o = <<o[1], o[2]>> /\ o[1] \in Actor /\ o[2] \in 1..MaxOps /\ n = <<n[1], n[2]>>
    BY <1>1, OpIs
  <2>2. CASE o[1] = a
    BY <1>1, <1>3, <1>5, <2>1, <2>2, OpIs DEF Pending
  <2>3. CASE o[1] # a
    BY <1>1, <1>5, <2>1, <2>3, OpIs DEF Pending
  <2> QED
    BY <2>2, <2>3
<1>7. WaitersType'
  BY <1>1, <1>2, <1>4 DEF WaitersType, WaitersInv
<1>8. QueueInv'
  <2>1. Empty' <=> Empty
    BY <1>2 DEF Empty
  <2> QED
    BY <1>1, <1>2, <1>4, <2>1 DEF QueueInv, WaitersInv
<1>9. WaitxInv'
  <2>1. state'[n] = "wait" /\ \A o \in Op \ {n} : state'[o] = state[o]
    BY <1>1, <1>2 DEF WaitersInv, WaitersType
  <2> QED
    BY <1>1, <1>2, <1>4, <1>6, <2>1 DEF WaitxInv, WaitersInv
<1>10. PhaseInv'
  <2>1. \A b \in Actor : /\ pc'[b] # "idle" => ops'[b] # 0
                         /\ b \in Co => pc'[b] \in {"idle", "suspended", "timedout"}
                         /\ b \in Thread => pc'[b] \in ThreadPhases
    BY <1>1, <1>2, <1>3, <1>5, ChanAssumption DEF WaitersInv, WaitersType, PhaseInv, Actor, ThreadPhases
  <2> QED
    BY <1>1, <1>2, <1>6, <2>1 DEF PhaseInv, WaitersInv
<1>11. \A o \in Op : Served(o)' <=> Served(o)
  BY <1>2 DEF Served
<1> QED
  BY <1>4, <1>7, <1>8, <1>9, <1>10, <1>11 DEF WaitersInv, n

-----------------------------------------------------------------------------
\* The buffer, and the order of what goes through it.
RingInv ==
    /\ rx \in 0..Cap-1 /\ wx \in 0..Cap-1 /\ full \in BOOLEAN
    /\ slot \in Slots /\ accepted \in Seq(Op) /\ delivered \in Seq(Op)
    /\ PlacesInv /\ OrderInv

LEMMA RingIs ==
    /\ Count = Size(rx, wx, full) /\ Contents = Row(slot, rx, Size(rx, wx, full))
    /\ Count' = Size(rx', wx', full') /\ Contents' = Row(slot', rx', Size(rx', wx', full'))
    /\ PlacesInv <=> (full => rx = wx) /\ Used(slot, rx, Size(rx, wx, full))
    /\ PlacesInv' <=> (full' => rx' = wx') /\ Used(slot', rx', Size(rx', wx', full'))
BY DEF Count, Contents, Size, Row, Used, PlacesInv

LEMMA RingFacts ==
    ASSUME ChanInv
    PROVE  /\ RingInv
           /\ Used(slot, rx, Size(rx, wx, full)) /\ (full => rx = wx)
           /\ Row(slot, rx, Size(rx, wx, full)) \in Seq(Op)
           /\ accepted = delivered \o Row(slot, rx, Size(rx, wx, full))
<1>1. RingInv
  BY DEF ChanInv, RingInv, TypeOK, Slots
<1>2. Used(slot, rx, Size(rx, wx, full)) /\ (full => rx = wx)
  BY <1>1, RingIs DEF RingInv
<1>3. Size(rx, wx, full) \in 0..Cap
  BY <1>1, <1>2, SizeIs DEF RingInv
<1>4. Row(slot, rx, Size(rx, wx, full)) \in Seq(Op)
  BY <1>1, <1>2, <1>3, RowIs DEF RingInv
<1>5. accepted = delivered \o Row(slot, rx, Size(rx, wx, full))
  BY <1>1, RingIs DEF RingInv, OrderInv
<1> QED
  BY <1>1, <1>2, <1>4, <1>5

LEMMA RingKept ==
    ASSUME ChanInv, UNCHANGED <<rx, wx, full, slot, accepted, delivered>>
    PROVE  RingInv'
<1>1. RingInv
  BY RingFacts
<1>2. Count' = Count /\ Contents' = Contents
  BY DEF Count, Contents
<1> QED
  BY <1>1, <1>2 DEF RingInv, PlacesInv, OrderInv, Distinct

\* The oldest object is new to those who got theirs.
LEMMA OldestIs ==
    ASSUME NEW s \in Seq(Op), NEW t \in Seq(Op), t # <<>>, Distinct(s \o t)
    PROVE  Head(t) \in Op /\ ~Has(s, Head(t))
<1> DEFINE u == s \o t
<1>1. /\ u \in Seq(Op) /\ Len(u) = Len(s) + Len(t)
      /\ \A i \in 1..Len(s) + Len(t) : u[i] = IF i <= Len(s) THEN s[i] ELSE t[i - Len(s)]
  BY ConcatProperties
<1>2. Len(s) \in Nat /\ Len(t) \in Nat \ {0} /\ Head(t) = t[1] /\ Head(t) \in Op
  BY EmptySeq, LenProperties, HeadTailProperties
<1> HIDE DEF u
<1>3. u[Len(s) + 1] = Head(t)
  <2>1. Len(s) + 1 \in 1..Len(s) + Len(t) /\ ~(Len(s) + 1 <= Len(s)) /\ (Len(s) + 1) - Len(s) = 1
    BY <1>2
  <2>2. u[Len(s) + 1] = t[(Len(s) + 1) - Len(s)]
    BY <1>1, <2>1
  <2> QED
    BY <1>2, <2>1, <2>2
<1>4. ASSUME NEW i \in 1..Len(s), s[i] = Head(t) PROVE FALSE
  <2>1. u[i] = s[i] /\ i \in 1..Len(u) /\ Len(s) + 1 \in 1..Len(u) /\ i # Len(s) + 1
    BY <1>1, <1>2
  <2>2. Distinct(u)
    BY DEF u
  <2> QED
    BY <1>3, <1>4, <2>1, <2>2 DEF Distinct
<1> QED
  BY <1>2, <1>4 DEF Has

TakesOldest ==
    /\ rx' = Step(rx) /\ wx' = wx /\ full' = FALSE /\ slot' = [slot EXCEPT ![rx] = Raw]
    /\ accepted' = accepted /\ delivered' = Append(delivered, slot[rx])

LEMMA TakeKeeps ==
    ASSUME ChanInv, ~Empty, TakesOldest
    PROVE  RingInv' /\ slot[rx] \in Op /\ ~Has(delivered, slot[rx])
<1> DEFINE n == Size(rx, wx, full)
           R == Row(slot, rx, n)
<1>1. /\ RingInv /\ Used(slot, rx, n) /\ (full => rx = wx) /\ R \in Seq(Op)
      /\ accepted = delivered \o R /\ Distinct(accepted) /\ delivered \in Seq(Op)
      /\ rx \in 0..Cap-1 /\ wx \in 0..Cap-1 /\ full \in BOOLEAN /\ slot \in Slots
  BY RingFacts DEF RingInv, OrderInv
<1>2. n \in 0..Cap /\ (n = 0 <=> rx = wx /\ ~full) /\ (n # 0 => Size(Step(rx), wx, FALSE) = n - 1)
  BY <1>1, SizeIs
<1>3. n # 0 /\ Size(Step(rx), wx, FALSE) = n - 1
  BY <1>2 DEF Empty
<1>4. n \in 1..Cap
  BY <1>2, <1>3, ChanAssumption
<1>5. Step(rx) \in 0..Cap-1 /\ slot' \in Slots /\ Puts(slot, slot', rx, Raw)
  BY <1>1, StepIs DEF Slots, Puts, TakesOldest
<1> HIDE DEF n
<1>6. /\ Used(slot', Step(rx), n - 1) /\ R # <<>> /\ Head(R) = slot[rx]
      /\ Row(slot', Step(rx), n - 1) = Tail(R)
  BY <1>1, <1>4, <1>5, RowTail
<1> HIDE DEF R
<1>7. PlacesInv' /\ Contents' = Tail(R)
  <2>1. rx' = Step(rx) /\ Size(rx', wx', full') = n - 1 /\ ~full'
    BY <1>3 DEF TakesOldest
  <2> QED
    BY <1>6, <2>1, RingIs
<1>8. slot[rx] \in Op /\ ~Has(delivered, slot[rx])
  BY <1>1, <1>6, OldestIs
<1>9. Append(delivered, slot[rx]) \o Tail(R) = delivered \o R /\ Append(delivered, slot[rx]) \in Seq(Op)
  BY <1>1, <1>6, <1>8, ConcatShift
<1>10. OrderInv'
  BY <1>1, <1>7, <1>9 DEF OrderInv, Distinct, TakesOldest
<1> QED
  BY <1>1, <1>5, <1>7, <1>8, <1>9, <1>10 DEF RingInv, TakesOldest

LEMMA NewIsDistinct ==
    ASSUME ChanInv, NEW x \in Op, ~Entered(x)
    PROVE  Append(accepted, x) \in Seq(Op) /\ Distinct(Append(accepted, x))
<1>1. accepted \in Seq(Op) /\ Distinct(accepted) /\ ~Has(accepted, x)
  BY DEF ChanInv, TypeOK, OrderInv, Entered, Has
<1> QED
  BY <1>1, HasAppend

PutsLast(x) ==
    /\ rx' = rx /\ wx' = Step(wx) /\ full' = (rx = Step(wx)) /\ slot' = [slot EXCEPT ![wx] = x]
    /\ accepted' = Append(accepted, x) /\ delivered' = delivered

LEMMA PutKeeps ==
    ASSUME ChanInv, ~full, NEW x \in Op, ~Entered(x), PutsLast(x)
    PROVE  RingInv'
<1> DEFINE n == Size(rx, wx, full)
           R == Row(slot, rx, n)
<1>1. /\ Used(slot, rx, n) /\ (full => rx = wx) /\ R \in Seq(Op)
      /\ accepted = delivered \o R /\ delivered \in Seq(Op)
      /\ rx \in 0..Cap-1 /\ wx \in 0..Cap-1 /\ full \in BOOLEAN /\ slot \in Slots
  BY RingFacts DEF RingInv, OrderInv
<1>2. /\ n \in 0..Cap /\ (n = Cap <=> full)
      /\ ~full => Size(rx, Step(wx), rx = Step(wx)) = n + 1 /\ wx = (rx + (n + 1) - 1) % Cap
  BY <1>1, SizeIs
<1>3. n \in 0..Cap-1
  BY <1>2, ChanAssumption
<1>4. Step(wx) \in 0..Cap-1 /\ slot' \in Slots /\ Puts(slot, slot', wx, x)
  BY <1>1, StepIs DEF Slots, Puts, PutsLast
<1> HIDE DEF n
<1>5. Used(slot', rx, n + 1) /\ Row(slot', rx, n + 1) = Append(R, x)
  BY <1>1, <1>2, <1>3, <1>4, RowAppend
<1> HIDE DEF R
<1>6. PlacesInv' /\ Contents' = Append(R, x)
  <2>1. rx' = rx /\ Size(rx', wx', full') = n + 1 /\ (full' => rx' = wx')
    BY <1>2 DEF PutsLast
  <2> QED
    BY <1>5, <2>1, RingIs
<1>7. delivered \o Append(R, x) = Append(delivered \o R, x)
  BY <1>1, ConcatAppend
<1>8. OrderInv' /\ accepted' \in Seq(Op)
  BY <1>1, <1>6, <1>7, NewIsDistinct DEF OrderInv, PutsLast
<1> QED
  BY <1>1, <1>4, <1>6, <1>8 DEF RingInv, PutsLast

\* One is taken from the full buffer, and another put into its block.
Admits(x) ==
    /\ rx' = Step(rx) /\ wx' = Step(wx) /\ full' = full /\ slot' = [slot EXCEPT ![wx] = x]
    /\ accepted' = Append(accepted, x) /\ delivered' = Append(delivered, slot[rx])

LEMMA AdmitKeeps ==
    ASSUME ChanInv, full, NEW x \in Op, ~Entered(x), Admits(x)
    PROVE  RingInv' /\ slot[rx] \in Op /\ ~Has(delivered, slot[rx])
<1> DEFINE R == Row(slot, rx, Cap)
           t == [slot EXCEPT ![rx] = Raw]
           q == Step(rx)
<1>1. /\ Used(slot, rx, Cap) /\ rx = wx /\ R \in Seq(Op)
      /\ accepted = delivered \o R /\ Distinct(accepted) /\ delivered \in Seq(Op)
      /\ rx \in 0..Cap-1 /\ full \in BOOLEAN /\ slot \in Slots
  BY RingFacts DEF RingInv, OrderInv, Size
<1>2. Cap \in 1..Cap /\ Cap - 1 \in 0..Cap-1 /\ (Cap - 1) + 1 = Cap
  BY ChanAssumption
<1>3. q \in 0..Cap-1 /\ q = (IF rx + 1 = Cap THEN 0 ELSE rx + 1) /\ t \in Slots /\ Puts(slot, t, rx, Raw)
  BY <1>1, StepIs DEF Slots, Puts
<1>4. slot' \in Slots /\ Puts(t, slot', rx, x)
  BY <1>1 DEF Slots, Puts, Admits
<1> HIDE DEF t
<1>5. Used(t, q, Cap - 1) /\ R # <<>> /\ Head(R) = slot[rx] /\ Row(t, q, Cap - 1) = Tail(R)
  BY <1>1, <1>2, <1>3, RowTail
<1> HIDE DEF q, R
<1>6. rx = (q + ((Cap - 1) + 1) - 1) % Cap
  <2>1. (q + Cap - 1) % Cap = IF q + Cap - 1 < Cap THEN q + Cap - 1 ELSE q + Cap - 1 - Cap
    BY <1>2, <1>3, PlaceIs
  <2>2. CASE rx + 1 = Cap
    BY <1>1, <1>3, <2>1, <2>2, ChanAssumption
  <2>3. CASE rx + 1 # Cap
    BY <1>1, <1>3, <2>1, <2>3, ChanAssumption
  <2> QED
    BY <2>2, <2>3
<1>7. Used(slot', q, Cap) /\ Row(slot', q, Cap) = Append(Tail(R), x)
  <2> DEFINE m == Cap - 1
  <2>1. m + 1 = Cap /\ Row(t, q, m) = Tail(R)
    BY <1>2, <1>5
  <2>2. m \in 0..Cap-1 /\ Used(t, q, m) /\ rx = (q + (m + 1) - 1) % Cap
    BY <1>2, <1>5, <1>6
  <2>3. q \in 0..Cap-1 /\ t \in Slots
    BY <1>3
  <2> HIDE DEF m
  <2>4. Used(slot', q, m + 1) /\ Row(slot', q, m + 1) = Append(Row(t, q, m), x)
    BY <1>4, <2>2, <2>3, RowAppend
  <2> QED
    BY <2>1, <2>4
<1>8. PlacesInv' /\ Contents' = Append(Tail(R), x)
  <2>1. rx' = q /\ wx' = q /\ Size(rx', wx', full') = Cap
    BY <1>1 DEF q, Admits, Size
  <2> QED
    BY <1>7, <2>1, RingIs
<1>9. slot[rx] \in Op /\ ~Has(delivered, slot[rx])
  BY <1>1, <1>5, OldestIs
<1>10. /\ Append(delivered, slot[rx]) \o Tail(R) = delivered \o R
       /\ Append(delivered, slot[rx]) \in Seq(Op) /\ Tail(R) \in Seq(Op)
  BY <1>1, <1>5, <1>9, ConcatShift
<1>11. Append(delivered, slot[rx]) \o Append(Tail(R), x) = Append(Append(delivered, slot[rx]) \o Tail(R), x)
  BY <1>10, ConcatAppend
<1>12. OrderInv' /\ accepted' \in Seq(Op)
  BY <1>1, <1>8, <1>10, <1>11, NewIsDistinct DEF OrderInv, Admits
<1> QED
  BY <1>1, <1>3, <1>4, <1>8, <1>9, <1>10, <1>12 DEF RingInv, q, Admits

\* An object that never is in the buffer.
Passes(x) == UNCHANGED ring /\ accepted' = Append(accepted, x) /\ delivered' = Append(delivered, x)

LEMMA PassKeeps ==
    ASSUME ChanInv, Empty, NEW x \in Op, ~Entered(x), Passes(x)
    PROVE  RingInv' /\ ~Has(delivered, x)
<1>1. /\ RingInv /\ accepted = delivered \o Row(slot, rx, Size(rx, wx, full)) /\ delivered \in Seq(Op)
  BY RingFacts DEF RingInv
<1>2. Size(rx, wx, full) = 0
  BY <1>1, SizeIs DEF RingInv, Empty
<1>3. Contents = <<>> /\ Contents' = <<>> /\ Row(slot, rx, Size(rx, wx, full)) = <<>>
  <2>1. Row(slot, rx, 0) = <<>>
    BY DEF Row
  <2> QED
    BY <1>2, <2>1, RingIs DEF ring, Passes
<1>4. accepted = delivered
  BY <1>1, <1>3, ConcatEmptySeq
<1>5. Append(accepted, x) \in Seq(Op) /\ Distinct(Append(accepted, x))
  BY NewIsDistinct
<1>6. Append(accepted, x) \o <<>> = Append(accepted, x)
  BY <1>5, ConcatEmptySeq
<1>7. OrderInv'
  BY <1>3, <1>4, <1>5, <1>6 DEF OrderInv, Passes
<1>8. PlacesInv'
  BY <1>1 DEF RingInv, PlacesInv, ring, Count, Passes
<1> QED
  BY <1>1, <1>4, <1>5, <1>7, <1>8 DEF RingInv, ring, Entered, Has, Passes

-----------------------------------------------------------------------------
\* Who has which object.
ObjectsInv ==
    /\ hbuf \in [Op -> Op \cup {Raw}] /\ got \in [Op -> Op \cup {Raw}]
    /\ WritersInv /\ ReadersInv /\ HoldersInv

LEMMA PartsAre ==
    /\ ChanInv <=> WaitersInv /\ RingInv /\ ObjectsInv
    /\ ChanInv' <=> WaitersInv' /\ RingInv' /\ ObjectsInv'
BY DEF ChanInv, TypeOK, WaitersInv, WaitersType, RingInv, ObjectsInv, Slots

LEMMA RawIsNoOp == Raw \notin Op
BY ChanAssumption DEF Op, Actor

\* The memory of a waitx that is freed holds no object.
LEMMA FreeIsRaw == ASSUME ChanInv, NEW o \in Op, state[o] = "free" PROVE hbuf[o] = Raw
<1>1. ~Queued(o) /\ ~Waits(o)
  BY DEF ChanInv, WaitxInv
<1>2. CASE doing[o] = "read"
  BY <1>1, <1>2 DEF ChanInv, ReadersInv, PhaseInv, Served
<1>3. CASE doing[o] # "read"
  BY <1>1, <1>3 DEF ChanInv, WritersInv
<1> QED
  BY <1>2, <1>3

LEMMA HoldersKept ==
    ASSUME HoldersInv, delivered' = delivered,
           \A o, x \in Op : (doing'[o] = "read" /\ Holds(o, x)') <=> (doing[o] = "read" /\ Holds(o, x))
    PROVE  HoldersInv'
BY DEF HoldersInv, Reads

\* One more object is delivered, to r.
Delivers(r, x) ==
    /\ delivered' = Append(delivered, x) /\ doing'[r] = "read"
    /\ \A y \in Op : Holds(r, y)' <=> y = x
    /\ \A y \in Op : ~(doing[r] = "read" /\ Holds(r, y))
    /\ \A o \in Op \ {r} : \A y \in Op :
          (doing'[o] = "read" /\ Holds(o, y)') <=> (doing[o] = "read" /\ Holds(o, y))

LEMMA HoldersTake ==
    ASSUME HoldersInv, delivered \in Seq(Op), NEW x \in Op, ~Has(delivered, x), NEW r \in Op, Delivers(r, x)
    PROVE  HoldersInv'
<1> USE DEF Delivers
<1>1. \A y : Has(delivered', y) <=> Has(delivered, y) \/ y = x
  <2>1. \A y : Has(Append(delivered, x), y) <=> Has(delivered, y) \/ y = x
    BY HasAppend
  <2> QED
    BY <2>1
<1>2. \A o \in Op \ {r} : doing'[o] = "read" => ~Holds(o, x)'
  BY DEF HoldersInv, Reads
<1>3. ASSUME NEW o \in Op, doing'[o] = "read", NEW y \in Op, Holds(o, y)' PROVE Has(delivered', y)
  BY <1>1, <1>3 DEF HoldersInv, Reads
<1>4. ASSUME NEW o \in Op, NEW p \in Op, doing'[o] = "read", doing'[p] = "read", NEW y \in Op, Holds(o, y)', Holds(p, y)'
      PROVE  o = p
  BY <1>2, <1>4 DEF HoldersInv, Reads
<1>5. ASSUME NEW y \in Op, Has(delivered', y) PROVE \E o \in Op : doing'[o] = "read" /\ Holds(o, y)'
  <2>1. CASE y = x
    BY <2>1
  <2>2. CASE y # x
    <3>1. PICK o \in Op : doing[o] = "read" /\ Holds(o, y)
      BY <1>1, <1>5, <2>2 DEF HoldersInv, Reads
    <3> QED
      BY <3>1
  <2> QED
    BY <2>1, <2>2
<1> QED
  BY <1>3, <1>4, <1>5 DEF HoldersInv, Reads

\* A read that returns with the oldest object, and may let a writer in.
LEMMA ReadKeeps ==
    ASSUME ChanInv, NEW a \in Actor, NEW P, NEW F, Begin(a, "read"), Returns(a, "done"), Serving(P, F, 1),
           \A o \in Op : Served(o)' <=> Served(o) \/ o \in F \/ o = New(a),
           \A o \in Op : o \in P \/ o \in F => doing[o] = "write",
           \A o \in Op : Entered(o)' <=> Entered(o) \/ o \in F,
           slot[rx] \in Op, ~Has(delivered, slot[rx]), delivered' = Append(delivered, slot[rx]),
           got' = [got EXCEPT ![New(a)] = slot[rx]],
           hbuf' \in [Op -> Op \cup {Raw}],
           \A o \in Op : hbuf'[o] = IF o \in P \/ o \in F THEN Raw ELSE hbuf[o]
    PROVE  ObjectsInv'
<1>n. PICK n \in Op : n = New(a)
  BY BeginIs
<1>x. PICK x \in Op : x = slot[rx]
  OBVIOUS
<1>1. /\ n \in Op /\ doing' \in [Op -> {"none", "read", "write"}]
      /\ doing'[n] = "read" /\ (\A o \in Op \ {n} : doing'[o] = doing[o])
      /\ doing[n] = "none" /\ got[n] = Raw /\ hbuf[n] = Raw /\ ~Queued(n) /\ ~Entered(n)
  BY <1>n, BeginIs
<1>2. told'[n] = "done" /\ \A o \in Op \ {n} : told'[o] = told[o]
  <2>1. Current(a)' = n /\ told \in [Op -> {"none", "done", "enod"}]
    BY <1>n, BeginIs DEF ChanInv, TypeOK
  <2> QED
    BY <1>1, <2>1 DEF Returns
<1>3. x \in Op /\ got'[n] = x /\ (\A o \in Op \ {n} : got'[o] = got[o]) /\ got' \in [Op -> Op \cup {Raw}]
  BY <1>n, <1>x, <1>1 DEF ChanInv, TypeOK
<1>4. n \notin P /\ n \notin F /\ hbuf'[n] = Raw
  BY <1>1
<1>5. \A o \in Op : Queued(o)' <=> Queued(o) /\ o \notin P /\ o \notin F
  BY DEF Serving
<1>6. WritersInv'
  <2> SUFFICES ASSUME NEW o \in Op
               PROVE  /\ Entered(o)' => doing'[o] = "write"
                      /\ doing'[o] = "write" => (Entered(o)' <=> Served(o)')
                      /\ doing'[o] # "read" =>
                            got'[o] = Raw /\ hbuf'[o] = IF o[1] \in OnStack /\ Queued(o)' THEN o ELSE Raw
    BY DEF WritersInv
  <2>1. CASE o = n
    BY <1>1, <1>4, <2>1
  <2>2. CASE o # n
    <3>1. doing'[o] = doing[o] /\ got'[o] = got[o] /\ (Served(o)' <=> Served(o) \/ o \in F)
      BY <1>n, <1>1, <1>3, <2>2
    <3>2. /\ Entered(o) => doing[o] = "write"
          /\ doing[o] = "write" => (Entered(o) <=> Served(o))
          /\ doing[o] # "read" =>
                got[o] = Raw /\ hbuf[o] = IF o[1] \in OnStack /\ Queued(o) THEN o ELSE Raw
      BY DEF ChanInv, WritersInv
    <3> QED
      BY <1>5, <3>1, <3>2
  <2> QED
    BY <2>1, <2>2
<1>7. ReadersInv'
  <2> SUFFICES ASSUME NEW o \in Op, doing'[o] = "read"
               PROVE  /\ Served(o)' <=> got'[o] # Raw \/ hbuf'[o] # Raw
                      /\ o[1] \notin OnStack \/ told'[o] # "none" => hbuf'[o] = Raw
                      /\ o[1] \in OnStack /\ told'[o] = "none" => got'[o] = Raw
    BY DEF ReadersInv
  <2>1. CASE o = n
    BY <1>2, <1>3, <1>4, <2>1, RawIsNoOp DEF Served
  <2>2. CASE o # n
    <3>1. doing[o] = "read" /\ o \notin P /\ o \notin F /\ got'[o] = got[o] /\ hbuf'[o] = hbuf[o] /\ told'[o] = told[o]
      BY <1>1, <1>2, <1>3, <2>2
    <3>2. Served(o)' <=> Served(o)
      BY <1>n, <2>2, <3>1
    <3> QED
      BY <3>1, <3>2 DEF ChanInv, ReadersInv
  <2> QED
    BY <2>1, <2>2
<1>8. HoldersInv'
  <2>1. \A y \in Op : Holds(n, y)' <=> y = x
    BY <1>3, <1>4, RawIsNoOp DEF Holds
  <2>2. \A o \in Op \ {n} : \A y \in Op :
           (doing'[o] = "read" /\ Holds(o, y)') <=> (doing[o] = "read" /\ Holds(o, y))
    <3> TAKE o \in Op \ {n}
    <3>1. doing[o] = "read" => got'[o] = got[o] /\ hbuf'[o] = hbuf[o]
      BY <1>1, <1>3
    <3> QED
      BY <1>1, <3>1 DEF Holds
  <2>3. HoldersInv /\ delivered \in Seq(Op) /\ ~Has(delivered, x) /\ delivered' = Append(delivered, x)
    BY <1>x DEF ChanInv, TypeOK
  <2>4. \A y \in Op : ~(doing[n] = "read" /\ Holds(n, y))
    BY <1>1
  <2> QED
    <3>1. Delivers(n, x)
      BY <1>1, <2>1, <2>2, <2>3, <2>4 DEF Delivers
    <3> QED
      BY <2>3, <3>1, HoldersTake
<1> QED
  BY <1>3, <1>6, <1>7, <1>8 DEF ObjectsInv

\* An operation that returns with nothing, as the channel is closed.
LEMMA ClosedKeeps ==
    ASSUME ChanInv, NEW a \in Actor, NEW kind \in {"read", "write"}, Begin(a, kind), Returns(a, "enod"),
           UNCHANGED <<wq, accepted, delivered, got, hbuf>>,
           \A o \in Op : Served(o)' <=> Served(o)
    PROVE  ObjectsInv'
<1> DEFINE n == New(a)
<1>1. /\ n \in Op /\ doing' \in [Op -> {"none", "read", "write"}]
      /\ doing'[n] = kind /\ (\A o \in Op \ {n} : doing'[o] = doing[o])
      /\ doing[n] = "none" /\ got[n] = Raw /\ hbuf[n] = Raw /\ ~Queued(n) /\ ~Entered(n)
      /\ told[n] = "none" /\ done[n] = 0
  BY BeginIs
<1>2. told'[n] = "enod" /\ \A o \in Op \ {n} : told'[o] = told[o]
  <2>1. Current(a)' = n /\ told \in [Op -> {"none", "done", "enod"}]
    BY BeginIs DEF ChanInv, TypeOK
  <2> QED
    BY <1>1, <2>1 DEF Returns
<1> HIDE DEF n
<1>3. ~Served(n)
  BY <1>1 DEF Served
<1>4. \A o \in Op : (Queued(o)' <=> Queued(o)) /\ (Entered(o)' <=> Entered(o))
  BY DEF Queued, Entered
<1>5. WritersInv'
  BY <1>1, <1>3, <1>4 DEF ChanInv, WritersInv
<1>6. ReadersInv'
  BY <1>1, <1>2, <1>3 DEF ChanInv, ReadersInv
<1>7. HoldersInv'
  <2>1. \A o, x \in Op : (doing'[o] = "read" /\ Holds(o, x)') <=> (doing[o] = "read" /\ Holds(o, x))
    BY <1>1, RawIsNoOp DEF Holds
  <2> QED
    BY <2>1, HoldersKept DEF ChanInv
<1> QED
  BY <1>5, <1>6, <1>7 DEF ObjectsInv, ChanInv, TypeOK

\* A write into the buffer.
LEMMA WriteKeeps ==
    ASSUME ChanInv, NEW a \in Actor, NEW P, Begin(a, "write"), Returns(a, "done"), Serving(P, {}, 1),
           \A o \in Op : Served(o)' <=> Served(o) \/ o = New(a),
           \A o \in Op : o \in P => doing[o] = "read",
           \A o \in Op : Entered(o)' <=> Entered(o) \/ o = New(a),
           UNCHANGED <<delivered, got, hbuf>>
    PROVE  ObjectsInv'
<1> DEFINE n == New(a)
<1>1. /\ n \in Op /\ doing' \in [Op -> {"none", "read", "write"}]
      /\ doing'[n] = "write" /\ (\A o \in Op \ {n} : doing'[o] = doing[o])
      /\ doing[n] = "none" /\ got[n] = Raw /\ hbuf[n] = Raw /\ ~Queued(n)
  BY BeginIs
<1>2. \A o \in Op \ {n} : told'[o] = told[o]
  <2>1. Current(a)' = n /\ told \in [Op -> {"none", "done", "enod"}]
    BY BeginIs DEF ChanInv, TypeOK
  <2> QED
    BY <1>1, <2>1 DEF Returns
<1>3. \A o \in Op : /\ Served(o)' <=> Served(o) \/ o = n
                    /\ Entered(o)' <=> Entered(o) \/ o = n
  OBVIOUS
<1> HIDE DEF n
<1>4. \A o \in Op : doing[o] # "read" => (Queued(o)' <=> Queued(o))
  BY DEF Serving
<1>5. WritersInv'
  BY <1>1, <1>3, <1>4 DEF ChanInv, WritersInv
<1>6. ReadersInv'
  BY <1>1, <1>2, <1>3 DEF ChanInv, ReadersInv
<1>7. HoldersInv'
  <2>1. \A o, x \in Op : (doing'[o] = "read" /\ Holds(o, x)') <=> (doing[o] = "read" /\ Holds(o, x))
    BY <1>1 DEF Holds
  <2> QED
    BY <2>1, HoldersKept DEF ChanInv
<1> QED
  BY <1>5, <1>6, <1>7 DEF ObjectsInv, ChanInv, TypeOK

\* A write that gives its object to a reader that waits.
LEMMA HandOverKeeps ==
    ASSUME ChanInv, NEW a \in Actor, NEW P, NEW r \in Op, Begin(a, "write"), Returns(a, "done"), Serving(P, {r}, 1),
           \A o \in Op : Served(o)' <=> Served(o) \/ o \in {r} \/ o = New(a),
           \A o \in Op : o \in P \/ o = r => doing[o] = "read",
           \A o \in Op : Entered(o)' <=> Entered(o) \/ o = New(a),
           ~Has(delivered, New(a)), delivered' = Append(delivered, New(a)),
           IF r[1] \in OnStack
           THEN hbuf' = [hbuf EXCEPT ![r] = New(a)] /\ got' = got
           ELSE got' = [got EXCEPT ![r] = New(a)] /\ hbuf' = hbuf
    PROVE  ObjectsInv'
<1>n. PICK n \in Op : n = New(a)
  BY BeginIs
<1>1. /\ n \in Op /\ doing' \in [Op -> {"none", "read", "write"}]
      /\ doing'[n] = "write" /\ (\A o \in Op \ {n} : doing'[o] = doing[o])
      /\ doing[n] = "none" /\ got[n] = Raw /\ hbuf[n] = Raw /\ ~Queued(n)
  BY <1>n, BeginIs
<1>2. \A o \in Op \ {n} : told'[o] = told[o]
  <2>1. Current(a)' = n /\ told \in [Op -> {"none", "done", "enod"}]
    BY <1>n, BeginIs DEF ChanInv, TypeOK
  <2> QED
    BY <1>1, <2>1 DEF Returns
<1>3. /\ Queued(r) /\ r # n /\ doing[r] = "read" /\ doing'[r] = "read" /\ done[r] = 0
      /\ told[r] = "none" /\ told'[r] = "none" /\ ~Served(r) /\ got[r] = Raw /\ hbuf[r] = Raw
  <2>1. Queued(r) /\ state[r] = "wait" /\ doing[r] = "read"
    BY DEF Serving
  <2>2. done[r] = 0 /\ Waits(r) /\ r # n
    BY <1>1, <2>1 DEF ChanInv, QueueInv, WaitxInv
  <2>3. Pending(r)
    BY <2>2, OpIs DEF Pending
  <2>4. told[r] = "none"
    BY <2>3 DEF ChanInv, PhaseInv
  <2>5. ~Served(r)
    BY <2>2, <2>4 DEF Served
  <2> QED
    BY <1>1, <1>2, <2>1, <2>2, <2>4, <2>5 DEF ChanInv, ReadersInv
<1>4. /\ got' \in [Op -> Op \cup {Raw}] /\ hbuf' \in [Op -> Op \cup {Raw}]
      /\ \A o \in Op \ {r} : got'[o] = got[o] /\ hbuf'[o] = hbuf[o]
      /\ IF r[1] \in OnStack THEN hbuf'[r] = n /\ got'[r] = Raw ELSE got'[r] = n /\ hbuf'[r] = Raw
  BY <1>n, <1>3 DEF ChanInv, TypeOK
<1>5. \A o \in Op : /\ Served(o)' <=> Served(o) \/ o = r \/ o = n
                    /\ Entered(o)' <=> Entered(o) \/ o = n
                    /\ o \in P \/ o = r => doing[o] = "read"
                    /\ Queued(o)' <=> Queued(o) /\ o \notin P /\ o # r
  BY <1>n DEF Serving
<1>6. WritersInv'
  <2> SUFFICES ASSUME NEW o \in Op
               PROVE  /\ Entered(o)' => doing'[o] = "write"
                      /\ doing'[o] = "write" => (Entered(o)' <=> Served(o)')
                      /\ doing'[o] # "read" =>
                            got'[o] = Raw /\ hbuf'[o] = IF o[1] \in OnStack /\ Queued(o)' THEN o ELSE Raw
    BY DEF WritersInv
  <2>1. /\ Entered(o) => doing[o] = "write"
        /\ doing[o] = "write" => (Entered(o) <=> Served(o))
        /\ doing[o] # "read" =>
              got[o] = Raw /\ hbuf[o] = IF o[1] \in OnStack /\ Queued(o) THEN o ELSE Raw
    BY DEF ChanInv, WritersInv
  <2>2. /\ Served(o)' <=> Served(o) \/ o = r \/ o = n
        /\ Entered(o)' <=> Entered(o) \/ o = n
        /\ o \in P \/ o = r => doing[o] = "read"
        /\ Queued(o)' <=> Queued(o) /\ o \notin P /\ o # r
    BY <1>5
  <2>3. CASE o = n
    BY <1>1, <1>3, <1>4, <2>2, <2>3
  <2>4. CASE o # n
    <3>1. doing'[o] = doing[o] /\ (o # r => got'[o] = got[o] /\ hbuf'[o] = hbuf[o])
      BY <1>1, <1>4, <2>4
    <3> QED
      BY <1>3, <2>1, <2>2, <2>4, <3>1
  <2> QED
    BY <2>3, <2>4
<1>7. ReadersInv'
  <2> SUFFICES ASSUME NEW o \in Op, doing'[o] = "read"
               PROVE  /\ Served(o)' <=> got'[o] # Raw \/ hbuf'[o] # Raw
                      /\ o[1] \notin OnStack \/ told'[o] # "none" => hbuf'[o] = Raw
                      /\ o[1] \in OnStack /\ told'[o] = "none" => got'[o] = Raw
    BY DEF ReadersInv
  <2>1. CASE o = r
    <3>1. Served(o)'
      BY <1>5, <2>1
    <3> QED
      BY <1>3, <1>4, <2>1, <3>1, RawIsNoOp
  <2>2. CASE o # r
    <3>1. o # n /\ doing[o] = "read" /\ got'[o] = got[o] /\ hbuf'[o] = hbuf[o] /\ told'[o] = told[o]
      BY <1>1, <1>2, <1>4, <2>2
    <3>2. Served(o)' <=> Served(o)
      BY <1>5, <2>2, <3>1
    <3> QED
      BY <3>1, <3>2 DEF ChanInv, ReadersInv
  <2> QED
    BY <2>1, <2>2
<1>8. HoldersInv'
  <2>1. \A y \in Op : Holds(r, y)' <=> y = n
    BY <1>4, RawIsNoOp DEF Holds
  <2>2. \A y \in Op : ~(doing[r] = "read" /\ Holds(r, y))
    BY <1>3, RawIsNoOp DEF Holds
  <2>3. \A o \in Op \ {r} : \A y \in Op :
           (doing'[o] = "read" /\ Holds(o, y)') <=> (doing[o] = "read" /\ Holds(o, y))
    <3> TAKE o \in Op \ {r}
    <3>1. (doing'[o] = "read" <=> doing[o] = "read") /\ got'[o] = got[o] /\ hbuf'[o] = hbuf[o]
      BY <1>1, <1>4
    <3> QED
      BY <3>1 DEF Holds
  <2>4. HoldersInv /\ delivered \in Seq(Op) /\ ~Has(delivered, n) /\ delivered' = Append(delivered, n)
    BY <1>n DEF ChanInv, TypeOK
  <2>5. Delivers(r, n)
    BY <1>3, <2>1, <2>2, <2>3, <2>4 DEF Delivers
  <2> QED
    BY <2>4, <2>5, HoldersTake
<1> QED
  BY <1>4, <1>6, <1>7, <1>8 DEF ObjectsInv

\* An operation that waits, and may copy its object to the waitx.
LEMMA WaitKeeps ==
    ASSUME ChanInv, NEW a \in Actor, NEW kind \in {"read", "write"}, Begin(a, kind),
           \A o \in Op : (Served(o)' <=> Served(o)) /\ (Queued(o)' <=> Queued(o) \/ o = New(a)),
           UNCHANGED <<told, accepted, delivered, got>>,
           hbuf' = IF kind = "write" /\ a \in OnStack THEN [hbuf EXCEPT ![New(a)] = New(a)] ELSE hbuf
    PROVE  ObjectsInv'
<1>n. PICK n \in Op : n = New(a)
  BY BeginIs
<1>1. /\ n \in Op /\ n[1] = a /\ doing' \in [Op -> {"none", "read", "write"}]
      /\ doing'[n] = kind /\ (\A o \in Op \ {n} : doing'[o] = doing[o])
      /\ doing[n] = "none" /\ got[n] = Raw /\ hbuf[n] = Raw /\ ~Queued(n) /\ ~Entered(n)
      /\ told[n] = "none" /\ done[n] = 0
  BY <1>n, BeginIs
<1>2. ~Served(n)
  BY <1>1 DEF Served
<1>3. \A o \in Op : /\ Entered(o)' <=> Entered(o)
                    /\ Served(o)' <=> Served(o)
                    /\ Queued(o)' <=> Queued(o) \/ o = n
  BY <1>n DEF Entered
<1>4. /\ hbuf' \in [Op -> Op \cup {Raw}] /\ \A o \in Op \ {n} : hbuf'[o] = hbuf[o]
      /\ hbuf'[n] = IF kind = "write" /\ a \in OnStack THEN n ELSE Raw
  BY <1>n, <1>1 DEF ChanInv, TypeOK
<1>5. WritersInv'
  BY <1>1, <1>2, <1>3, <1>4 DEF ChanInv, WritersInv
<1>6. ReadersInv'
  BY <1>1, <1>2, <1>3, <1>4 DEF ChanInv, ReadersInv
<1>7. HoldersInv'
  <2>1. \A o, x \in Op : (doing'[o] = "read" /\ Holds(o, x)') <=> (doing[o] = "read" /\ Holds(o, x))
    BY <1>1, <1>4, RawIsNoOp DEF Holds
  <2> QED
    BY <2>1, HoldersKept DEF ChanInv
<1> QED
  BY <1>4, <1>5, <1>6, <1>7 DEF ObjectsInv, ChanInv, TypeOK

-----------------------------------------------------------------------------
\* The reads and writes, one by one.
LEMMA NotifyIs ==
    ASSUME ChanInv, NEW w \in Op, Notify(w) \/ pc' = pc
    PROVE  SamePhases
<1>1. \A b \in Actor : pc[b] = "cv" => b \in Thread
  BY DEF ChanInv, PhaseInv, Actor
<1> QED
  BY <1>1 DEF Notify, SamePhases, ChanInv, TypeOK

LEMMA ReadSomeKeeps == ASSUME ChanInv, NEW a \in Actor, ReadSome(a) PROVE ChanInv'
<1>F. PICK F : F = {}
  OBVIOUS
<1>1. /\ Begin(a, "read") /\ Returns(a, "done") /\ ReadBlock(a) /\ rx # wx
      /\ slot' = [slot EXCEPT ![rx] = Raw]
      /\ UNCHANGED <<wx, full, wq, state, done, hbuf, pc, accepted>>
  BY DEF ReadSome
<1>2. SamePhases /\ Serving(F, F, 1)
  BY <1>F, <1>1, NobodyServed DEF SamePhases, ChanInv, TypeOK
<1>3. ~full /\ ~Empty /\ TakesOldest
  BY <1>1 DEF ChanInv, PlacesInv, TypeOK, Empty, ReadBlock, TakesOldest
<1>4. RingInv' /\ slot[rx] \in Op /\ ~Has(delivered, slot[rx]) /\ delivered' = Append(delivered, slot[rx])
  BY <1>3, TakeKeeps DEF TakesOldest
<1>5. \A o \in Op : ~Queued(o)
  BY <1>3 DEF ChanInv, QueueInv
<1>6. \A o \in Op : ~Queued(o)'
  BY <1>1, <1>5 DEF Queued
<1>7. WaitersInv' /\ \A o \in Op : Served(o)' <=> Served(o) \/ o \in F \/ o = New(a)
  BY <1>1, <1>2, <1>6, ReturnKeeps
<1>8. \A o \in Op : Entered(o)' <=> Entered(o) \/ o \in F
  BY <1>F, <1>1 DEF Entered
<1>9. got' = [got EXCEPT ![New(a)] = slot[rx]]
  <2>1. Current(a)' = New(a)
    BY <1>1, BeginIs
  <2> QED
    BY <1>1, <2>1 DEF ReadBlock
<1>10. hbuf' \in [Op -> Op \cup {Raw}] /\ \A o \in Op : hbuf'[o] = IF o \in F \/ o \in F THEN Raw ELSE hbuf[o]
  BY <1>F, <1>1 DEF ChanInv, TypeOK
<1>11. ObjectsInv'
  BY <1>F, <1>1, <1>2, <1>4, <1>7, <1>8, <1>9, <1>10, ReadKeeps
<1> QED
  BY <1>4, <1>7, <1>11, PartsAre

LEMMA ReadFullKeeps == ASSUME ChanInv, NEW a \in Actor, ReadFull(a) PROVE ChanInv'
<1>P. PICK P, F : P = {o \in Op : Queued(o)} /\ F = {}
  OBVIOUS
<1>1. /\ Begin(a, "read") /\ Returns(a, "done") /\ ReadBlock(a) /\ rx = wx /\ full /\ NobodyFound
      /\ slot' = [slot EXCEPT ![rx] = Raw] /\ full' = FALSE
      /\ hbuf' = [o \in Op |-> IF state'[o] = "free" THEN Raw ELSE hbuf[o]]
      /\ UNCHANGED <<wx, pc, accepted>>
  BY DEF ReadFull
<1>2. SamePhases /\ Serving(P, F, 1) /\ \A o \in Op : ~Queued(o)'
  BY <1>P, <1>1, NobodyFoundIs DEF SamePhases, ChanInv, TypeOK
<1>3. ~Empty /\ TakesOldest
  BY <1>1 DEF Empty, ReadBlock, TakesOldest
<1>4. RingInv' /\ slot[rx] \in Op /\ ~Has(delivered, slot[rx]) /\ delivered' = Append(delivered, slot[rx])
  BY <1>3, TakeKeeps DEF TakesOldest
<1>5. WaitersInv' /\ \A o \in Op : Served(o)' <=> Served(o) \/ o \in F \/ o = New(a)
  BY <1>1, <1>2, ReturnKeeps
<1>6. \A o \in Op : Entered(o)' <=> Entered(o) \/ o \in F
  BY <1>P, <1>1 DEF Entered
<1>7. got' = [got EXCEPT ![New(a)] = slot[rx]]
  <2>1. Current(a)' = New(a)
    BY <1>1, BeginIs
  <2> QED
    BY <1>1, <2>1 DEF ReadBlock
<1>8. \A o \in Op : o \in P \/ o \in F => doing[o] = "write"
  BY <1>P, <1>3 DEF ChanInv, QueueInv, TypeOK
<1>9. hbuf' \in [Op -> Op \cup {Raw}] /\ \A o \in Op : hbuf'[o] = IF o \in P \/ o \in F THEN Raw ELSE hbuf[o]
  <2>1. \A o \in Op : IF o \in P THEN state'[o] = "free" ELSE state'[o] = state[o]
    BY <1>P, <1>2 DEF Serving
  <2>2. \A o \in Op : state[o] = "free" => hbuf[o] = Raw
    BY FreeIsRaw
  <2> QED
    BY <1>P, <1>1, <2>1, <2>2 DEF ChanInv, TypeOK
<1>10. ObjectsInv'
  BY <1>1, <1>2, <1>4, <1>5, <1>6, <1>7, <1>8, <1>9, ReadKeeps
<1> QED
  BY <1>4, <1>5, <1>10, PartsAre

LEMMA ReadAndAdmitKeeps == ASSUME ChanInv, NEW a \in Actor, ReadAndAdmit(a) PROVE ChanInv'
<1>w. PICK w : w = wq[First]
  OBVIOUS
<1>1. /\ Begin(a, "read") /\ Returns(a, "done") /\ ReadBlock(a) /\ rx = wx /\ full /\ Live # {} /\ Found(w)
      /\ slot' = [slot EXCEPT ![wx] = Offered(w)]
      /\ accepted' = Append(accepted, Offered(w))
      /\ hbuf' = [o \in Op |-> IF o = w \/ o \in Popped THEN Raw ELSE hbuf[o]]
      /\ Notify(w) /\ wx' = Step(wx) /\ full' = full
  BY <1>w DEF ReadAndAdmit
<1>2. /\ w \in Op /\ Queued(w) /\ Waits(w) /\ state[w] = "wait" /\ done[w] = 0
      /\ Popped \subseteq Op /\ Serving(Popped, {w}, 1)
  BY <1>1, <1>w, FoundIs
<1>3. SamePhases
  BY <1>1, <1>2, NotifyIs
<1>4. \A o \in Op : Queued(o) => doing[o] = "write"
  BY <1>1 DEF ChanInv, QueueInv, TypeOK, Empty
<1>5. Offered(w) = w /\ ~Entered(w)
  <2>1. doing[w] = "write" /\ hbuf[w] = IF w[1] \in OnStack THEN w ELSE Raw
    BY <1>2, <1>4 DEF ChanInv, WritersInv
  <2>2. told[w] = "none"
    <3>1. Pending(w)
      BY <1>2, OpIs DEF Pending
    <3> QED
      BY <1>2, <3>1 DEF ChanInv, PhaseInv
  <2>3. ~Served(w)
    BY <1>2, <2>2 DEF Served
  <2> QED
    BY <1>2, <2>1, <2>3 DEF ChanInv, WritersInv, Offered
<1>6. Admits(w)
  BY <1>1, <1>5 DEF Admits, ReadBlock
<1>7. RingInv' /\ slot[rx] \in Op /\ ~Has(delivered, slot[rx]) /\ delivered' = Append(delivered, slot[rx])
  BY <1>1, <1>2, <1>5, <1>6, AdmitKeeps DEF Admits
<1>8. (Empty' <=> Empty) /\ full' = full
  BY <1>1 DEF Empty
<1>9. WaitersInv' /\ \A o \in Op : Served(o)' <=> Served(o) \/ o \in {w} \/ o = New(a)
  BY <1>1, <1>2, <1>3, <1>8, ReturnKeeps
<1>10. \A o \in Op : Entered(o)' <=> Entered(o) \/ o \in {w}
  <2>1. \A x : Has(Append(accepted, w), x) <=> Has(accepted, x) \/ x = w
    BY <1>2, HasAppend DEF ChanInv, TypeOK
  <2>2. accepted' = Append(accepted, w)
    BY <1>1, <1>5
  <2> QED
    BY <2>1, <2>2 DEF Entered, Has
<1>11. got' = [got EXCEPT ![New(a)] = slot[rx]]
  <2>1. Current(a)' = New(a)
    BY <1>1, BeginIs
  <2> QED
    BY <1>1, <2>1 DEF ReadBlock
<1>12. \A o \in Op : o \in Popped \/ o \in {w} => doing[o] = "write"
  BY <1>2, <1>4 DEF Serving
<1>13. hbuf' \in [Op -> Op \cup {Raw}] /\ \A o \in Op : hbuf'[o] = IF o \in Popped \/ o \in {w} THEN Raw ELSE hbuf[o]
  BY <1>1 DEF ChanInv, TypeOK
<1>14. ObjectsInv'
  BY <1>1, <1>2, <1>7, <1>9, <1>10, <1>11, <1>12, <1>13, ReadKeeps
<1> QED
  BY <1>7, <1>9, <1>14, PartsAre

LEMMA ClosedIsKept ==
    ASSUME ChanInv, NEW a \in Actor, ReadClosed(a) \/ WriteClosed(a)
    PROVE  ChanInv'
<1>1. PICK kind \in {"read", "write"} : Begin(a, kind)
  BY DEF ReadClosed, WriteClosed
<1>2. /\ Returns(a, "enod")
      /\ UNCHANGED <<rx, wx, full, slot, wq, state, done, hbuf, pc, got, accepted, delivered>>
  BY DEF ReadClosed, WriteClosed, ring
<1>3. SamePhases /\ Serving({}, {}, 1) /\ (Empty' <=> Empty) /\ full' = full
  BY <1>2, NobodyServed DEF SamePhases, ChanInv, TypeOK, Empty
<1>4. WaitersInv' /\ \A o \in Op : Served(o)' <=> Served(o) \/ o \in {} \/ (o = New(a) /\ "enod" = "done")
  BY <1>1, <1>2, <1>3, ReturnKeeps
<1>5. \A o \in Op : Served(o)' <=> Served(o)
  BY <1>4
<1>6. ObjectsInv'
  BY <1>1, <1>2, <1>5, ClosedKeeps
<1> QED
  BY <1>2, <1>4, <1>6, RingKept, PartsAre

LEMMA WriteSomeKeeps == ASSUME ChanInv, NEW a \in Actor, WriteSome(a) \/ WriteEmpty(a) PROVE ChanInv'
<1>1. /\ Begin(a, "write") /\ Returns(a, "done") /\ WriteBlock(a) /\ ~full
      /\ UNCHANGED <<hbuf, pc, got, delivered>>
  BY DEF WriteSome, WriteEmpty, ChanInv, PlacesInv, Empty
<1>2. PICK P : /\ Serving(P, {}, 1) /\ \A o \in Op : ~Queued(o)'
               /\ \A o \in Op : o \in P => doing[o] = "read"
  <2>1. CASE WriteSome(a)
    <3>1. UNCHANGED <<wq, state, done>> /\ ~Empty
      BY <2>1 DEF WriteSome, Empty
    <3>2. \A o \in Op : ~Queued(o)
      BY <1>1, <3>1 DEF ChanInv, QueueInv
    <3>3. \A o \in Op : ~Queued(o)'
      BY <3>1, <3>2 DEF Queued
    <3>4. Serving({}, {}, 1)
      BY <3>1, NobodyServed
    <3> QED
      BY <3>3, <3>4
  <2>2. CASE WriteEmpty(a)
    <3>1. NobodyFound
      BY <2>2 DEF WriteEmpty
    <3>2. \A o \in Op : Queued(o) => doing[o] = "read"
      BY <1>1 DEF ChanInv, QueueInv
    <3> QED
      BY <3>1, <3>2, NobodyFoundIs
  <2> QED
    BY <2>1, <2>2
<1>3. SamePhases
  BY <1>1 DEF SamePhases, ChanInv, TypeOK
<1>4. WaitersInv' /\ \A o \in Op : Served(o)' <=> Served(o) \/ o \in {} \/ o = New(a)
  BY <1>1, <1>2, <1>3, ReturnKeeps
<1>n. PICK n \in Op : n = New(a) /\ ~Entered(n) /\ Current(a)' = n
  BY <1>1, BeginIs
<1>5. PutsLast(n)
  BY <1>n, <1>1 DEF PutsLast, WriteBlock
<1>6. RingInv'
  BY <1>n, <1>1, <1>5, PutKeeps
<1>7. \A o \in Op : Entered(o)' <=> Entered(o) \/ o = New(a)
  <2>1. \A x : Has(Append(accepted, n), x) <=> Has(accepted, x) \/ x = n
    BY HasAppend DEF ChanInv, TypeOK
  <2>2. accepted' = Append(accepted, n)
    BY <1>5 DEF PutsLast
  <2> QED
    BY <1>n, <2>1, <2>2 DEF Entered, Has
<1>8. \A o \in Op : Served(o)' <=> Served(o) \/ o = New(a)
  BY <1>4
<1>9. ObjectsInv'
  BY <1>1, <1>2, <1>7, <1>8, WriteKeeps
<1> QED
  BY <1>4, <1>6, <1>9, PartsAre

LEMMA WriteHandsOverKeeps == ASSUME ChanInv, NEW a \in Actor, WriteHandsOver(a) PROVE ChanInv'
<1>r. PICK r : r = wq[First]
  OBVIOUS
<1>n. PICK n \in Op : n = New(a) /\ ~Entered(n) /\ Current(a)' = n
  BY BeginIs DEF WriteHandsOver
<1>1. /\ Begin(a, "write") /\ Returns(a, "done") /\ Empty /\ Live # {} /\ Found(r) /\ Notify(r)
      /\ IF r[1] \in OnStack
         THEN hbuf' = [hbuf EXCEPT ![r] = n] /\ got' = got
         ELSE got' = [got EXCEPT ![r] = n] /\ hbuf' = hbuf
      /\ accepted' = Append(accepted, n) /\ delivered' = Append(delivered, n)
      /\ UNCHANGED ring
  BY <1>r, <1>n DEF WriteHandsOver
<1>2. r \in Op /\ Serving(Popped, {r}, 1)
  BY <1>1, <1>r, FoundIs
<1>3. SamePhases
  BY <1>1, <1>2, NotifyIs
<1>4. RingInv' /\ ~Has(delivered, n)
  BY <1>n, <1>1, PassKeeps DEF Passes
<1>5. (Empty' <=> Empty) /\ full' = full
  BY <1>1 DEF Empty, ring
<1>6. WaitersInv' /\ \A o \in Op : Served(o)' <=> Served(o) \/ o \in {r} \/ o = New(a)
  BY <1>1, <1>2, <1>3, <1>5, ReturnKeeps
<1>7. \A o \in Op : Entered(o)' <=> Entered(o) \/ o = New(a)
  <2>1. \A x : Has(Append(accepted, n), x) <=> Has(accepted, x) \/ x = n
    BY HasAppend DEF ChanInv, TypeOK
  <2>2. accepted' = Append(accepted, n)
    BY <1>1
  <2> QED
    BY <1>n, <2>1, <2>2 DEF Entered, Has
<1>8. \A o \in Op : o \in Popped \/ o = r => doing[o] = "read"
  <2>1. \A o \in Op : Queued(o) => doing[o] = "read"
    BY <1>1 DEF ChanInv, QueueInv, Empty
  <2> QED
    BY <1>2, <2>1 DEF Serving
<1>9. ObjectsInv'
  <2>1. ~Has(delivered, New(a)) /\ delivered' = Append(delivered, New(a))
        /\ IF r[1] \in OnStack
           THEN hbuf' = [hbuf EXCEPT ![r] = New(a)] /\ got' = got
           ELSE got' = [got EXCEPT ![r] = New(a)] /\ hbuf' = hbuf
    BY <1>n, <1>1, <1>4
  <2> QED
    BY <1>1, <1>2, <1>6, <1>7, <1>8, <2>1, HandOverKeeps
<1> QED
  BY <1>4, <1>6, <1>9, PartsAre

LEMMA WaitsIsKept ==
    ASSUME ChanInv, NEW a \in Actor, ReadWaits(a) \/ WriteWaits(a)
    PROVE  ChanInv'
<1>1. PICK kind \in {"read", "write"} :
         /\ Begin(a, kind)
         /\ IF kind = "read" THEN Empty /\ closed = 0 ELSE full
         /\ hbuf' = IF kind = "write" /\ a \in OnStack THEN [hbuf EXCEPT ![Current(a)'] = Current(a)'] ELSE hbuf
  <2>1. CASE ReadWaits(a)
    BY <2>1 DEF ReadWaits
  <2>2. CASE WriteWaits(a)
    BY <2>2 DEF WriteWaits
  <2> QED
    BY <2>1, <2>2
<1>2. Enlists(a) /\ UNCHANGED <<rx, wx, full, slot, told, accepted, delivered, got>>
  BY DEF ReadWaits, WriteWaits, Enlists, ring
<1>3. hbuf' = IF kind = "write" /\ a \in OnStack THEN [hbuf EXCEPT ![New(a)] = New(a)] ELSE hbuf
  <2>1. Current(a)' = New(a)
    BY <1>1, BeginIs
  <2> QED
    BY <1>1, <2>1
<1>4. /\ WaitersInv'
      /\ \A o \in Op : (Served(o)' <=> Served(o)) /\ (Queued(o)' <=> Queued(o) \/ o = New(a))
  BY <1>1, <1>2, EnlistKeeps
<1>5. ObjectsInv'
  BY <1>1, <1>2, <1>3, <1>4, WaitKeeps
<1> QED
  BY <1>2, <1>4, <1>5, RingKept, PartsAre

-----------------------------------------------------------------------------
\* Those who wait, and have begun nothing new.
LEMMA OwnIs ==
    ASSUME ChanInv, NEW b \in Actor, pc[b] # "idle"
    PROVE  /\ Current(b) \in Op /\ Current(b)[1] = b /\ Current(b)[2] = ops[b]
           /\ Pending(Current(b)) /\ told[Current(b)] = "none" /\ ~Future(Current(b))
           /\ Waits(Current(b)) <=> pc[b] # "timedout"
<1>1. ops[b] \in 0..MaxOps /\ ops[b] # 0 /\ MaxOps \in Nat
  BY ChanAssumption DEF ChanInv, TypeOK, PhaseInv
<1>2. Current(b) \in Op /\ Current(b)[1] = b /\ Current(b)[2] = ops[b]
  BY <1>1 DEF Current, Op
<1>3. Pending(Current(b)) /\ ~Future(Current(b)) /\ (Waits(Current(b)) <=> pc[b] # "timedout")
  BY <1>1, <1>2, OpIs DEF Pending, Future
<1>4. told[Current(b)] = "none"
  BY <1>2, <1>3 DEF ChanInv, PhaseInv
<1> QED
  BY <1>2, <1>3, <1>4

LEMMA MoveIs ==
    ASSUME ChanInv, NEW b \in Actor, NEW p \in {"idle", "suspended", "timedout", "cv", "woken", "expired"},
           ops' = ops, pc' = [pc EXCEPT ![b] = p]
    PROVE  /\ pc' \in [Actor -> {"idle", "suspended", "timedout", "cv", "woken", "expired"}]
           /\ \A d \in Actor \ {b} : pc'[d] = pc[d]
           /\ pc'[b] = p
           /\ \A o \in Op : Future(o)' <=> Future(o)
           /\ \A o \in Op \ {Current(b)} : (Pending(o)' <=> Pending(o)) /\ (Waits(o)' <=> Waits(o))
           /\ \A o \in Op : o = Current(b) => /\ Pending(o)' <=> p # "idle"
                                              /\ Waits(o)' <=> p \notin {"idle", "timedout"}
<1>1. /\ pc' \in [Actor -> {"idle", "suspended", "timedout", "cv", "woken", "expired"}]
      /\ \A d \in Actor \ {b} : pc'[d] = pc[d]
      /\ pc'[b] = p
  BY DEF ChanInv, TypeOK
<1>2. \A o \in Op : Future(o)' <=> Future(o)
  BY DEF Future
<1>3. ASSUME NEW o \in Op, o # Current(b) PROVE (Pending(o)' <=> Pending(o)) /\ (Waits(o)' <=> Waits(o))
  <2>1. o = <<o[1], o[2]>> /\ o[1] \in Actor
    BY OpIs
  <2>2. CASE o[1] = b
    <3>1. o[2] # ops[b]
      BY <1>3, <2>1, <2>2 DEF Current
    <3> QED
      BY <2>2, <3>1, OpIs DEF Pending
  <2>3. CASE o[1] # b
    BY <1>1, <2>1, <2>3, OpIs DEF Pending
  <2> QED
    BY <2>2, <2>3
<1>4. ASSUME NEW o \in Op, o = Current(b)
      PROVE  (Pending(o)' <=> p # "idle") /\ (Waits(o)' <=> p \notin {"idle", "timedout"})
  <2>1. o[1] = b /\ o[2] = ops[b]
    BY <1>4 DEF Current
  <2> QED
    BY <1>1, <2>1, OpIs DEF Pending
<1> QED
  BY <1>1, <1>2, <1>3, <1>4

\* A step of an actor that waits: from the state, the phase and the answer of
\* its operation before and after it.
OwnStep(b, o, s, t, p) ==
    /\ UNCHANGED <<closed, wq, done, doing, ops>>
    /\ state' = [state EXCEPT ![o] = s]
    /\ told' = [told EXCEPT ![o] = t]
    /\ pc' = [pc EXCEPT ![b] = p]

LEMMA OwnStepKeeps ==
    ASSUME ChanInv, NEW b \in Actor, pc[b] # "idle", NEW o \in Op, o = Current(b),
           NEW s \in {"free", "wait", "ready", "timeout"}, NEW t \in {"none", "done", "enod"},
           NEW p \in {"idle", "suspended", "timedout", "cv", "woken", "expired"},
           OwnStep(b, o, s, t, p), Empty' <=> Empty, full' = full,
           b \in Co => p \in {"idle", "suspended", "timedout"},
           b \in Thread => p \in ThreadPhases,
           t = "none" <=> p # "idle", t = "done" => done[o] = 1, t = "enod" => done[o] # 1,
           p = "timedout" => done[o] = 0,
           s = "wait" => p \notin {"idle", "timedout"} /\ (Timed => done[o] = 0),
           s = "ready" => p \notin {"idle", "timedout"} /\ done[o] # 0,
           s = "timeout" => Queued(o) /\ p \in {"idle", "timedout"},
           s = "free" => ~Queued(o) /\ p \in {"idle", "timedout"},
           p \notin {"idle", "timedout"} /\ done[o] = 0 => s = "wait" /\ Queued(o)
    PROVE  WaitersInv' /\ \A q \in Op : (Served(q)' <=> Served(q)) /\ (Queued(q)' <=> Queued(q))
<1>1. /\ WaitersInv /\ told[o] = "none" /\ ~Future(o) /\ ops[b] # 0 /\ o[1] = b
  BY WaitersAre, OwnIs DEF ChanInv, PhaseInv
<1>2. /\ pc' \in [Actor -> {"idle", "suspended", "timedout", "cv", "woken", "expired"}]
      /\ (\A d \in Actor \ {b} : pc'[d] = pc[d]) /\ pc'[b] = p
      /\ \A q \in Op : Future(q)' <=> Future(q)
      /\ \A q \in Op \ {o} : (Pending(q)' <=> Pending(q)) /\ (Waits(q)' <=> Waits(q))
      /\ (Pending(o)' <=> p # "idle") /\ (Waits(o)' <=> p \notin {"idle", "timedout"})
  BY MoveIs DEF OwnStep
<1>3. /\ told' \in [Op -> {"none", "done", "enod"}] /\ told'[o] = t /\ \A q \in Op \ {o} : told'[q] = told[q]
      /\ state' \in [Op -> {"free", "wait", "ready", "timeout"}]
      /\ state'[o] = s /\ \A q \in Op \ {o} : state'[q] = state[q]
  BY <1>1 DEF OwnStep, WaitersInv, WaitersType
<1>4. UNCHANGED <<closed, wq, done, doing, ops>> /\ \A q \in Op : Queued(q)' <=> Queued(q)
  BY DEF OwnStep, Queued
<1>5. WaitersType'
  BY <1>1, <1>2, <1>3, <1>4 DEF WaitersInv, WaitersType
<1>6. QueueInv'
  BY <1>1, <1>4 DEF WaitersInv, QueueInv, Distinct
<1>7. WaitxInv'
  <2> SUFFICES ASSUME NEW q \in Op
               PROVE  /\ state'[q] = "wait" => Waits(q)' /\ (Timed => done[q] = 0)
                      /\ state'[q] = "ready" => Waits(q)' /\ done[q] # 0
                      /\ state'[q] = "timeout" => Queued(q) /\ ~Waits(q)'
                      /\ state'[q] = "free" => ~Queued(q) /\ ~Waits(q)'
                      /\ Waits(q)' /\ done[q] = 0 => state'[q] = "wait" /\ Queued(q)
    BY <1>4 DEF WaitxInv
  <2>1. CASE q = o
    BY <1>2, <1>3, <2>1
  <2>2. CASE q # o
    BY <1>1, <1>2, <1>3, <2>2 DEF WaitersInv, WaitxInv
  <2> QED
    BY <2>1, <2>2
<1>8. PhaseInv'
  <2>1. \A d \in Actor : /\ pc'[d] # "idle" => ops'[d] # 0
                         /\ d \in Co => pc'[d] \in {"idle", "suspended", "timedout"}
                         /\ d \in Thread => pc'[d] \in ThreadPhases
    BY <1>1, <1>2, <1>4 DEF WaitersInv, PhaseInv
  <2>2. ASSUME NEW q \in Op
        PROVE  /\ doing[q] = "none" <=> Future(q)
               /\ told'[q] = "none" <=> Future(q) \/ Pending(q)'
               /\ told'[q] = "none" /\ ~Waits(q)' => done[q] = 0
               /\ told'[q] = "enod" => done[q] # 1
               /\ done[q] = 2 => doing[q] = "read"
    <3>1. CASE q = o
      BY <1>1, <1>2, <1>3, <3>1 DEF WaitersInv, PhaseInv
    <3>2. CASE q # o
      BY <1>1, <1>2, <1>3, <3>2 DEF WaitersInv, PhaseInv
    <3> QED
      BY <3>1, <3>2
  <2> QED
    BY <1>2, <1>4, <2>1, <2>2 DEF PhaseInv
<1>9. \A q \in Op : Served(q)' <=> Served(q)
  <2> TAKE q \in Op
  <2>1. CASE q = o
    BY <1>1, <1>3, <1>4, <2>1 DEF Served
  <2>2. CASE q # o
    BY <1>3, <1>4, <2>2 DEF Served
  <2> QED
    BY <2>1, <2>2
<1> QED
  BY <1>4, <1>5, <1>6, <1>7, <1>8, <1>9 DEF WaitersInv

\* No object moves.
LEMMA ObjectsKept ==
    ASSUME ChanInv, UNCHANGED <<doing, accepted, delivered, got, hbuf>>,
           \A q \in Op : (Served(q)' <=> Served(q)) /\ (doing[q] # "read" => (Queued(q)' <=> Queued(q))),
           \A q \in Op : /\ told'[q] = "none" => told[q] = "none"
                         /\ doing[q] = "read" /\ told'[q] # told[q] => hbuf[q] = Raw
    PROVE  ObjectsInv'
<1>1. \A q \in Op : Entered(q)' <=> Entered(q)
  BY DEF Entered
<1>2. WritersInv'
  BY <1>1 DEF ChanInv, WritersInv
<1>3. ReadersInv'
  BY DEF ChanInv, ReadersInv
<1>4. HoldersInv'
  <2>1. \A o, x \in Op : (doing'[o] = "read" /\ Holds(o, x)') <=> (doing[o] = "read" /\ Holds(o, x))
    BY DEF Holds
  <2> QED
    BY <2>1, HoldersKept DEF ChanInv
<1> QED
  BY <1>2, <1>3, <1>4 DEF ObjectsInv, ChanInv, TypeOK

\* An operation of nobody's making: the object behind a waitx that nobody has
\* served is not there.
LEMMA UnservedIsRaw == ASSUME ChanInv, NEW o \in Op, doing[o] = "read", told[o] = "none", done[o] # 1 PROVE hbuf[o] = Raw
BY DEF ChanInv, ReadersInv, Served

LEMMA AnsweredKeeps ==
    ASSUME ChanInv, NEW b \in Actor, pc[b] \in {"suspended", "cv", "woken", "expired"}, NEW o \in Op, o = Current(b),
           Answered(b, o), done[o] # 0, UNCHANGED Kept
    PROVE  /\ WaitersInv' /\ \A q \in Op : (Served(q)' <=> Served(q)) /\ (Queued(q)' <=> Queued(q))
           /\ told[o] = "none" /\ told' = [told EXCEPT ![o] = IF done[o] = 1 THEN "done" ELSE "enod"]
<1>t. PICK t \in {"none", "done", "enod"} : t = IF done[o] = 1 THEN "done" ELSE "enod"
  OBVIOUS
<1>1. OwnStep(b, o, "free", t, "idle")
  BY <1>t DEF OwnStep, Answered, Kept
<1>2. ~Queued(o) /\ told[o] = "none"
  BY OwnIs DEF ChanInv, QueueInv
<1>3. (Empty' <=> Empty) /\ full' = full
  BY DEF Empty, Kept, ring
<1>4. WaitersInv' /\ \A q \in Op : (Served(q)' <=> Served(q)) /\ (Queued(q)' <=> Queued(q))
  <2>1. "idle" \in ThreadPhases
    BY DEF ThreadPhases
  <2> QED
    BY <1>t, <1>1, <1>2, <1>3, <2>1, OwnStepKeeps
<1> QED
  BY <1>2, <1>4 DEF Answered

LEMMA ResumeCoKeeps == ASSUME ChanInv, NEW c \in Co, ResumeCo(c) PROVE ChanInv'
<1>o. PICK o \in Op : o = Current(c) /\ o[1] = c
  BY OwnIs DEF ResumeCo, Actor
<1>1. /\ c \in Actor /\ pc[c] = "suspended" /\ done[o] # 0 /\ Answered(c, o) /\ UNCHANGED Kept
      /\ IF doing[o] = "read" /\ done[o] = 1 /\ c \in OnStack
         THEN got' = [got EXCEPT ![o] = hbuf[o]] /\ hbuf' = [hbuf EXCEPT ![o] = Raw]
         ELSE UNCHANGED <<got, hbuf>>
  BY <1>o DEF ResumeCo, Actor
<1>2. /\ WaitersInv' /\ \A q \in Op : (Served(q)' <=> Served(q)) /\ (Queued(q)' <=> Queued(q))
      /\ told[o] = "none" /\ told' = [told EXCEPT ![o] = IF done[o] = 1 THEN "done" ELSE "enod"]
  BY <1>o, <1>1, AnsweredKeeps
<1>3. UNCHANGED <<rx, wx, full, slot, accepted, delivered, doing>>
  BY <1>1 DEF Kept, ring
<1>4. \A q \in Op \ {o} : told'[q] = told[q]
  BY <1>2 DEF ChanInv, TypeOK
<1>5. told'[o] = (IF done[o] = 1 THEN "done" ELSE "enod") /\ (Served(o) <=> done[o] = 1)
  BY <1>2 DEF ChanInv, TypeOK, Served
<1>6. ObjectsInv'
  <2>1. CASE doing[o] = "read" /\ done[o] = 1 /\ c \in OnStack
    <3>0. got[o] = Raw /\ got \in [Op -> Op \cup {Raw}] /\ hbuf \in [Op -> Op \cup {Raw}]
      BY <1>o, <1>2, <2>1 DEF ChanInv, TypeOK, ReadersInv
    <3>1. /\ got' \in [Op -> Op \cup {Raw}] /\ hbuf' \in [Op -> Op \cup {Raw}]
          /\ got'[o] = hbuf[o] /\ hbuf'[o] = Raw /\ got[o] = Raw
          /\ \A q \in Op \ {o} : got'[q] = got[q] /\ hbuf'[q] = hbuf[q]
      BY <1>1, <2>1, <3>0
    <3>2. \A q \in Op : Entered(q)' <=> Entered(q)
      BY <1>3 DEF Entered
    <3>3. WritersInv'
      BY <1>2, <1>3, <2>1, <3>1, <3>2 DEF ChanInv, WritersInv
    <3>4. ReadersInv'
      <4> SUFFICES ASSUME NEW q \in Op, doing[q] = "read"
                   PROVE  /\ Served(q)' <=> got'[q] # Raw \/ hbuf'[q] # Raw
                          /\ q[1] \notin OnStack \/ told'[q] # "none" => hbuf'[q] = Raw
                          /\ q[1] \in OnStack /\ told'[q] = "none" => got'[q] = Raw
        BY <1>3 DEF ReadersInv
      <4>1. /\ Served(q) <=> got[q] # Raw \/ hbuf[q] # Raw
            /\ q[1] \notin OnStack \/ told[q] # "none" => hbuf[q] = Raw
            /\ q[1] \in OnStack /\ told[q] = "none" => got[q] = Raw
        BY DEF ChanInv, ReadersInv
      <4>2. CASE q = o
        BY <1>2, <1>5, <2>1, <3>1, <4>1, <4>2
      <4>3. CASE q # o
        BY <1>2, <1>4, <3>1, <4>1, <4>3
      <4> QED
        BY <4>2, <4>3
    <3>5. HoldersInv'
      <4>1. \A q, x \in Op : (doing'[q] = "read" /\ Holds(q, x)') <=> (doing[q] = "read" /\ Holds(q, x))
        <5> TAKE q, x \in Op
        <5>1. x # Raw
          BY RawIsNoOp
        <5>2. CASE q = o
          BY <1>3, <3>1, <5>1, <5>2 DEF Holds
        <5>3. CASE q # o
          BY <1>3, <3>1, <5>3 DEF Holds
        <5> QED
          BY <5>2, <5>3
      <4> QED
        BY <1>3, <4>1, HoldersKept DEF ChanInv
    <3> QED
      BY <3>1, <3>3, <3>4, <3>5 DEF ObjectsInv
  <2>2. CASE ~(doing[o] = "read" /\ done[o] = 1 /\ c \in OnStack)
    <3>1. UNCHANGED <<got, hbuf>>
      BY <1>1, <2>2
    <3>2. doing[o] = "read" => hbuf[o] = Raw
      <4>1. CASE done[o] = 1
        BY <1>o, <2>2, <4>1 DEF ChanInv, ReadersInv
      <4>2. CASE done[o] # 1
        BY <1>2, <4>2, UnservedIsRaw
      <4> QED
        BY <4>1, <4>2
    <3>3. \A q \in Op : /\ told'[q] = "none" => told[q] = "none"
                        /\ doing[q] = "read" /\ told'[q] # told[q] => hbuf[q] = Raw
      BY <1>2, <1>4, <3>2
    <3> QED
      BY <1>2, <1>3, <3>1, <3>3, ObjectsKept
  <2> QED
    BY <2>1, <2>2
<1> QED
  BY <1>2, <1>3, <1>6, RingKept, PartsAre

LEMMA TimeoutKeeps == ASSUME ChanInv, NEW c \in Co, Timeout(c) PROVE ChanInv'
<1>o. PICK o \in Op : o = Current(c) /\ Waits(o) /\ told[o] = "none"
  BY OwnIs DEF Timeout, Actor
<1>1. /\ c \in Actor /\ Timed /\ pc[c] = "suspended" /\ state[o] = "wait"
      /\ state' = [state EXCEPT ![o] = "timeout"] /\ pc' = [pc EXCEPT ![c] = "timedout"]
      /\ UNCHANGED <<Kept, hbuf, got, told>>
  BY <1>o DEF Timeout, Actor
<1>2. done[o] = 0 /\ Queued(o)
  BY <1>o, <1>1 DEF ChanInv, WaitxInv
<1>3. UNCHANGED <<rx, wx, full, slot, closed, wq, done, doing, ops, accepted, delivered, hbuf, got, told>>
  BY <1>1 DEF Kept, ring
<1>4. OwnStep(c, o, "timeout", "none", "timedout")
  <2>1. told' = [told EXCEPT ![o] = "none"]
    BY <1>o, <1>3 DEF ChanInv, TypeOK
  <2> QED
    BY <1>1, <1>3, <2>1 DEF OwnStep
<1>5. (Empty' <=> Empty) /\ full' = full /\ c \notin Thread
  BY <1>3, ChanAssumption DEF Empty
<1>6. WaitersInv' /\ \A q \in Op : (Served(q)' <=> Served(q)) /\ (Queued(q)' <=> Queued(q))
  BY <1>o, <1>1, <1>2, <1>4, <1>5, OwnStepKeeps
<1>7. ObjectsInv'
  BY <1>3, <1>6, ObjectsKept
<1> QED
  BY <1>3, <1>6, <1>7, RingKept, PartsAre

LEMMA ResumeTimedOutKeeps == ASSUME ChanInv, NEW c \in Co, ResumeTimedOut(c) PROVE ChanInv'
<1>o. PICK o \in Op : o = Current(c) /\ ~Waits(o) /\ told[o] = "none" /\ ~Future(o)
  BY OwnIs DEF ResumeTimedOut, Actor
<1>1. /\ c \in Actor /\ pc[c] = "timedout"
      /\ told' = [told EXCEPT ![o] = "enod"] /\ pc' = [pc EXCEPT ![c] = "idle"]
      /\ UNCHANGED <<Kept, state, hbuf, got>>
  BY <1>o DEF ResumeTimedOut, Actor
<1>2. UNCHANGED <<rx, wx, full, slot, closed, wq, done, doing, ops, accepted, delivered, hbuf, got, state>>
  BY <1>1 DEF Kept, ring
<1>3. done[o] = 0
  BY <1>o DEF ChanInv, PhaseInv
<1>s. PICK s \in {"free", "wait", "ready", "timeout"} : s = state[o]
  BY DEF ChanInv, TypeOK
<1>4. OwnStep(c, o, s, "enod", "idle")
  <2>1. state' = [state EXCEPT ![o] = s]
    BY <1>s, <1>2 DEF ChanInv, TypeOK
  <2> QED
    BY <1>1, <1>2, <2>1 DEF OwnStep
<1>5. /\ s # "wait" /\ s # "ready"
      /\ s = "timeout" => Queued(o)
      /\ s = "free" => ~Queued(o)
  BY <1>s, <1>o DEF ChanInv, WaitxInv
<1>6. (Empty' <=> Empty) /\ full' = full
  BY <1>2 DEF Empty
<1>7. WaitersInv' /\ \A q \in Op : (Served(q)' <=> Served(q)) /\ (Queued(q)' <=> Queued(q))
  <2>1. "idle" \in ThreadPhases
    BY DEF ThreadPhases
  <2> QED
    BY <1>o, <1>1, <1>3, <1>4, <1>5, <1>6, <2>1, OwnStepKeeps
<1>8. ObjectsInv'
  <2>1. \A q \in Op : /\ told'[q] = "none" => told[q] = "none"
                      /\ doing[q] = "read" /\ told'[q] # told[q] => hbuf[q] = Raw
    BY <1>o, <1>1, <1>3, UnservedIsRaw DEF ChanInv, TypeOK
  <2> QED
    BY <1>2, <1>7, <2>1, ObjectsKept
<1> QED
  BY <1>2, <1>7, <1>8, RingKept, PartsAre

LEMMA LeaveKeeps ==
    ASSUME ChanInv, NEW t \in Thread, NEW p \in ThreadPhases \ {"idle"}, pc[t] \in {"cv", "woken", "expired"},
           pc' = [pc EXCEPT ![t] = p], UNCHANGED <<Kept, state, hbuf, got, told>>
    PROVE  ChanInv'
<1>o. PICK o \in Op : o = Current(t) /\ Waits(o) /\ told[o] = "none"
  BY OwnIs DEF Actor
<1>2. UNCHANGED <<rx, wx, full, slot, closed, wq, done, doing, ops, accepted, delivered, hbuf, got, state, told>>
  BY DEF Kept, ring
<1>s. PICK s \in {"free", "wait", "ready", "timeout"} : s = state[o]
  BY DEF ChanInv, TypeOK
<1>3. OwnStep(t, o, s, "none", p)
  <2>1. state' = [state EXCEPT ![o] = s] /\ told' = [told EXCEPT ![o] = "none"]
    BY <1>s, <1>o, <1>2 DEF ChanInv, TypeOK
  <2> QED
    BY <1>2, <2>1 DEF OwnStep
<1>4. /\ s = "wait" => (Timed => done[o] = 0)
      /\ s = "ready" => done[o] # 0
      /\ s # "timeout" /\ s # "free"
      /\ done[o] = 0 => s = "wait" /\ Queued(o)
  BY <1>s, <1>o DEF ChanInv, WaitxInv
<1>5. (Empty' <=> Empty) /\ full' = full /\ t \in Actor /\ t \notin Co
  BY <1>2, ChanAssumption DEF Empty, Actor
<1>6. WaitersInv' /\ \A q \in Op : (Served(q)' <=> Served(q)) /\ (Queued(q)' <=> Queued(q))
  <2>1. p \in {"cv", "woken", "expired"}
    BY DEF ThreadPhases
  <2> QED
    BY <1>o, <1>3, <1>4, <1>5, <2>1, OwnStepKeeps
<1>7. ObjectsInv'
  BY <1>2, <1>6, ObjectsKept
<1> QED
  BY <1>2, <1>6, <1>7, RingKept, PartsAre

LEMMA ThreadWokenKeeps == ASSUME ChanInv, NEW t \in Thread, ThreadWoken(t) PROVE ChanInv'
<1>o. PICK o \in Op : o = Current(t) /\ Waits(o) /\ o[1] = t
  BY OwnIs DEF ThreadWoken, Actor
<1>1. /\ t \in Actor /\ pc[t] \in {"woken", "expired"} /\ UNCHANGED <<Kept, hbuf, got>>
      /\ IF done[o] # 0
         THEN Answered(t, o)
         ELSE pc' = [pc EXCEPT ![t] = "cv"] /\ UNCHANGED <<state, told>>
  BY <1>o DEF ThreadWoken, Actor
<1>2. CASE done[o] # 0
  <2>1. /\ WaitersInv' /\ \A q \in Op : (Served(q)' <=> Served(q)) /\ (Queued(q)' <=> Queued(q))
        /\ told[o] = "none" /\ told' = [told EXCEPT ![o] = IF done[o] = 1 THEN "done" ELSE "enod"]
    BY <1>o, <1>1, <1>2, AnsweredKeeps
  <2>2. UNCHANGED <<rx, wx, full, slot, accepted, delivered, doing, got, hbuf>>
    BY <1>1 DEF Kept, ring
  <2>3. t \notin OnStack
    BY ChanAssumption
  <2>4. \A q \in Op : /\ told'[q] = "none" => told[q] = "none"
                      /\ doing[q] = "read" /\ told'[q] # told[q] => hbuf[q] = Raw
    <3>1. doing[o] = "read" => hbuf[o] = Raw
      BY <1>o, <2>3 DEF ChanInv, ReadersInv
    <3> QED
      BY <2>1, <3>1 DEF ChanInv, TypeOK
  <2>5. ObjectsInv'
    BY <2>1, <2>2, <2>4, ObjectsKept
  <2> QED
    BY <2>1, <2>2, <2>5, RingKept, PartsAre
<1>3. CASE done[o] = 0
  <2>1. "cv" \in ThreadPhases \ {"idle"}
    BY DEF ThreadPhases
  <2> QED
    BY <1>1, <1>3, <2>1, LeaveKeeps
<1> QED
  BY <1>2, <1>3

LEMMA ThreadExpiredKeeps == ASSUME ChanInv, NEW t \in Thread, ThreadExpired(t) PROVE ChanInv'
<1>o. PICK o \in Op : o = Current(t) /\ Waits(o) /\ told[o] = "none" /\ o[1] = t
  BY OwnIs DEF ThreadExpired, Actor
<1>1. /\ t \in Actor /\ pc[t] = "expired" /\ state[o] = "wait" /\ state' = [state EXCEPT ![o] = "timeout"]
      /\ told' = [told EXCEPT ![o] = "enod"] /\ pc' = [pc EXCEPT ![t] = "idle"]
      /\ UNCHANGED <<Kept, hbuf, got>>
  BY <1>o DEF ThreadExpired, Actor
<1>2. UNCHANGED <<rx, wx, full, slot, closed, wq, done, doing, ops, accepted, delivered, hbuf, got>>
  BY <1>1 DEF Kept, ring
<1>3. done[o] = 0 /\ Queued(o)
  <2>1. Timed
    BY <1>1, ChanAssumption DEF ChanInv, PhaseInv, ThreadPhases
  <2> QED
    BY <1>o, <1>1, <2>1 DEF ChanInv, WaitxInv
<1>4. OwnStep(t, o, "timeout", "enod", "idle")
  BY <1>1, <1>2 DEF OwnStep
<1>5. (Empty' <=> Empty) /\ full' = full
  BY <1>2 DEF Empty
<1>6. WaitersInv' /\ \A q \in Op : (Served(q)' <=> Served(q)) /\ (Queued(q)' <=> Queued(q))
  <2>1. "idle" \in ThreadPhases
    BY DEF ThreadPhases
  <2> QED
    BY <1>o, <1>1, <1>3, <1>4, <1>5, <2>1, OwnStepKeeps
<1>7. ObjectsInv'
  <2>1. \A q \in Op : /\ told'[q] = "none" => told[q] = "none"
                      /\ doing[q] = "read" /\ told'[q] # told[q] => hbuf[q] = Raw
    BY <1>o, <1>1, <1>3, UnservedIsRaw DEF ChanInv, TypeOK
  <2> QED
    BY <1>2, <1>6, <2>1, ObjectsKept
<1> QED
  BY <1>2, <1>6, <1>7, RingKept, PartsAre

\* close() tells every reader that waits.
LEMMA CloseKeeps == ASSUME ChanInv, Close PROVE ChanInv'
<1>1. /\ closed = 0 /\ closed' = 1
      /\ UNCHANGED <<rx, wx, full, slot, hbuf, doing, ops, got, told, accepted, delivered, wq, state, done, pc>>
  BY DEF Close, KeptByClose, ring
<1>2. \A o \in Op : /\ Queued(o)' <=> Queued(o)
                    /\ Waits(o)' <=> Waits(o)
                    /\ Pending(o)' <=> Pending(o)
                    /\ Future(o)' <=> Future(o)
                    /\ Served(o)' <=> Served(o)
  BY <1>1, OpIs DEF Queued, Pending, Future, Served
<1>3. WaitersInv /\ (Empty' <=> Empty)
  BY <1>1, WaitersAre DEF Empty
<1>4. WaitersType'
  BY <1>1, <1>3 DEF WaitersInv, WaitersType
<1>5. QueueInv'
  BY <1>1, <1>2, <1>3 DEF WaitersInv, QueueInv, Distinct
<1>6. WaitxInv' /\ PhaseInv'
  BY <1>1, <1>2, <1>3 DEF WaitersInv, WaitxInv, PhaseInv
<1>7. ObjectsInv'
  BY <1>1, <1>2, ObjectsKept
<1> QED
  BY <1>1, <1>4, <1>5, <1>6, <1>7, RingKept, PartsAre DEF WaitersInv

LEMMA DrainIs ==
    ASSUME ChanInv, CloseDrain, Empty
    PROVE  /\ Serving({o \in Op : Queued(o) /\ state[o] # "wait"}, {o \in Op : Queued(o) /\ state[o] = "wait"}, 2)
           /\ SamePhases /\ \A o \in Op : ~Queued(o)'
<1> DEFINE L == {wq[i] : i \in Live}
           S == {wq[i] : i \in 1..Len(wq)} \ L
<1>1. \A o \in Op : /\ o \in L <=> Queued(o) /\ state[o] = "wait"
                    /\ o \in S <=> Queued(o) /\ state[o] # "wait"
  BY DEF Live, Queued
<1>2. /\ wq' = <<>>
      /\ state' = [o \in Op |-> IF o \in L THEN "ready" ELSE IF o \in S THEN "free" ELSE state[o]]
      /\ done' = [o \in Op |-> IF o \in L THEN 2 ELSE done[o]]
      /\ pc' = [a \in Actor |-> IF pc[a] = "cv" /\ \E o \in L : o[1] \in Thread THEN "woken" ELSE pc[a]]
  BY DEF CloseDrain
<1> HIDE DEF L, S
<1>3. \A o \in Op : Queued(o) /\ state[o] # "wait" => state[o] = "timeout"
  <2>1. \A o \in Op : Queued(o) => done[o] = 0
    BY DEF ChanInv, QueueInv
  <2> QED
    BY <2>1 DEF ChanInv, TypeOK, WaitxInv
<1>4. \A o \in Op : ~Queued(o)'
  BY <1>2 DEF Queued
<1>5. wq' \in Seq(Op) /\ Distinct(wq)'
  BY <1>2 DEF Distinct
<1>6. state' \in [Op -> {"free", "wait", "ready", "timeout"}] /\ done' \in [Op -> 0..2]
  BY <1>2 DEF ChanInv, TypeOK
<1>7. \A o \in Op : /\ state'[o] = IF Queued(o) THEN IF state[o] = "wait" THEN "ready" ELSE "free" ELSE state[o]
                    /\ done'[o] = IF Queued(o) /\ state[o] = "wait" THEN 2 ELSE done[o]
  BY <1>1, <1>2
<1>8. Serving({o \in Op : Queued(o) /\ state[o] # "wait"}, {o \in Op : Queued(o) /\ state[o] = "wait"}, 2)
  BY <1>3, <1>4, <1>5, <1>6, <1>7 DEF Serving
<1>9. SamePhases
  <2>1. \A b \in Actor : pc[b] = "cv" => b \in Thread
    BY DEF ChanInv, PhaseInv, Actor
  <2> QED
    BY <1>2, <2>1 DEF SamePhases, ChanInv, TypeOK
<1> QED
  BY <1>4, <1>8, <1>9

LEMMA CloseDrainKeeps == ASSUME ChanInv, CloseDrain PROVE ChanInv'
<1>1. /\ closed' = 2 /\ UNCHANGED <<rx, wx, full, slot, hbuf, doing, ops, got, told, accepted, delivered>>
  BY DEF CloseDrain, KeptByClose, ring
<1>2. PICK P, F : /\ Serving(P, F, 2) /\ SamePhases
                  /\ \A o \in Op : o \in P \/ o \in F => doing[o] = "read"
                  /\ \A o \in Op : Queued(o)' => doing[o] # "read"
  <2>1. CASE Empty
    <3>1. \A o \in Op : Queued(o) => doing[o] = "read"
      BY <2>1 DEF ChanInv, QueueInv, Empty
    <3> QED
      BY <2>1, <3>1, DrainIs
  <2>2. CASE ~Empty
    <3>1. UNCHANGED <<wq, state, done, pc>>
      BY <2>2 DEF CloseDrain
    <3>2. \A o \in Op : Queued(o)' => doing[o] # "read"
      BY <2>2, <3>1 DEF ChanInv, QueueInv, Queued
    <3>3. Serving({}, {}, 2)
      BY <3>1 DEF Serving, ChanInv, TypeOK, QueueInv, Distinct, Queued
    <3>4. SamePhases
      BY <3>1 DEF SamePhases, ChanInv, TypeOK
    <3> QED
      BY <3>2, <3>3, <3>4
  <2> QED
    BY <2>1, <2>2
<1>3. WaitersInv /\ (Empty' <=> Empty)
  BY <1>1, WaitersAre DEF Empty
<1>4. \A b \in Actor : (pc'[b] = "idle" <=> pc[b] = "idle") /\ (pc'[b] = "timedout" <=> pc[b] = "timedout")
  BY <1>2 DEF SamePhases
<1>5. \A o \in Op : (Pending(o)' <=> Pending(o)) /\ (Waits(o)' <=> Waits(o)) /\ (Future(o)' <=> Future(o))
  BY <1>1, <1>4, OpIs DEF Pending, Future
<1>6. /\ \A o \in P : o \in Op /\ Queued(o) /\ state[o] = "timeout"
      /\ \A o \in F : o \in Op /\ Queued(o) /\ state[o] = "wait" /\ done[o] = 0 /\ Waits(o) /\ told[o] = "none" /\ o \notin P
  <2>1. /\ \A o \in P : o \in Op /\ Queued(o) /\ state[o] = "timeout"
        /\ \A o \in F : o \in Op /\ Queued(o) /\ state[o] = "wait" /\ done[o] = 0 /\ Waits(o) /\ o \notin P
    BY <1>2, <1>3 DEF Serving, WaitersInv, WaitxInv, QueueInv
  <2>2. \A o \in Op : Waits(o) => Pending(o)
    BY OpIs DEF Pending
  <2> QED
    BY <1>3, <2>1, <2>2 DEF WaitersInv, PhaseInv
<1>7. WaitersType'
  BY <1>1, <1>2, <1>3 DEF WaitersType, WaitersInv, Serving, SamePhases
<1>8. QueueInv'
  <2>1. \A o \in Op : Queued(o)' => Queued(o) /\ done'[o] = done[o] /\ doing[o] # "read"
    BY <1>2 DEF Serving
  <2> QED
    BY <1>1, <1>2, <1>3, <2>1 DEF Serving, QueueInv, WaitersInv
<1>9. WaitxInv'
  <2> SUFFICES ASSUME NEW o \in Op
               PROVE  /\ state'[o] = "wait" => Waits(o) /\ (Timed => done'[o] = 0)
                      /\ state'[o] = "ready" => Waits(o) /\ done'[o] # 0
                      /\ state'[o] = "timeout" => Queued(o)' /\ ~Waits(o)
                      /\ state'[o] = "free" => ~Queued(o)' /\ ~Waits(o)
                      /\ Waits(o) /\ done'[o] = 0 => state'[o] = "wait" /\ Queued(o)'
    BY <1>5 DEF WaitxInv
  <2>1. /\ Queued(o)' <=> Queued(o) /\ o \notin P /\ o \notin F
        /\ done'[o] = IF o \in F THEN 2 ELSE done[o]
        /\ o \in P => state'[o] = "free"
        /\ o \in F => state'[o] = "ready" \/ (~Timed /\ state'[o] = "wait")
        /\ o \notin P /\ o \notin F => state'[o] = state[o]
    BY <1>2, <1>6 DEF Serving
  <2>2. /\ state[o] = "wait" => Waits(o) /\ (Timed => done[o] = 0)
        /\ state[o] = "ready" => Waits(o) /\ done[o] # 0
        /\ state[o] = "timeout" => Queued(o) /\ ~Waits(o)
        /\ state[o] = "free" => ~Queued(o) /\ ~Waits(o)
        /\ Waits(o) /\ done[o] = 0 => state[o] = "wait" /\ Queued(o)
    BY <1>3 DEF WaitersInv, WaitxInv
  <2> QED
    BY <1>6, <2>1, <2>2
<1>10. PhaseInv'
  <2>1. \A b \in Actor : /\ pc'[b] # "idle" => ops'[b] # 0
                         /\ b \in Co => pc'[b] \in {"idle", "suspended", "timedout"}
                         /\ b \in Thread => pc'[b] \in ThreadPhases
    BY <1>1, <1>2, <1>3 DEF WaitersInv, PhaseInv, SamePhases, ThreadPhases
  <2>2. \A o \in Op : done'[o] = IF o \in F THEN 2 ELSE done[o]
    BY <1>2 DEF Serving
  <2>3. ASSUME NEW o \in Op
        PROVE  /\ doing[o] = "none" <=> Future(o)
               /\ told[o] = "none" <=> Future(o) \/ Pending(o)
               /\ told[o] = "none" /\ ~Waits(o) => done'[o] = 0
               /\ told[o] = "enod" => done'[o] # 1
               /\ done'[o] = 2 => doing[o] = "read"
    BY <1>2, <1>3, <1>6, <2>2 DEF WaitersInv, PhaseInv
  <2> QED
    BY <1>1, <1>5, <2>1, <2>3 DEF PhaseInv
<1>11. \A o \in Op : (Served(o)' <=> Served(o)) /\ (doing[o] # "read" => (Queued(o)' <=> Queued(o)))
  BY <1>1, <1>2, <1>6 DEF Served, Serving
<1>12. ObjectsInv'
  BY <1>1, <1>11, ObjectsKept
<1> QED
  BY <1>1, <1>7, <1>8, <1>9, <1>10, <1>12, RingKept, PartsAre DEF WaitersInv

-----------------------------------------------------------------------------
LEMMA ChanInvInit == Init => ChanInv
<1> SUFFICES ASSUME Init PROVE ChanInv
  OBVIOUS
<1>1. TypeOK
  <2>1. rx \in 0..Cap-1 /\ wx \in 0..Cap-1 /\ full \in BOOLEAN /\ ops \in [Actor -> 0..MaxOps] /\ closed \in 0..2
    <3>1. 0 \in 0..Cap-1 /\ 0 \in 0..MaxOps /\ 0 \in 0..2
      BY ChanAssumption
    <3> QED
      BY <3>1 DEF Init
  <2>2. /\ slot \in [0..Cap-1 -> Op \cup {Raw}] /\ wq \in Seq(Op)
        /\ hbuf \in [Op -> Op \cup {Raw}] /\ got \in [Op -> Op \cup {Raw}]
        /\ accepted \in Seq(Op) /\ delivered \in Seq(Op)
    BY DEF Init
  <2>3. /\ state \in [Op -> {"free", "wait", "ready", "timeout"}] /\ done \in [Op -> 0..2]
        /\ pc \in [Actor -> {"idle", "suspended", "timedout", "cv", "woken", "expired"}]
        /\ doing \in [Op -> {"none", "read", "write"}] /\ told \in [Op -> {"none", "done", "enod"}]
    BY DEF Init
  <2> QED
    BY <2>1, <2>2, <2>3 DEF TypeOK
<1>2. Count = 0 /\ Contents = <<>> /\ PlacesInv
  <2>1. Size(0, 0, FALSE) = 0 /\ Row(slot, 0, 0) = <<>>
    <3>1. (0 + Cap - 0) % Cap = IF 0 < 0 THEN 0 + Cap - 0 ELSE 0 - 0
      <4>1. 0 \in 0..Cap-1
        BY ChanAssumption
      <4> QED
        BY <4>1, OffsetIs
    <3> QED
      BY <3>1 DEF Row, Size
  <2>2. Used(slot, 0, 0)
    <3> SUFFICES ASSUME NEW k \in 0..Cap-1 PROVE slot[k] # Raw <=> (k + Cap - 0) % Cap < 0
      BY DEF Used
    <3>1. 0 \in 0..Cap-1
      BY ChanAssumption
    <3>2. (k + Cap - 0) % Cap \in 0..Cap-1
      BY <3>1, OffsetIs
    <3> QED
      BY <3>2, ChanAssumption DEF Init
  <2> QED
    BY <2>1, <2>2, RingIs DEF Init
<1>3. \A o \in Op : ~Queued(o) /\ ~Waits(o) /\ ~Pending(o) /\ Future(o) /\ ~Entered(o) /\ ~Served(o)
  BY OpIs, ChanAssumption DEF Init, Queued, Pending, Future, Entered, Served
<1>4. QueueInv /\ WaitxInv /\ PhaseInv
  BY <1>3 DEF Init, QueueInv, WaitxInv, PhaseInv, Distinct, ThreadPhases
<1>5. WritersInv /\ ReadersInv
  BY <1>3 DEF Init, WritersInv, ReadersInv
<1>6. HoldersInv
  BY DEF Init, HoldersInv, Reads, Has
<1>7. OrderInv
  <2>1. <<>> \in Seq(Op)
    OBVIOUS
  <2>2. <<>> \o <<>> = <<>>
    BY <2>1, ConcatEmptySeq
  <2> QED
    BY <1>2, <2>2 DEF Init, OrderInv, Distinct
<1> QED
  BY <1>1, <1>2, <1>4, <1>5, <1>6, <1>7 DEF ChanInv

LEMMA ChanInvNext == ChanInv /\ [Next]_vars => ChanInv'
<1> SUFFICES ASSUME ChanInv, [Next]_vars PROVE ChanInv'
  OBVIOUS
<1>1. ASSUME NEW a \in Actor, Read(a) PROVE ChanInv'
  BY <1>1, ReadSomeKeeps, ReadFullKeeps, ReadAndAdmitKeeps, ClosedIsKept, WaitsIsKept DEF Read
<1>2. ASSUME NEW a \in Actor, Write(a) PROVE ChanInv'
  BY <1>2, ClosedIsKept, WriteSomeKeeps, WriteHandsOverKeeps, WaitsIsKept DEF Write
<1>3. ASSUME NEW c \in Co, ResumeCo(c) \/ Timeout(c) \/ ResumeTimedOut(c) PROVE ChanInv'
  BY <1>3, ResumeCoKeeps, TimeoutKeeps, ResumeTimedOutKeeps
<1>4. ASSUME NEW t \in Thread, Leave(t) PROVE ChanInv'
  <2>1. PICK p \in IF Timed THEN {"woken", "expired"} ELSE {"woken"} : pc' = [pc EXCEPT ![t] = p]
    BY <1>4 DEF Leave
  <2>2. p \in ThreadPhases \ {"idle"}
    BY DEF ThreadPhases
  <2>3. pc[t] = "cv" /\ UNCHANGED <<Kept, state, hbuf, got, told>>
    BY <1>4 DEF Leave
  <2> QED
    BY <2>1, <2>2, <2>3, LeaveKeeps
<1>5. ASSUME NEW t \in Thread, ThreadWoken(t) \/ ThreadExpired(t) PROVE ChanInv'
  BY <1>5, ThreadWokenKeeps, ThreadExpiredKeeps
<1>6. CASE UNCHANGED vars
  <2>1. UNCHANGED <<rx, wx, full, slot, closed, wq, state, done, hbuf, pc, doing, ops, got, told, accepted, delivered>>
    BY <1>6 DEF vars, ring
  <2>2. Count' = Count /\ Contents' = Contents /\ (Empty' <=> Empty)
    BY <2>1 DEF Count, Contents, Empty
  <2>3. \A o \in Op : /\ Queued(o)' <=> Queued(o)
                      /\ Waits(o)' <=> Waits(o)
                      /\ Pending(o)' <=> Pending(o)
                      /\ Future(o)' <=> Future(o)
                      /\ Served(o)' <=> Served(o)
    BY <2>1, OpIs DEF Queued, Pending, Future, Served
  <2>4. QueueInv' /\ WaitxInv' /\ PhaseInv'
    BY <2>1, <2>2, <2>3 DEF ChanInv, QueueInv, WaitxInv, PhaseInv, Distinct
  <2>5. WaitersInv'
    BY <2>1, <2>4, WaitersAre DEF WaitersInv, WaitersType
  <2>6. ObjectsInv'
    BY <2>1, <2>3, ObjectsKept
  <2> QED
    BY <2>1, <2>5, <2>6, RingKept, PartsAre
<1> QED
  BY <1>1, <1>2, <1>3, <1>4, <1>5, <1>6, CloseKeeps, CloseDrainKeeps DEF Next

-----------------------------------------------------------------------------
\* What the invariant means.  The blocks in use are as many as the ring
\* counts: they are the places of its contents.
LEMMA FifoHolds == ASSUME ChanInv PROVE Fifo
<1> DEFINE n == Size(rx, wx, full)
           U == {i \in 0..Cap-1 : slot[i] # Raw}
<1>1. /\ Used(slot, rx, n) /\ (full => rx = wx) /\ accepted = delivered \o Contents /\ Count = n
      /\ rx \in 0..Cap-1 /\ wx \in 0..Cap-1 /\ full \in BOOLEAN
  BY RingFacts, RingIs DEF RingInv, OrderInv
<1>2. n \in 0..Cap
  BY <1>1, SizeIs
<1> HIDE DEF n
<1> DEFINE place == [i \in 1..n |-> (rx + i - 1) % Cap]
<1>3. \A i \in 1..n : /\ place[i] = IF rx + i - 1 < Cap THEN rx + i - 1 ELSE rx + i - 1 - Cap
                      /\ place[i] \in 0..Cap-1
  <2> TAKE i \in 1..n
  <2>1. i \in 1..Cap
    BY <1>2, ChanAssumption
  <2> QED
    BY <1>1, <2>1, PlaceIs
<1> HIDE DEF place
<1>4. \A k \in 0..Cap-1 : /\ (k + Cap - rx) % Cap = IF k < rx THEN k + Cap - rx ELSE k - rx
                          /\ slot[k] # Raw <=> (k + Cap - rx) % Cap < n
  BY <1>1, OffsetIs DEF Used
<1>5. \A i \in 1..n : place[i] \in U
  <2> TAKE i \in 1..n
  <2>1. place[i] \in 0..Cap-1 /\ place[i] = IF rx + i - 1 < Cap THEN rx + i - 1 ELSE rx + i - 1 - Cap
    BY <1>3
  <2>2. (place[i] + Cap - rx) % Cap < n
    <3>1. PICK k \in 0..Cap-1 : k = place[i] /\ k = IF rx + i - 1 < Cap THEN rx + i - 1 ELSE rx + i - 1 - Cap
      BY <2>1
    <3>2. (k + Cap - rx) % Cap = IF k < rx THEN k + Cap - rx ELSE k - rx
      BY <1>4
    <3>3. (IF k < rx THEN k + Cap - rx ELSE k - rx) = i - 1
      <4>1. CASE rx + i - 1 < Cap
        BY <1>1, <1>2, <3>1, <4>1, ChanAssumption
      <4>2. CASE ~(rx + i - 1 < Cap)
        BY <1>1, <1>2, <3>1, <4>2, ChanAssumption
      <4> QED
        BY <4>1, <4>2
    <3>4. i - 1 < n
      BY <1>2, ChanAssumption
    <3> QED
      BY <3>1, <3>2, <3>3, <3>4
  <2> QED
    BY <1>4, <2>1, <2>2
<1>6. \A i, j \in 1..n : place[i] = place[j] => i = j
  BY <1>1, <1>2, <1>3, ChanAssumption
<1>7. \A k \in U : \E i \in 1..n : place[i] = k
  <2> TAKE k \in U
  <2>1. k \in 0..Cap-1 /\ (IF k < rx THEN k + Cap - rx ELSE k - rx) < n
    BY <1>4
  <2>2. PICK i \in 1..n : i = (IF k < rx THEN k + Cap - rx ELSE k - rx) + 1
    <3>1. PICK d : d = IF k < rx THEN k + Cap - rx ELSE k - rx
      OBVIOUS
    <3>2. d \in Nat /\ d < n
      BY <1>1, <2>1, <3>1, ChanAssumption
    <3>3. d + 1 \in 1..n
      BY <1>2, <3>2, ChanAssumption
    <3> QED
      BY <3>1, <3>3
  <2>3. place[i] = k
    BY <1>1, <1>3, <2>1, <2>2, ChanAssumption
  <2> QED
    BY <2>3
<1>8. place \in Bijection(1..n, U)
  <2>1. place \in [1..n -> U]
    BY <1>5 DEF place
  <2> HIDE DEF U
  <2> QED
    BY <1>6, <1>7, <2>1 DEF Bijection, Injection, Surjection, IsInjective
<1>9. IsFiniteSet(1..n) /\ Cardinality(1..n) = n
  <2>1. n \in Nat
    BY <1>2, ChanAssumption
  <2> QED
    BY <2>1, FS_Interval
<1>10. Cardinality(U) = n
  BY <1>8, <1>9, FS_Bijection DEF ExistsBijection
<1> QED
  BY <1>1, <1>10 DEF Fifo

LEMMA DoneVerdictHolds == ASSUME ChanInv PROVE DoneVerdict
<1>1. ASSUME NEW o \in Writes PROVE (told[o] = "done" => Entered(o)) /\ (told[o] = "enod" => ~Entered(o))
  BY DEF ChanInv, PhaseInv, WritersInv, Writes, Served
<1>2. ASSUME NEW o \in Reads
      PROVE  /\ told[o] = "done" => got[o] # Raw
             /\ told[o] = "enod" => got[o] = Raw /\ hbuf[o] = Raw
  BY DEF ChanInv, PhaseInv, ReadersInv, Reads, Served
<1>3. ASSUME NEW i \in 1..Len(delivered)
      PROVE  Cardinality({o \in Reads : got[o] = delivered[i] \/ hbuf[o] = delivered[i]}) = 1
  <2>1. delivered[i] \in Op /\ Has(delivered, delivered[i])
    BY DEF ChanInv, TypeOK, Has
  <2>2. PICK o \in Reads : Holds(o, delivered[i])
    BY <2>1 DEF ChanInv, HoldersInv
  <2>3. \A p \in Reads : Holds(p, delivered[i]) => p = o
    BY <2>1, <2>2 DEF ChanInv, HoldersInv
  <2>4. {p \in Reads : got[p] = delivered[i] \/ hbuf[p] = delivered[i]} = {o}
    BY <2>2, <2>3 DEF Holds
  <2>5. Cardinality({o}) = 1
    BY FS_Singleton
  <2> QED
    BY <2>4, <2>5
<1> QED
  BY <1>1, <1>2, <1>3 DEF DoneVerdict

LEMMA WaitersExactHolds == ASSUME ChanInv PROVE WaitersExact
<1>1. WaitersJustified
  BY DEF ChanInv, WaitxInv, QueueInv, WaitersJustified
<1>2. ASSUME NEW o \in Op PROVE (state[o] # "free" <=> Queued(o) \/ Waits(o)) /\ (state[o] = "free" => hbuf[o] = Raw)
  BY FreeIsRaw DEF ChanInv, WaitxInv, TypeOK
<1>3. \A i, j \in 1..Len(wq) : wq[i] = wq[j] => i = j
  BY DEF ChanInv, QueueInv, Distinct
<1> QED
  BY <1>1, <1>2, <1>3 DEF WaitersExact, WaitxOwned

\* Nobody writes to p of a coroutine that waits with p on its stack.
LEMMA StackUntouchedStep ==
    ASSUME ChanInv, [Next]_vars, NEW c \in OnStack, pc[c] = "suspended", pc'[c] = "suspended"
    PROVE  got'[Current(c)] = got[Current(c)]
<1>o. PICK o \in Op : o = Current(c) /\ o[1] = c
  BY OwnIs, ChanAssumption DEF Actor
<1>1. ASSUME NEW a \in Actor, NEW kind \in {"read", "write"}, Begin(a, kind),
             got' = [got EXCEPT ![Current(a)'] = slot[rx]]
      PROVE  got'[o] = got[o]
  <2>1. Current(a)' = New(a) /\ New(a)[1] = a /\ pc[a] = "idle"
    BY <1>1, BeginIs
  <2>2. o # New(a)
    BY <1>o, <2>1
  <2> QED
    BY <1>1, <2>1, <2>2 DEF ChanInv, TypeOK
<1>2. ASSUME NEW a \in Actor, Read(a) PROVE got'[o] = got[o]
  BY <1>1, <1>2 DEF Read, ReadSome, ReadFull, ReadAndAdmit, ReadClosed, ReadWaits, ReadBlock, Enlists
<1>3. ASSUME NEW a \in Actor, Write(a) PROVE got'[o] = got[o]
  <2>1. CASE WriteHandsOver(a)
    BY <1>o, <2>1 DEF WriteHandsOver, ChanInv, TypeOK
  <2>2. CASE ~WriteHandsOver(a)
    BY <1>3, <2>2 DEF Write, WriteClosed, WriteSome, WriteEmpty, WriteWaits, Enlists
  <2> QED
    BY <2>1, <2>2
<1>4. ASSUME NEW d \in Co, ResumeCo(d) PROVE got'[o] = got[o]
  <2>1. d # c
    BY <1>4 DEF ResumeCo, Answered, ChanInv, TypeOK, Actor
  <2>2. d \in Actor /\ Current(d)[1] = d
    BY DEF Current, Actor
  <2>3. o # Current(d)
    BY <1>o, <2>1, <2>2
  <2> QED
    BY <1>4, <2>3 DEF ResumeCo, ChanInv, TypeOK
<1>5. ASSUME \/ \E d \in Co : Timeout(d) \/ ResumeTimedOut(d)
             \/ \E t \in Thread : Leave(t) \/ ThreadWoken(t) \/ ThreadExpired(t)
             \/ Close \/ CloseDrain \/ UNCHANGED vars
      PROVE  got' = got
  BY <1>5 DEF Timeout, ResumeTimedOut, Leave, ThreadWoken, ThreadExpired, Close, CloseDrain, KeptByClose, vars
<1> QED
  BY <1>o, <1>2, <1>3, <1>4, <1>5 DEF Next

\* Every step keeps the invariant: whoever is queued waits or has timed out,
\* is served once, and the objects go where done() says they went.
THEOREM TheChannelIsSound == Spec => []ChanInv
<1> QED
  BY ChanInvInit, ChanInvNext, PTL DEF Spec

\* Objects leave the channel in the order in which they entered it, through
\* the buffer, past it to a reader that waits or by a writer that is let in;
\* and no block that is not in use holds an object.
THEOREM ObjectsGoInOrder == Spec => []Fifo
<1>1. ChanInv => Fifo
  BY FifoHolds
<1> QED
  BY <1>1, TheChannelIsSound, PTL

\* What done() says of a write is whether its object entered the channel, of
\* a read whether it has one, and each object that left is with one reader.
THEOREM DoneIsTrue == Spec => []DoneVerdict
<1>1. ChanInv => DoneVerdict
  BY DoneVerdictHolds
<1> QED
  BY <1>1, TheChannelIsSound, PTL

\* Who waits is queued once, with reason, and a waitx is allocated exactly
\* while somebody needs it.
THEOREM NobodyWaitsInVain == Spec => []WaitersExact
<1>1. ChanInv => WaitersExact
  BY WaitersExactHolds
<1> QED
  BY <1>1, TheChannelIsSound, PTL

\* No write touches the stack of a coroutine that is suspended.
THEOREM StacksAreLeftAlone == Spec => StacksUntouched
<1>1. ChanInv /\ [Next]_vars =>
        [\A c \in OnStack : pc[c] = "suspended" /\ pc'[c] = "suspended" =>
            got'[Current(c)] = got[Current(c)]]_vars
  BY StackUntouchedStep
<1> QED
  BY <1>1, TheChannelIsSound, PTL DEF Spec, StacksUntouched
=============================================================================
