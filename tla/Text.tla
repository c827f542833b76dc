-------------------------------- MODULE Text --------------------------------
(***************************************************************************)
(* The string algorithms of fastring.cc, fastring.h and str.cc, and numbers *)
(* into text and back: the integers and the digits of dtoa_milo.h that     *)
(* fast::stream writes, the room it makes for them, and the integers with  *)
(* a unit that str.cc reads; each beside what it should compute.  A        *)
(* behaviour is one call: its arguments, then its result.  At the end, the *)
(* buffer of a string.                                                     *)
(*                                                                         *)
(* Characters are numbers, in the order memcmp() sees; those of a number   *)
(* are its digits and three more.  Positions begin with 1; where the code  *)
(* returns npos there is a 0.                                              *)
(***************************************************************************)
EXTENDS Integers, SequencesExt

CONSTANTS
    Char, Nul, Junk,  \* bytes of a buffer: of the texts, 0, and of no meaning
    MaxText,       \* bound: the length of a text in a buffer
    Star, One,     \* the characters * and ? of a pattern
    TextLiberties  \* what the algorithms do not stand: "stars", to have two *
                   \* in a row in a pattern; "half", to read an unsigned number
                   \* with a unit, or of 32 bits, from the upper half of 64
                   \* bits; "bare", to read a unit without a number; "places",
                   \* to write with dp::_n

VARIABLES
    bytes,  \* _p: _cap bytes
    len,    \* _size
    text,   \* history: what the buffer should hold
    ask,    \* the call
    answer  \* its result, <<>> before it

textVars == <<ask, answer>>

-----------------------------------------------------------------------------
(***************************************************************************)
(* The C library's: does sub occur in s at i, and where first, from i on.  *)
(***************************************************************************)
OccursAt(s, sub, i) == i + Len(sub) <= Len(s) + 1 /\ SubSeq(s, i, i + Len(sub) - 1) = sub
Occurrences(s, sub, i) == {j \in i..Len(s) + 1 : OccursAt(s, sub, j)}
StrStr(s, sub, i) == LET O == Occurrences(s, sub, i) IN IF O = {} THEN 0 ELSE Min(O)

-----------------------------------------------------------------------------
(***************************************************************************)
(* trim, with the characters C or with a number of characters, on the left *)
(* ("l"), the right ("r") or both sides ("b").                             *)
(***************************************************************************)
RECURSIVE EndOf(_, _, _)
EndOf(s, C, e) == IF e > 0 /\ s[e] \in C THEN EndOf(s, C, e - 1) ELSE e

RECURSIVE BeginOf(_, _, _)
BeginOf(s, C, b) == IF b <= Len(s) /\ s[b] \in C THEN BeginOf(s, C, b + 1) ELSE b

Trim(s, C, d) ==
    LET right == IF d = "l" THEN s ELSE SubSeq(s, 1, EndOf(s, C, Len(s)))
    IN  IF d = "r" THEN right ELSE SubSeq(right, BeginOf(right, C, 1), Len(right))

\* A bug: both sides are cut as if they could not meet.
TrimCountMeets(s, n, d) ==
    IF d = "r" THEN IF n < Len(s) THEN SubSeq(s, 1, Len(s) - n) ELSE <<>>
    ELSE IF d = "l" THEN SubSeq(s, n + 1, Len(s))
    ELSE IF n < Len(s) THEN SubSeq(s \o s, n + 1, Len(s) + Len(s) - n - n) ELSE <<>>

TrimCount(s, n, d) ==
    LET left == IF d = "r" THEN 0 ELSE n
        cut == IF d = "b" THEN 2 * n ELSE n
    IN  IF cut < Len(s) THEN SubSeq(s, left + 1, left + Len(s) - cut) ELSE <<>>

RemovePrefix(s, x) == IF OccursAt(s, x, 1) THEN TrimCount(s, Len(x), "l") ELSE s
RemoveSuffix(s, x) ==
    IF Len(x) <= Len(s) /\ SubSeq(s, Len(s) - Len(x) + 1, Len(s)) = x
    THEN SubSeq(s, 1, Len(s) - Len(x)) ELSE s

-----------------------------------------------------------------------------
(***************************************************************************)
(* split and replace: max times at most, without limit when it is 0.       *)
(***************************************************************************)
RECURSIVE SplitFrom(_, _, _, _, _)
SplitFrom(s, sep, max, i, v) ==
    LET p == StrStr(s, sep, i)
        rest == IF i <= Len(s) THEN <<SubSeq(s, i, Len(s))>> ELSE <<>>
    IN  IF p = 0 \/ (max # 0 /\ Len(v) = max) THEN v \o rest
        ELSE SplitFrom(s, sep, max, p + Len(sep), Append(v, SubSeq(s, i, p - 1)))

Split(s, sep, max) == SplitFrom(s, sep, max, 1, <<>>)

\* A bug: what was put in is searched again.
RECURSIVE ReplaceFrom(_, _, _, _, _, _)
ReplaceFrom(s, sub, with, max, i, x) ==
    LET p == StrStr(s, sub, i)
        y == x \o SubSeq(s, i, p - 1) \o with
        next == p + Len(sub)
    IN  IF p = 0 THEN x \o SubSeq(s, i, Len(s))
        ELSE IF max = 1 THEN y \o SubSeq(s, next, Len(s))
        ELSE ReplaceFrom(s, sub, with, IF max = 0 THEN 0 ELSE max - 1, next, y)

-----------------------------------------------------------------------------
(***************************************************************************)
(* Searching from the end                                                  *)
(***************************************************************************)
\* find_last_of and find_last_not_of: the last of the characters C up to pos.
FindLastOf(s, C, pos) == EndOf(s, {s[i] : i \in DOMAIN s} \ C, IF pos >= Len(s) THEN Len(s) ELSE pos)
\* find_first_not_of
FindFirstNot(s, C, pos) ==
    LET i == BeginOf(s, C, pos) IN IF i <= Len(s) THEN i ELSE 0

\* substr, find and find_first_of: n characters at most, from pos on.
Substr(s, pos, n) == SubSeq(s, pos, IF n < Len(s) - pos + 1 THEN pos + n - 1 ELSE Len(s))
FindFirst(s, C, pos, n) ==
    LET end == BeginOf(s, {1, 2} \ C, pos)
    IN  IF end <= Len(s) /\ end < pos + n THEN end ELSE 0

\* Where a character is first in sub.
Table(sub, c) == LET I == {i \in DOMAIN sub : sub[i] = c} IN IF I = {} THEN 0 ELSE Min(I)

\* rfind(sub): after a mismatch at j, it goes back to where the character
\* before j is first in sub.
RECURSIVE RfindAt(_, _, _)
RfindAt(s, sub, j) ==
    LET first == Table(sub, s[j - 1])
        x == IF first = 0 THEN Len(sub) + 1 ELSE first
    IN  IF OccursAt(s, sub, j) THEN j
        ELSE IF j = 1 \/ j - 1 < x THEN 0
        ELSE RfindAt(s, sub, j - x)

Rfind(s, sub) ==
    IF Len(sub) = 1 THEN FindLastOf(s, {sub[1]}, Len(s))
    ELSE IF Len(s) < Len(sub) THEN 0
    ELSE RfindAt(s, sub, Len(s) - Len(sub) + 1)

-----------------------------------------------------------------------------
(***************************************************************************)
(* match, and the order of strings                                         *)
(***************************************************************************)
LastStar(p, j) == j = Len(p) /\ p[j] = Star

RECURSIVE MatchAt(_, _, _, _), MatchLoop(_, _, _, _)
MatchAt(s, p, i, j) == LastStar(p, j) \/ MatchLoop(s, p, i, j)
MatchLoop(s, p, i, j) ==
    IF j > Len(p) \/ i > Len(s) THEN LastStar(p, j) \/ (j > Len(p) /\ i > Len(s))
    ELSE IF p[j] = Star THEN MatchAt(s, p, i, j + 1) \/ MatchAt(s, p, i + 1, j)
    ELSE p[j] \in {One, s[i]} /\ MatchLoop(s, p, i + 1, j + 1)

\* memcmp of the first n characters: less, equal or greater.
MemCmp(a, b, n) ==
    LET D == {i \in 1..n : a[i] # b[i]}
    IN  IF D = {} THEN "=" ELSE IF a[Min(D)] < b[Min(D)] THEN "<" ELSE ">"

Less(a, b) ==
    IF Len(a) < Len(b) THEN MemCmp(a, b, Len(a)) \in {"<", "="} ELSE MemCmp(a, b, Len(b)) = "<"
Greater(a, b) ==
    IF Len(a) > Len(b) THEN MemCmp(a, b, Len(b)) \in {">", "="} ELSE MemCmp(a, b, Len(a)) = ">"

-----------------------------------------------------------------------------
(***************************************************************************)
(* What each call should compute.                                          *)
(***************************************************************************)
\* Where sub is split off or replaced: what occurs first counts, and what
\* overlaps it does not.
Taken(s, sub, max) ==
    LET t[i \in 1..Len(s)] ==
            LET before == {j \in 1..i - 1 : t[j]}
            IN  /\ OccursAt(s, sub, i)
                /\ \A j \in before : j + Len(sub) <= i
                /\ max # 0 => Cardinality(before) < max
    IN  {i \in 1..Len(s) : t[i]}

Replaced(s, sub, with, max) ==
    LET T == Taken(s, sub, max)
    IN  FlattenSeq([i \in 1..Len(s) |->
            IF i \in T THEN with
            ELSE IF \E j \in T : j < i /\ i < j + Len(sub) THEN <<>> ELSE <<s[i]>>])

\* The pieces between what was split off; an empty one at the end is left out.
IsSplit(s, sep, max, v) ==
    LET marked == Replaced(s, sep, <<0>>, max)
        joined == FlattenSeq([i \in DOMAIN v |-> IF i < Len(v) THEN Append(v[i], 0) ELSE v[i]])
    IN  marked = IF marked # <<>> /\ Last(marked) = 0 THEN Append(joined, 0) ELSE joined

IsTrimmed(s, C, d, r) ==
    \E i \in 1..Len(s) + 1, j \in 0..Len(s) :
        /\ r = SubSeq(s, i, j)
        /\ \A k \in DOMAIN s : k < i \/ k > j => s[k] \in C
        /\ d = "l" => j = Len(s)
        /\ d = "r" => i = 1
        /\ r # <<>> /\ d # "r" => Head(r) \notin C
        /\ r # <<>> /\ d # "l" => Last(r) \notin C

\* The pattern's characters stand for parts of s that follow each other.
Matches(s, p) ==
    \E cut \in [0..Len(p) -> 0..Len(s)] :
        /\ cut[0] = 0 /\ cut[Len(p)] = Len(s)
        /\ \A j \in DOMAIN p :
              IF p[j] = Star THEN cut[j] >= cut[j - 1]
              ELSE cut[j] = cut[j - 1] + 1 /\ p[j] \in {One, s[cut[j]]}

\* a comes before b in a dictionary.
Precedes(a, b) ==
    \/ IsStrictPrefix(a, b)
    \/ \E i \in DOMAIN a \cap DOMAIN b :
          a[i] < b[i] /\ SubSeq(a, 1, i - 1) = SubSeq(b, 1, i - 1)

Greatest(S) == IF S = {} THEN 0 ELSE Max(S)

-----------------------------------------------------------------------------
(***************************************************************************)
(* The characters of a number that are not digits                          *)
(***************************************************************************)
Dot == 20
Exponent == 21
Minus == 22
Zeros(n) == [i \in 1..n |-> 0]

-----------------------------------------------------------------------------
(***************************************************************************)
(* Integers, in groups of w digits of base b                               *)
(***************************************************************************)
RECURSIVE Groups(_, _)
Groups(v, size) == IF v < size THEN <<v>> ELSE Append(Groups(v \div size, size), v % size)

\* An entry of the table: the digits of a group with the zeros in front.
Padded(v, b, w) == [i \in 1..w |-> (v \div b^(w - i)) % b]
\* Its first character counts the digits.
Count(v, b, w) == Max({1} \cup {i \in 1..w : v >= b^(i - 1)})

\* A bug: the zeros in front are left out of every group.
UtoaEachCounted(v, w) ==
    LET g == Groups(v, 10^w)
    IN  FlattenSeq([i \in DOMAIN g |->
            SubSeq(Padded(g[i], 10, w), w + 1 - Count(g[i], 10, w), w)])

\* u32toa and u64toa: only the first group is without them.
Utoa(v, w) ==
    LET g == Groups(v, 10^w)
        all == FlattenSeq([i \in DOMAIN g |-> Padded(g[i], 10, w)])
    IN  SubSeq(all, w + 1 - Count(g[1], 10, w), Len(all))

\* i32toa and i64toa, of an integer of n bits.
Itoa(v, w, n) == IF v >= 0 THEN Utoa(v, w) ELSE <<Minus>> \o Utoa((0 - v) % 2^n, w)

\* u32toh, without the 0x: bytes, and of the first one both digits or one.
Utoh(v) ==
    LET g == Groups(v, 256)
        all == FlattenSeq([i \in DOMAIN g |-> Padded(g[i], 16, 2)])
    IN  IF all[1] = 0 THEN Tail(all) ELSE all

-----------------------------------------------------------------------------
(***************************************************************************)
(* dtoa: the digits ds that Grisu2 found, times 10^k, with at most mdp     *)
(* decimal places.                                                         *)
(***************************************************************************)
\* The zeros at the end go, but one digit stays.
RECURSIVE Chopped(_)
Chopped(ds) == IF Len(ds) > 1 /\ Last(ds) = 0 THEN Chopped(Front(ds)) ELSE ds
Places(ds, mdp) == IF Len(ds) > mdp THEN Chopped(SubSeq(ds, 1, mdp)) ELSE ds

WriteExponent(e) == IF e < 0 THEN <<Minus>> \o Utoa(0 - e, 4) ELSE Utoa(e, 4)

\* A bug: numbers far below one are written so that no digit is left.
SmallAny(kk, k, mdp) == -3 < kk /\ kk <= 0

\* 0.00d
Small(kk, k, mdp) == kk = 0 \/ (-3 < kk /\ kk < 0 /\ 0 - mdp <= k)

\* The text, and up to where the buffer is written on the way.
Prettify(ds, k, mdp) ==
    LET kk == Len(ds) + k
        mantissa == IF Len(ds) = 1 THEN ds
                    ELSE <<ds[1], Dot>> \o Chopped(SubSeq(ds, 2, IF mdp < Len(ds) - 1 THEN mdp + 1 ELSE Len(ds)))
        scientific == mantissa \o <<Exponent>> \o WriteExponent(kk - 1)
    IN  IF 0 <= k /\ kk <= 21 THEN [text |-> ds \o Zeros(k) \o <<Dot, 0>>, top |-> kk + 2]
        ELSE IF 0 < kk /\ kk <= 21
        THEN [text |-> SubSeq(ds, 1, kk) \o <<Dot>> \o Places(SubSeq(ds, kk + 1, Len(ds)), mdp),
              top |-> Len(ds) + 1]
        ELSE IF Small(kk, k, mdp)
        THEN [text |-> <<0, Dot>> \o Places(Zeros(0 - kk) \o ds, mdp), top |-> Len(ds) + 2 - kk]
        ELSE [text |-> scientific, top |-> Max({Len(ds), Len(scientific) + 1})]

Dtoa(neg, ds, k, mdp) ==
    LET p == Prettify(ds, k, mdp)
    IN  IF neg THEN [text |-> <<Minus>> \o p.text, top |-> p.top + 1] ELSE p

\* What operator<< makes room for: by the size of an integer in bytes, for a
\* double, and for one with mdp decimal places.
RoomOfInt(size) == size * 3
RoomOfDouble == 24
RoomOfPlaces(mdp) == mdp + 8

-----------------------------------------------------------------------------
(***************************************************************************)
(* Text into integers of 64 bits, here 8, and of half of                   *)
(* them.  A unit k, m, g, t or p shifts by 10 bits per step; here by one.  *)
(* The text is a sign, a number or none (-1), and a unit or none (0).      *)
(***************************************************************************)
Bits == 8
Half == 4
ERANGE == [x |-> 0, err |-> "ERANGE"]
EINVAL == [x |-> 0, err |-> "EINVAL"]
Ok(x) == [x |-> x, err |-> "ok"]

Signed(x, n) == IF x < 2^(n - 1) THEN x ELSE x - 2^n
Abs(x) == IF x < 0 THEN 0 - x ELSE x

\* strtoll and strtoull
Strtoll(t) ==
    LET v == IF t.neg THEN 0 - t.mag ELSE t.mag
    IN  IF t.mag = -1 THEN Ok(0) ELSE IF -(2^(Bits - 1)) <= v /\ v < 2^(Bits - 1) THEN Ok(v) ELSE ERANGE
Strtoull(t) ==
    IF t.mag = -1 THEN Ok(0) ELSE IF t.mag >= 2^Bits THEN ERANGE
    ELSE Ok(IF t.neg THEN (0 - t.mag) % 2^Bits ELSE t.mag)

\* A bug: what is left of the shift is compared, not of the bound.
ToInt64AfterShift(t) ==
    LET r == Strtoll(t)
        y == Signed((r.x * 2^t.unit) % 2^Bits, Bits)
    IN  IF r.err # "ok" THEN r ELSE IF -(2^(Bits - 1)) <= y /\ y < 2^(Bits - 1) THEN Ok(y) ELSE ERANGE

ToInt64(t) ==
    LET r == Strtoll(t)
    IN  IF r.err # "ok" \/ t.unit = 0 \/ r.x = 0 THEN r
        ELSE IF r.x < -(2^(Bits - 1 - t.unit)) \/ r.x > (2^(Bits - 1) - 1) \div 2^t.unit THEN ERANGE
        ELSE Ok(r.x * 2^t.unit)

ToUint64(t) ==
    LET r == Strtoull(t)
    IN  IF r.err # "ok" \/ t.unit = 0 \/ r.x = 0 THEN r
        ELSE IF Abs(Signed(r.x, Bits)) > (2^Bits - 1) \div 2^t.unit THEN ERANGE
        ELSE Ok((r.x * 2^t.unit) % 2^Bits)

ToInt32(t) ==
    LET r == ToInt64(t)
    IN  IF r.x < -(2^(Half - 1)) \/ r.x >= 2^(Half - 1) THEN ERANGE ELSE r
ToUint32(t) ==
    LET r == ToUint64(t)
    IN  IF Abs(Signed(r.x, Bits)) >= 2^Half THEN ERANGE ELSE [r EXCEPT !.x = @ % 2^Half]

-----------------------------------------------------------------------------
(***************************************************************************)
(* What the numbers should be                                              *)
(***************************************************************************)
\* The number that digits of base b spell, without zeros in front.
Spells(ds, b, v) ==
    /\ v = FoldLeft(LAMBDA x, d : x * b + d, 0, ds)
    /\ Len(ds) > 1 => ds[1] # 0

\* The digit for 10^p of ds times 10^k.
DigitOf(ds, k, p) == LET i == Len(ds) + k - p IN IF i \in DOMAIN ds THEN ds[i] ELSE 0

PositionOf(t, ch) == IF Contains(t, ch) THEN Min({i \in DOMAIN t : t[i] = ch}) ELSE Len(t) + 1

Natural(ds) == FoldLeft(LAMBDA x, d : x * 10 + d, 0, ds)

\* The digits and the power of ten that a text stands for.
Reading(t) ==
    LET mantissa == SubSeq(t, 1, PositionOf(t, Exponent) - 1)
        e == SubSeq(t, Len(mantissa) + 2, Len(t))
        power == IF e # <<>> /\ e[1] = Minus THEN 0 - Natural(Tail(e)) ELSE Natural(e)
        dot == PositionOf(mantissa, Dot)
    IN  IF dot > Len(mantissa) THEN [ds |-> mantissa, k |-> power]
        ELSE [ds |-> SubSeq(mantissa, 1, dot - 1) \o SubSeq(mantissa, dot + 1, Len(mantissa)),
              k |-> power - (Len(mantissa) - dot)]

\* The digits of the number, from the first one to the last decimal place that
\* was asked for, and no other.
Shows(t, ds, k, mdp) ==
    LET first == Len(ds) + k - 1
        last == IF Contains(t, Exponent) THEN first - mdp ELSE 0 - mdp
        read == Reading(t)
    IN  /\ last <= first
        /\ \A p \in first - 18..first + 3 :
              DigitOf(read.ds, read.k, p) = IF p >= last THEN DigitOf(ds, k, p) ELSE 0

Exact(t) == (IF t.neg THEN 0 - t.mag ELSE t.mag) * 2^t.unit

\* As an unsigned number, a negative one stands for its complement.
ReadsAs(t, r) ==
    LET v == Exact(t)
        fits == IF t.signed THEN -(2^(t.bits - 1)) <= v /\ v < 2^(t.bits - 1)
                ELSE Abs(v) < 2^t.bits
    IN  IF t.mag = -1 THEN r = EINVAL
        ELSE r = IF fits THEN Ok(IF t.signed THEN v ELSE v % 2^t.bits) ELSE ERANGE

-----------------------------------------------------------------------------
(***************************************************************************)
(* The calls                                                               *)
(***************************************************************************)
Strings(n) == UNION {[1..k -> {1, 2}] : k \in 0..n}
Patterns(n) ==
    {p \in UNION {[1..k -> {1, Star, One}] : k \in 0..n} :
        \A i \in 1..Len(p) - 1 : p[i] = Star /\ p[i + 1] = Star => "stars" \in TextLiberties}
Side == {"l", "r", "b"}

TextInit == ask = [op |-> "none"] /\ answer = <<>>

Asked(call, result) == ask' = call /\ answer' = <<result>>

Cuts ==
    \E s \in Strings(4), d \in Side :
        \/ \E C \in SUBSET {1, 2} : Asked([op |-> "trim", s |-> s, C |-> C, d |-> d], Trim(s, C, d))
        \/ \E n \in 0..3 : Asked([op |-> "cut", s |-> s, n |-> n, d |-> d], TrimCount(s, n, d))

Affixes ==
    \E s \in Strings(3), x \in Strings(2) :
        \/ Asked([op |-> "prefix", s |-> s, x |-> x], RemovePrefix(s, x))
        \/ Asked([op |-> "suffix", s |-> s, x |-> x], RemoveSuffix(s, x))
        \/ Asked([op |-> "less", s |-> s, x |-> x], Less(s, x))
        \/ Asked([op |-> "greater", s |-> x, x |-> s], Greater(x, s))

\* An empty separator is for ever found where the search begins.
Replacements ==
    \E s \in Strings(5), sub \in Strings(2) \ {<<>>}, max \in 0..2 :
        \/ Asked([op |-> "split", s |-> s, x |-> sub, max |-> max], Split(s, sub, max))
        \/ \E with \in Strings(1) :
              Asked([op |-> "replace", s |-> s, x |-> sub, with |-> with, max |-> max],
                    ReplaceFrom(s, sub, with, max, 1, <<>>))

Searches ==
    \E s \in Strings(5) :
        \/ \E x \in Strings(3) : Asked([op |-> "rfind", s |-> s, x |-> x], Rfind(s, x))
        \/ \E C \in SUBSET {1, 2}, i \in 1..6 :
              \/ Asked([op |-> "last", s |-> s, C |-> C, i |-> i], FindLastOf(s, C, i))
              \/ Asked([op |-> "not", s |-> s, C |-> C, i |-> i], FindFirstNot(s, C, i))
              \/ \E n \in {0, 2, 6} :
                    \/ Asked([op |-> "first", s |-> s, C |-> C, i |-> i, n |-> n], FindFirst(s, C, i, n))
                    \/ C = {} /\ Asked([op |-> "sub", s |-> s, i |-> i, n |-> n], Substr(s, i, n))

Match ==
    \E s \in Strings(3), p \in Patterns(4) :
        Asked([op |-> "match", s |-> s, x |-> p], MatchAt(s, p, 1, 1))

\* Around every change of the number of digits or groups.  Groups of one digit
\* stand for the five words of 64 bits.
Integers32 == {0, 2147483647} \cup UNION {{10^i - 1, 10^i, 16^i} : i \in 0..7} \cup
              {100000001, 999999999, 1000000000}

WriteInteger ==
    \/ \E v \in Integers32 : \/ Asked([op |-> "utoa", v |-> v, bytes |-> 4], Utoa(v, 4))
                             \/ Asked([op |-> "utoh", v |-> v, bytes |-> 4], Utoh(v))
    \/ \E v \in {5, 10, 99, 101, 1000, 9999, 10001, 99999} :
          Asked([op |-> "utoa", v |-> v, bytes |-> 8], Utoa(v, 1))
    \/ \E v \in {-32768, -32767, -10000, -9999, -1, 0, 1, 32767} :
          Asked([op |-> "itoa", v |-> v, bytes |-> 2], Itoa(v, 4, 16))

Figures == {<<d>> \o s : d \in {1, 9}, s \in UNION {[1..n -> {0, 5}] : n \in 0..3}}

WriteDouble ==
    \/ \E ds \in Figures, k \in -9..4, mdp \in {1, 2, 3, 6} :
          Asked([op |-> "dtoa", ds |-> ds, k |-> k, mdp |-> mdp, neg |-> FALSE, room |-> RoomOfDouble],
                Dtoa(FALSE, ds, k, mdp))
    \/ \E n \in 1..17, k \in -25..25 \cup {-324, -100, 100, 292}, mdp \in {2, 6} :
          /\ mdp = 6 \/ "places" \in TextLiberties
          /\ Asked([op |-> "dtoa", ds |-> [i \in 1..n |-> 1], k |-> k, mdp |-> mdp, neg |-> TRUE,
                    room |-> IF mdp = 6 THEN RoomOfDouble ELSE RoomOfPlaces(mdp)],
                   Dtoa(TRUE, [i \in 1..n |-> 1], k, mdp))

Units == 0..5

Read ==
    \E neg \in BOOLEAN, mag \in -1..2^Bits, unit \in Units :
        LET t == [op |-> "read", neg |-> neg, mag |-> mag, unit |-> unit]
            upper == mag >= 2^(Bits - 1)
        IN  /\ mag = -1 => ~neg /\ unit # 0 /\ "bare" \in TextLiberties
            /\ \/ Asked(t @@ [bits |-> Bits, signed |-> TRUE], ToInt64(t))
               \/ Asked(t @@ [bits |-> Half, signed |-> TRUE], ToInt32(t))
               \/ /\ upper /\ unit # 0 => "half" \in TextLiberties
                  /\ Asked(t @@ [bits |-> Bits, signed |-> FALSE], ToUint64(t))
               \/ /\ mag * 2^unit >= 2^(Bits - 1) => "half" \in TextLiberties
                  /\ Asked(t @@ [bits |-> Half, signed |-> FALSE], ToUint32(t))

TextNext ==
    /\ ask.op = "none"
    /\ Cuts \/ Affixes \/ Replacements \/ Searches \/ Match \/ WriteInteger \/ WriteDouble \/ Read

\* Every call computes what it should: a number is written as what it is, in
\* the room made for it, and read as what the text says, or refused.
Promised(a, r) ==
    CASE a.op = "trim" -> IsTrimmed(a.s, a.C, a.d, r)
      [] a.op = "cut" -> r = SubSeq(a.s, IF a.d = "r" THEN 1 ELSE a.n + 1,
                                    IF a.d = "l" THEN Len(a.s)
                                    ELSE IF a.n > Len(a.s) THEN 0 ELSE Len(a.s) - a.n)
      [] a.op = "prefix" -> a.s = IF IsPrefix(a.x, a.s) THEN a.x \o r ELSE r
      [] a.op = "suffix" -> a.s = IF IsSuffix(a.x, a.s) THEN r \o a.x ELSE r
      [] a.op = "less" -> r = Precedes(a.s, a.x)
      [] a.op = "greater" -> r = Precedes(a.x, a.s)
      [] a.op = "split" -> IsSplit(a.s, a.x, a.max, r)
      [] a.op = "replace" -> r = Replaced(a.s, a.x, a.with, a.max)
      [] a.op = "rfind" -> r = Greatest(Occurrences(a.s, a.x, 1))
      [] a.op = "last" -> r = Greatest({i \in DOMAIN a.s : i <= a.i /\ a.s[i] \in a.C})
      [] a.op = "first" ->
            LET I == {j \in DOMAIN a.s : j >= a.i /\ j < a.i + a.n /\ a.s[j] \in a.C}
            IN  r = IF I = {} THEN 0 ELSE Min(I)
      [] a.op = "sub" -> /\ Len(r) <= a.n
                         /\ IsPrefix(r, SubSeq(a.s, a.i, Len(a.s)))
                         /\ Len(r) < a.n => a.i + Len(r) > Len(a.s)
      [] a.op = "not" -> /\ r # 0 => r >= a.i /\ a.s[r] \notin a.C
                         /\ \A i \in DOMAIN a.s : i >= a.i /\ (r = 0 \/ i < r) => a.s[i] \in a.C
      [] a.op = "match" -> r = Matches(a.s, a.x)
      [] a.op = "utoa" -> Spells(r, 10, a.v) /\ Len(r) <= RoomOfInt(a.bytes)
      [] a.op = "utoh" -> Spells(r, 16, a.v) /\ Len(r) + 2 <= RoomOfInt(a.bytes)
      [] a.op = "itoa" ->
            /\ (a.v < 0) = (r[1] = Minus)
            /\ Spells(IF a.v < 0 THEN Tail(r) ELSE r, 10, Abs(a.v))
            /\ Len(r) <= RoomOfInt(a.bytes)
      [] a.op = "dtoa" ->
            /\ Shows(IF a.neg THEN Tail(r.text) ELSE r.text, a.ds, a.k, a.mdp)
            /\ r.top <= a.room
      [] a.op = "read" -> ReadsAs(a, r)

TextAsPromised == answer # <<>> => Promised(ask, answer[1])

-----------------------------------------------------------------------------
(***************************************************************************)
(* The buffer of a fastring or fastream (fast::stream in fast.h, with what *)
(* fastring.h builds on it): bytes that move when the buffer grows, while  *)
(* the argument of a call may point into it.  Bytes nobody has written,    *)
(* and memory that was given back, read as Junk.                           *)
(***************************************************************************)
bufferVars == <<bytes, len, text>>

BufferInit == bytes = <<>> /\ len = 0 /\ text = <<>>

Size == Len(bytes)

\* mem::realloc to n bytes, all of which may be elsewhere.
Moved(n) == bytes \o [i \in 1..n - Size |-> Junk]

\* reserve(n) and ensure(n)
Reserved(n) == IF Size < n THEN Moved(n) ELSE bytes
Ensured(n) == IF Size < len + n THEN Moved(Size + Size \div 2 + n) ELSE bytes

\* memcpy of s to the bytes from i + 1 on; the two do not overlap.
Written(b, i, s) == [j \in DOMAIN b |-> IF j \in i + 1..i + Len(s) THEN s[j - i] ELSE b[j]]

\* s behind the text, in a buffer b with room for it.
AddTo(b, s) ==
    /\ Len(text) + Len(s) <= MaxText
    /\ bytes' = Written(b, len, s)
    /\ len' = len + Len(s)

\* append of bytes that are not in the buffer.
AppendBytes(s) == AddTo(Ensured(Len(s)), s) /\ text' = text \o s

\* A bug: the bytes are read where they were before the buffer grew.
SafeAppendEarly(i, n) ==
    /\ i < len /\ i + n <= len
    /\ LET b == Ensured(n)
       IN  AddTo(b, IF b = bytes THEN SubSeq(b, i + 1, i + n) ELSE [j \in 1..n |-> Junk])
    /\ text' = text \o SubSeq(text, i + 1, i + n)

\* safe_append of n bytes of its own, from the ith on: they are looked for
\* again when the buffer has grown.
SafeAppend(i, n) ==
    /\ i < len /\ i + n <= len
    /\ AddTo(Ensured(n), SubSeq(Ensured(n), i + 1, i + n))
    /\ text' = text \o SubSeq(text, i + 1, i + n)

\* append of itself.
AppendSelf ==
    /\ AddTo(Reserved(2 * len), SubSeq(bytes, 1, len))
    /\ text' = text \o text

\* assign of bytes that are not in the buffer, and of some that are: memmove.
AssignBytes(s) ==
    /\ len' = Len(s) /\ text' = s
    /\ bytes' = Written(Reserved(Len(s)), 0, s)
AssignOwn(i, n) ==
    /\ i < len /\ i + n <= len
    /\ bytes' = Written(bytes, 0, SubSeq(bytes, i + 1, i + n))
    /\ len' = n
    /\ text' = SubSeq(text, i + 1, i + n)

\* resize: what is new is whatever was there.
Resize(n) ==
    /\ n <= MaxText
    /\ bytes' = Reserved(n) /\ len' = n
    /\ text' = IF n <= len THEN SubSeq(text, 1, n) ELSE text \o SubSeq(Reserved(n), len + 1, n)

\* safe_resize: what is new is 0.
SafeResize(n) ==
    LET zeros == [i \in 1..n |-> Nul] IN
    /\ n <= MaxText
    /\ bytes' = Written(Reserved(n), len, SubSeq(zeros, len + 1, n))
    /\ len' = n
    /\ text' = SubSeq(text \o zeros, 1, n)

\* c_str: room for the 0 behind the text, which is not counted.
CStr ==
    /\ bytes' = Written(Reserved(len + 1), len, <<Nul>>)
    /\ UNCHANGED <<len, text>>

\* reserve, and shrink: a copy, which is just large enough, takes its place.
Reserve(n) == bytes' = Reserved(n) /\ UNCHANGED <<len, text>>
Shrink ==
    /\ len + 1 < Size
    /\ bytes' = SubSeq(bytes, 1, len)
    /\ UNCHANGED <<len, text>>

Texts == UNION {[1..n -> Char] : n \in 0..2}

BufferNext ==
    \/ AppendSelf \/ CStr \/ Shrink
    \/ \E s \in Texts : AppendBytes(s) \/ AssignBytes(s)
    \/ \E n \in 0..MaxText :
          \/ Resize(n) \/ SafeResize(n) \/ Reserve(n)
          \/ \E i \in 0..MaxText : SafeAppend(i, n) \/ AssignOwn(i, n)

\* The buffer holds the text, wherever the argument of the call was and
\* whether the buffer has moved.
TextKept == len <= Size /\ SubSeq(bytes, 1, len) = text
=============================================================================
