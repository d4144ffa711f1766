----------------------------- MODULE SemVerProofs -----------------------------
(***************************************************************************)
(* Proofs about SemVer: types, the order of versions for every size of     *)
(* number, what the documented form of a text keeps, and what the other    *)
(* form loses.                                                             *)
(***************************************************************************)
EXTENDS SemVer, WellFoundedInduction, TLAPS

USE SemVerConstants DEF ALPHA, BETA, RELEASE_CANDIDATE, RELEASE, Tags, Number, IntMax

(* operator< orders versions strictly and transitively.                    *)
LEMMA LessIsStrictOrder ==
    ASSUME NEW a \in Version, NEW b \in Version, NEW c \in Version
    PROVE  /\ ~ (Less(a, b) /\ Less(b, a))
           /\ Less(a, b) /\ Less(b, c) => Less(a, c)
  BY DEF Version, Less

(* Two versions neither of which comes first differ in metadata at most.   *)
LEMMA LessIsTotalUpToMeta ==
    ASSUME NEW a \in Version, NEW b \in Version
    PROVE  (~ Less(a, b) /\ ~ Less(b, a)) <=> [a EXCEPT !.meta = b.meta] = b
  <1>1. [a EXCEPT !.meta = b.meta] = b <=>
          /\ a.major = b.major /\ a.minor = b.minor /\ a.patch = b.patch
          /\ a.tag = b.tag /\ a.tagV = b.tagV
    BY DEF Version
  <1> QED BY <1>1 DEF Version, Less

(* The number written with the leading part n and the last digit x.        *)
Digits(L, n, x) == n * L + x

(* A larger leading part outweighs the last digit.                         *)
LEMMA DigitsInOrder ==
    ASSUME NEW L \in Nat, NEW a \in Nat, NEW b \in Nat,
           NEW x \in 0 .. L - 1, NEW y \in 0 .. L - 1
    PROVE  /\ Digits(L, a, x) \in Nat
           /\ Digits(L, a, x) < Digits(L, b, y) <=> (a < b \/ (a = b /\ x < y))
  <1> USE DEF Digits
  <1>1. a * L \in Nat /\ b * L \in Nat
    OBVIOUS
  <1>2. CASE a < b
    <2>1. (a + 1) * L <= b * L
      BY <1>2
    <2>2. (a + 1) * L = a * L + L
      OBVIOUS
    <2> QED BY <1>1, <1>2, <2>1, <2>2
  <1>3. CASE b < a
    <2>1. (b + 1) * L <= a * L
      BY <1>3
    <2>2. (b + 1) * L = b * L + L
      OBVIOUS
    <2> QED BY <1>1, <1>3, <2>1, <2>2
  <1>4. CASE a = b
    BY <1>1, <1>4
  <1> QED BY <1>2, <1>3, <1>4

(* operator< and the rank of a version are the same order.                 *)
LEMMA LessIsRank ==
    ASSUME NEW a \in Version, NEW b \in Version
    PROVE  Less(a, b) <=> Rank(a) < Rank(b)
  <1> DEFINE First(w) == Digits(Limit, w.major, w.minor)
             Second(w) == Digits(Limit, First(w), w.patch)
             Third(w) == Digits(4, Second(w), w.tag)
  <1>0. /\ a.major \in Nat /\ a.minor \in 0 .. Limit - 1 /\ a.patch \in 0 .. Limit - 1
        /\ a.tag \in 0 .. 4 - 1 /\ a.tagV \in 0 .. Limit - 1
        /\ b.major \in Nat /\ b.minor \in 0 .. Limit - 1 /\ b.patch \in 0 .. Limit - 1
        /\ b.tag \in 0 .. 4 - 1 /\ b.tagV \in 0 .. Limit - 1
    BY DEF Version
  <1> HIDE SemVerConstants
  <1>1. /\ First(a) \in Nat /\ First(b) \in Nat
        /\ First(a) < First(b) <=> (a.major < b.major \/ (a.major = b.major /\ a.minor < b.minor))
        /\ First(b) < First(a) <=> (b.major < a.major \/ (b.major = a.major /\ b.minor < a.minor))
    <2>1. Limit \in Nat
      BY SemVerConstants
    <2>2. First(a) \in Nat /\ First(b) \in Nat
      BY <1>0, <2>1 DEF Digits
    <2>3. \A m, n \in Nat, x, y \in 0 .. Limit - 1 :
             Digits(Limit, m, x) < Digits(Limit, n, y) <=> (m < n \/ (m = n /\ x < y))
      BY <2>1, DigitsInOrder
    <2>4. First(a) < First(b) <=> (a.major < b.major \/ (a.major = b.major /\ a.minor < b.minor))
      BY <1>0, <2>3, Zenon
    <2>5. First(b) < First(a) <=> (b.major < a.major \/ (b.major = a.major /\ b.minor < a.minor))
      BY <1>0, <2>3, Zenon
    <2> QED BY <2>2, <2>4, <2>5
  <1> USE SemVerConstants
  <1> HIDE DEF First
  <1>2. /\ Second(a) \in Nat /\ Second(b) \in Nat
        /\ Second(a) < Second(b) <=> (First(a) < First(b) \/ (First(a) = First(b) /\ a.patch < b.patch))
        /\ Second(b) < Second(a) <=> (First(b) < First(a) \/ (First(b) = First(a) /\ b.patch < a.patch))
    BY <1>0, <1>1, DigitsInOrder
  <1> HIDE DEF Second
  <1>3. /\ Third(a) \in Nat /\ Third(b) \in Nat
        /\ Third(a) < Third(b) <=> (Second(a) < Second(b) \/ (Second(a) = Second(b) /\ a.tag < b.tag))
        /\ Third(b) < Third(a) <=> (Second(b) < Second(a) \/ (Second(b) = Second(a) /\ b.tag < a.tag))
    BY <1>0, <1>2, DigitsInOrder
  <1>4. /\ Rank(a) = Digits(Limit, Third(a), a.tagV)
        /\ Rank(b) = Digits(Limit, Third(b), b.tagV)
    BY DEF Rank, Third, Second, First, Digits
  <1> HIDE DEF Third
  <1>5. Digits(Limit, Third(a), a.tagV) < Digits(Limit, Third(b), b.tagV) <=>
            (Third(a) < Third(b) \/ (Third(a) = Third(b) /\ a.tagV < b.tagV))
    BY <1>0, <1>3, DigitsInOrder
  <1>6. Less(a, b) <=> (Third(a) < Third(b) \/ (Third(a) = Third(b) /\ a.tagV < b.tagV))
    BY <1>0, <1>1, <1>2, <1>3 DEF Less
  <1> QED BY <1>4, <1>5, <1>6

(* The rank of a version is a number.                                      *)
LEMMA RankIsNumber ==
    ASSUME NEW a \in Version
    PROVE  Rank(a) \in Int
  BY DEF Rank, Version

-----------------------------------------------------------------------------

(* Texts *)

(* Division by the base takes the last digit off, and makes a number       *)
(* smaller.                                                                *)
LEMMA LastDigit ==
    ASSUME NEW n \in Nat, n >= Radix
    PROVE  /\ n \div Radix \in Nat /\ n % Radix \in Nat
           /\ n = Radix * (n \div Radix) + (n % Radix)
           /\ n \div Radix < n
  <1>1. n \div Radix \in Nat /\ n % Radix \in 0 .. Radix - 1
    OBVIOUS
  <1>2. n = Radix * (n \div Radix) + (n % Radix)
    OBVIOUS
  <1>3. n \div Radix < n
    <2>1. ASSUME NEW k \in Nat, k >= n
          PROVE  Radix * k > n
      <3>1. Radix >= 2 /\ n >= 2
        OBVIOUS
      <3>2. Radix * k >= 2 * k
        BY <3>1
      <3> QED BY <2>1, <3>1, <3>2
    <2> QED BY <1>1, <1>2, <2>1
  <1> QED BY <1>1, <1>2, <1>3

(* Induction, for a set: it has every number when it has 0, and with each  *)
(* number the next one.                                                    *)
LEMMA NumbersFrom ==
    ASSUME NEW S \in SUBSET Nat, 0 \in S, \A n \in S : n + 1 \in S
    PROVE  S = Nat
  <1>1. CASE Nat \ S # {}
    <2>1. PICK n \in Nat \ S : \A m \in Nat \ S : <<m, n>> \notin OpToRel(<, Nat)
      BY <1>1, NatLessThanWellFounded, WFMin
    <2>2. n # 0 /\ n - 1 \in Nat /\ (n - 1) + 1 = n
      OBVIOUS
    <2>3. n - 1 \notin S
      <3> SUFFICES ASSUME n - 1 \in S PROVE FALSE
        OBVIOUS
      <3>1. (n - 1) + 1 \in S
        OBVIOUS
      <3> QED BY <2>2, <3>1
    <2>4. n - 1 \in Nat \ S /\ n - 1 < n
      BY <2>2, <2>3
    <2> QED BY <2>1, <2>4 DEF OpToRel
  <1> QED BY <1>1

(* The definition of AfterFirst, for any function in its place.            *)
AfterFirstOf(f, n) == IF n < Radix THEN 0 ELSE Radix * f[n \div Radix] + (n % Radix)

(* A function as AfterFirst is defined to be exists: one on the numbers up *)
(* to m is extended to m + 1, because division makes m + 1 smaller.        *)
LEMMA AfterFirstExists == \E f : f = [n \in Number |-> AfterFirstOf(f, n)]
  <1> DEFINE S == {m \in Nat : \E f : f = [n \in 0 .. m |-> AfterFirstOf(f, n)]}
  <1>1. 0 \in S
    <2> DEFINE f == [n \in 0 .. 0 |-> 0]
    <2>1. \A n \in 0 .. 0 : AfterFirstOf(f, n) = 0
      BY DEF AfterFirstOf
    <2>2. f = [n \in 0 .. 0 |-> AfterFirstOf(f, n)]
      BY <2>1
    <2> QED BY <2>2
  <1>2. ASSUME NEW m \in S
        PROVE  m + 1 \in S
    <2>1. PICK f : f = [n \in 0 .. m |-> AfterFirstOf(f, n)]
      OBVIOUS
    <2> DEFINE g == [n \in 0 .. m + 1 |-> IF n \in 0 .. m THEN f[n] ELSE AfterFirstOf(f, n)]
    <2>2. ASSUME NEW n \in 0 .. m + 1
          PROVE  g[n] = AfterFirstOf(g, n)
      <3>1. m \in Nat /\ n \in Nat
        OBVIOUS
      <3>2. CASE n < Radix
        BY <2>1, <3>2 DEF AfterFirstOf
      <3>3. CASE ~ n < Radix
        <4>1. n \div Radix \in 0 .. m
          BY <3>1, <3>3, LastDigit
        <4>2. g[n \div Radix] = f[n \div Radix]
          BY <3>1, <4>1
        <4>3. g[n] = AfterFirstOf(f, n)
          BY <2>1
        <4> HIDE DEF g
        <4> QED BY <4>2, <4>3 DEF AfterFirstOf
      <3> QED BY <3>2, <3>3
    <2>3. g = [n \in 0 .. m + 1 |-> AfterFirstOf(g, n)]
      BY <2>2
    <2>4. \E h : h = [n \in 0 .. m + 1 |-> AfterFirstOf(h, n)]
      BY <2>3
    <2> QED BY <2>4
  <1>3. S = Nat
    <2> HIDE DEF S
    <2>1. S \in SUBSET Nat
      BY DEF S
    <2> QED BY <1>1, <1>2, <2>1, NumbersFrom
  <1>4. CASE Limit > 0
    BY <1>3, <1>4
  <1>5. CASE Limit = 0
    <2>1. Number = {}
      BY <1>5
    <2> DEFINE f == [n \in {} |-> 0]
    <2>2. f = [n \in Number |-> AfterFirstOf(f, n)]
      BY <2>1
    <2> QED BY <2>2
  <1> QED BY <1>4, <1>5

(* So AfterFirst satisfies its definition.                                 *)
LEMMA AfterFirstIs == \A n \in Number : AfterFirst[n] = AfterFirstOf(AfterFirst, n)
  <1> HIDE SemVerConstants DEF Number
  <1>1. AfterFirst = CHOOSE f : f = [n \in Number |-> AfterFirstOf(f, n)]
    BY Zenon DEF AfterFirst, AfterFirstOf
  <1>2. AfterFirst = [n \in Number |-> AfterFirstOf(AfterFirst, n)]
    BY <1>1, AfterFirstExists, Zenon
  <1> QED BY <1>2

(* A number without its first digit is a number, and not a larger one.     *)
LEMMA AfterFirstIsLess == \A n \in Number : AfterFirst[n] \in 0 .. n
  <1> DEFINE S == {m \in Nat : \A n \in Number : n <= m => AfterFirst[n] \in 0 .. n}
  <1>1. 0 \in S
    BY AfterFirstIs DEF AfterFirstOf
  <1>2. ASSUME NEW m \in S
        PROVE  m + 1 \in S
    <2> SUFFICES ASSUME NEW n \in Number, n <= m + 1
                 PROVE  AfterFirst[n] \in 0 .. n
      OBVIOUS
    <2>1. CASE n < Radix
      BY <2>1, AfterFirstIs DEF AfterFirstOf
    <2>2. CASE n >= Radix
      <3>1. PICK q \in Nat, x \in Nat :
               /\ q = n \div Radix /\ x = n % Radix
               /\ n = Radix * q + x /\ q < n
        BY <2>2, LastDigit
      <3>2. q \in Number /\ q <= m
        BY <3>1
      <3>3. PICK y \in 0 .. q : y = AfterFirst[q]
        BY <3>2
      <3>4. AfterFirst[n] = Radix * y + x
        <4>1. AfterFirst[n] = AfterFirstOf(AfterFirst, n)
          BY AfterFirstIs
        <4>2. ~ n < Radix
          BY <2>2
        <4> QED BY <3>1, <3>3, <4>1, <4>2 DEF AfterFirstOf
      <3>5. Radix * y \in Nat /\ Radix * q \in Nat /\ Radix * y <= Radix * q
        OBVIOUS
      <3> QED BY <3>1, <3>4, <3>5
    <2> QED BY <2>1, <2>2
  <1>3. S = Nat
    <2> HIDE DEF S
    <2>1. S \in SUBSET Nat
      BY DEF S
    <2> QED BY <1>1, <1>2, <2>1, NumbersFrom
  <1>4. ASSUME NEW n \in Number
        PROVE  AfterFirst[n] \in 0 .. n
    <2>1. n \in S /\ n <= n
      BY <1>3
    <2> QED BY <2>1
  <1> QED BY <1>4

(* The version made from a text of a version is one.                       *)
LEMMA ParsedType ==
    ASSUME NEW a \in Version, NEW t \in {to_string(a), Documented(a)}, Readable(t)
    PROVE  Parsed(t) \in Version
  <1>1. /\ t.major = a.major /\ t.minor = a.minor /\ t.patch = a.patch
        /\ t.tag = a.tag /\ t.meta = a.meta
    BY DEF to_string, Documented
  <1>2. t.number # NoNumber => NumberRead(t) \in Number
    BY DEF Readable
  <1> QED BY <1>1, <1>2 DEF Parsed, Version

(* Setting a tag and its number sets just these.                           *)
LEMMA RetagFields ==
    ASSUME NEW w \in Version, NEW t \in Tags, NEW n \in Number
    PROVE  LET u == SetTag(w, t, n)
           IN  /\ u \in Version
               /\ u.major = w.major /\ u.minor = w.minor /\ u.patch = w.patch
               /\ u.tag = t /\ u.tagV = n
  <1> DEFINE x == [w EXCEPT !.tag = t]
  <1>1. /\ x \in Version
        /\ x.major = w.major /\ x.minor = w.minor /\ x.patch = w.patch /\ x.tag = t
    BY DEF Version
  <1>2. SetTag(w, t, n) = [x EXCEPT !.tagV = n]
    BY DEF SetTag
  <1> HIDE DEF x
  <1> QED BY <1>1, <1>2 DEF Version

(* A later tag, or a larger number of the same one, makes a version newer. *)
LEMMA RetagNewer ==
    ASSUME NEW w \in Version, NEW t \in Tags, NEW n \in Number,
           t > w.tag \/ (t = w.tag /\ n > w.tagV)
    PROVE  Less(w, SetTag(w, t, n))
  <1> DEFINE u == SetTag(w, t, n)
  <1>1. /\ u.major = w.major /\ u.minor = w.minor /\ u.patch = w.patch
        /\ u.tag = t /\ u.tagV = n
    BY RetagFields, Zenon
  <1> HIDE DEF u
  <1>2. Less(w, u)
    BY <1>1 DEF Less, Version
  <1> QED BY <1>2 DEF u

(* A tag and its number stay in their types.                               *)
LEMMA TaggedType ==
    ASSUME NEW t \in Tags, v \in Version
    PROVE  Tagged(t) \in Version
  <1> DEFINE n == IF v.tag = t THEN Plus1(v.tagV) ELSE 0
  <1>1. n \in Number
    BY DEF Plus1, Version
  <1>2. Tagged(t) = SetTag(v, t, n)
    BY DEF Tagged
  <1> HIDE DEF n
  <1> QED BY <1>1, <1>2, RetagFields

(* Numbers, tags and metadata stay in their types, also when numbers wrap  *)
(* and when a version is read from a text.                                 *)
THEOREM TypeCorrect == Spec => []TypeOK
  <1> USE DEF TypeOK
  <1>1. Init => TypeOK
    BY DEF Init
  <1>2. TypeOK /\ [Next]_vars => TypeOK'
    <2> SUFFICES ASSUME TypeOK, [Next]_vars PROVE TypeOK'
      OBVIOUS
    <2>1. CASE bump_major
      BY <2>1 DEF bump_major, Call, Plus1, Version
    <2>2. CASE bump_minor
      BY <2>2 DEF bump_minor, Call, Plus1, Version
    <2>3. CASE bump_patch
      BY <2>3 DEF bump_patch, Call, Plus1, Version
    <2>4. CASE alpha
      BY <2>4, TaggedType DEF alpha, Call
    <2>5. CASE beta
      BY <2>5, TaggedType DEF beta, Call
    <2>6. CASE prerelease
      BY <2>6, TaggedType DEF prerelease, Call
    <2>7. CASE release
      <3>1. v' = SetTag(v, RELEASE, NoTagV)
        BY <2>7 DEF release
      <3>2. v \in Version /\ RELEASE \in Tags /\ NoTagV \in Number
        OBVIOUS
      <3>3. v' \in Version
        BY <3>1, <3>2, RetagFields
      <3> QED BY <2>7, <3>3 DEF release, Call
    <2>8. CASE Copy
      BY <2>8 DEF Copy, Call
    <2>9. ASSUME NEW a \in {v, other}, Parse(to_string(a)) \/ Parse(Documented(a))
          PROVE  TypeOK'
      <3>1. PICK t \in {to_string(a), Documented(a)} : Parse(t)
        BY <2>9
      <3>2. v' \in Version
        BY <3>1, ParsedType DEF Parse
      <3> QED BY <3>1, <3>2 DEF Parse, Call
    <2>10. CASE UNCHANGED vars
      BY <2>10 DEF vars
    <2> QED
      BY <2>1, <2>2, <2>3, <2>4, <2>5, <2>6, <2>7, <2>8, <2>9, <2>10 DEF Next, Bump, Retag
  <1> QED BY <1>1, <1>2, PTL DEF Spec

(* operator< is the order of versions by rank, at every call, and so are   *)
(* <= and >= between versions of the same metadata.                        *)
THEOREM OrderedByRank == Spec => []OrderIsByRank
  <1>1. ASSUME TypeOK
        PROVE  OrderIsByRank
    <2>1. v \in Version /\ other \in Version
      BY <1>1 DEF TypeOK
    <2>2. /\ Less(v, other) <=> Rank(v) < Rank(other)
          /\ Less(other, v) <=> Rank(other) < Rank(v)
      BY <2>1, LessIsRank
    <2>3. Rank(v) \in Int /\ Rank(other) \in Int
      BY <2>1, RankIsNumber
    <2>4. v.meta = other.meta => (v = other <=> (~ Less(v, other) /\ ~ Less(other, v)))
      <3>1. v.meta = other.meta => [v EXCEPT !.meta = other.meta] = v
        BY <2>1 DEF Version
      <3> QED BY <2>1, <3>1, LessIsTotalUpToMeta
    <2> QED BY <2>2, <2>3, <2>4 DEF OrderIsByRank, AtMost, AtLeast, Equal
  <1> QED BY <1>1, TypeCorrect, PTL

(* What is written without a tag's number reads back as it was.            *)
THEOREM UntaggedIsReadBack == Spec => []UntaggedReadsBack
  <1>1. TypeOK => UntaggedReadsBack
    BY DEF TypeOK, UntaggedReadsBack, Untagged, Small, Readable, Parsed, Equal, to_string,
           NoNumber, Version
  <1> QED BY <1>1, TypeCorrect, PTL

(* The documented form keeps a version with its number.                    *)
THEOREM DocumentedIsReadBack == Spec => []DocumentedReadsBack
  <1>1. TypeOK => DocumentedReadsBack
    <2> SUFFICES ASSUME TypeOK, Small(v), v.tagV <= IntMax, v.tag = RELEASE => Untagged(v)
                 PROVE  Readable(Documented(v)) /\ Equal(Parsed(Documented(v)), v)
      BY DEF DocumentedReadsBack
    <2> DEFINE t == Documented(v)
    <2>1. /\ t.major = v.major /\ t.minor = v.minor /\ t.patch = v.patch
          /\ t.tag = v.tag /\ t.meta = v.meta /\ t.dot
          /\ t.number = IF v.tagV = NoTagV THEN NoNumber ELSE v.tagV
      BY DEF to_string, Documented, Untagged
    <2> HIDE DEF t
    <2>2. v \in Version /\ v.tagV # NoNumber
      BY DEF TypeOK, NoNumber, Version
    <2>3. Readable(t)
      BY <2>1, <2>2 DEF Readable, NumberRead, Small, Version
    <2>4. Parsed(t) = v
      BY <2>1, <2>2 DEF Parsed, NumberRead, Version
    <2> QED BY <2>3, <2>4 DEF Equal, t
  <1> QED BY <1>1, TypeCorrect, PTL

(* What comes back from the text of a version is not newer: the number of  *)
(* its tag loses the first digit, and everything else is as it was.        *)
THEOREM ReadBackIsOlder == Spec => []ReadBackIsNotNewer
  <1>1. TypeOK => ReadBackIsNotNewer
    <2> SUFFICES ASSUME TypeOK, v.tag = RELEASE => Untagged(v)
                 PROVE  ~ Less(v, Parsed(to_string(v)))
      BY DEF ReadBackIsNotNewer
    <2> DEFINE t == to_string(v)
               w == Parsed(t)
    <2>1. /\ t.major = v.major /\ t.minor = v.minor /\ t.patch = v.patch
          /\ t.tag = v.tag /\ t.dot = FALSE
          /\ t.number = IF v.tagV = NoTagV THEN NoNumber ELSE v.tagV
      BY DEF to_string, Untagged
    <2> HIDE DEF t
    <2>2. v \in Version /\ v.tagV \in Number /\ v.tagV # NoNumber
      BY DEF TypeOK, NoNumber, Version
    <2>3. w.major = v.major /\ w.minor = v.minor /\ w.patch = v.patch /\ w.tag = v.tag
      BY <2>1 DEF Parsed
    <2>4. w.tagV = IF v.tagV = NoTagV THEN v.tagV ELSE AfterFirst[v.tagV]
      BY <2>1, <2>2 DEF Parsed, NumberRead
    <2>5. w.tagV \in 0 .. v.tagV
      BY <2>2, <2>4, AfterFirstIsLess
    <2> HIDE DEF w
    <2>6. ~ Less(v, w)
      BY <2>2, <2>3, <2>5 DEF Less, Version
    <2> QED BY <2>6 DEF w, t
  <1> QED BY <1>1, TypeCorrect, PTL

(* A call that keeps or raises the tag makes the version newer.            *)
THEOREM TagsRise == Spec => TagsGoUp
  <1>1. TypeOK /\ [Next]_vars =>
          [(Retag /\ v'.tag >= v.tag /\ v.tag # RELEASE /\ v.tagV < Limit - 1)
             => Less(v, v')]_vars
    <2> SUFFICES ASSUME TypeOK, Retag, v'.tag >= v.tag, v.tag # RELEASE, v.tagV < Limit - 1
                 PROVE  Less(v, v')
      OBVIOUS
    <2>0. /\ v \in Version /\ v.tag \in Tags /\ v.tagV \in Number
          /\ RELEASE \in Tags /\ NoTagV \in Number
      BY DEF TypeOK, Version
    <2>1. ASSUME NEW t \in Tags, v' = Tagged(t) PROVE Less(v, v')
      <3> DEFINE n == IF v.tag = t THEN Plus1(v.tagV) ELSE 0
      <3>1. n \in Number /\ (v.tag = t => n > v.tagV)
        BY <2>0 DEF Plus1
      <3>2. v' = SetTag(v, t, n)
        BY <2>1 DEF Tagged
      <3> HIDE DEF n
      <3>3. SetTag(v, t, n).tag = t
        <4>1. v \in Version /\ t \in Tags /\ n \in Number
          BY <2>0, <3>1
        <4> QED BY <4>1, RetagFields, Zenon
      <3>4. t > v.tag \/ (t = v.tag /\ n > v.tagV)
        <4>1. t >= v.tag
          BY <3>2, <3>3
        <4> QED BY <2>0, <3>1, <4>1
      <3>5. Less(v, SetTag(v, t, n))
        BY <2>0, <3>1, <3>4, RetagNewer
      <3> QED BY <3>2, <3>5
    <2>2. CASE alpha
      BY <2>1, <2>2 DEF alpha
    <2>3. CASE beta
      BY <2>1, <2>3 DEF beta
    <2>4. CASE prerelease
      BY <2>1, <2>4 DEF prerelease
    <2>5. CASE release
      <3>1. v' = SetTag(v, RELEASE, NoTagV)
        BY <2>5 DEF release
      <3>2. RELEASE > v.tag
        BY <2>0
      <3>3. Less(v, SetTag(v, RELEASE, NoTagV))
        BY <2>0, <3>2, RetagNewer
      <3> QED BY <3>1, <3>3
    <2> QED BY <2>2, <2>3, <2>4, <2>5 DEF Retag
  <1> QED BY <1>1, TypeCorrect, PTL DEF Spec, TagsGoUp
=============================================================================
