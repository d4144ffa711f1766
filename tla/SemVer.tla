-------------------------------- MODULE SemVer --------------------------------
(***************************************************************************)
(* Semantic versions (src/include/fdp/utilities/semver.hxx, semver.cxx): a *)
(* version as an object with its methods, its two ways to a text and back, *)
(* and its comparisons.                                                    *)
(*                                                                         *)
(* A text keeps what the parser distinguishes: three numbers, a tag, the   *)
(* number after the tag and whether a dot stands between them, metadata.   *)
(* Numbers are unsigned and wrap; stoi takes the lower half of them.       *)
(***************************************************************************)
EXTENDS Integers

CONSTANTS
    Limit,     \* 2^32: where unsigned numbers wrap
    NoTagV,    \* 1E9: the tag_v_ of a version without one
    Radix,     \* 10: the base numbers are written in
    Metas,     \* metadata a version can have, with
    NoMeta,    \* the empty one
    Starts,    \* versions a program makes with the constructor
    MaxCalls   \* bound: calls on a version

IntMax == Limit \div 2 - 1

ALPHA == 0
BETA == 1
RELEASE_CANDIDATE == 2
RELEASE == 3
Tags == ALPHA .. RELEASE

Number == 0 .. Limit - 1

Version == [major : Number, minor : Number, patch : Number,
            tag : Tags, tagV : Number, meta : Metas]

ASSUME SemVerConstants ==
    /\ Limit \in Nat /\ NoTagV \in 0 .. IntMax
    /\ Radix \in Nat \ {0, 1}
    /\ NoMeta \in Metas
    /\ Starts \subseteq Version
    /\ MaxCalls \in Nat

VARIABLES
    v,       \* the version the program works on
    other,   \* another one, that v is compared with
    calls    \* calls so far

vars == <<v, other, calls>>

-----------------------------------------------------------------------------
(* Comparisons *)

(* Mutant: one return false is missing.                                    *)
LessFallsThrough(a, b) ==
    \/ a.major < b.major
    \/ a.major = b.major /\ a.minor < b.minor
    \/ a.major = b.major /\ a.patch < b.patch
    \/ /\ a.major = b.major /\ a.minor = b.minor /\ a.patch = b.patch
       /\ \/ a.tag < b.tag
          \/ a.tag = b.tag /\ a.tagV < b.tagV

(* operator<, field by field                                               *)
Less(a, b) ==
    \/ a.major < b.major
    \/ a.major = b.major /\ a.minor < b.minor
    \/ a.major = b.major /\ a.minor = b.minor /\ a.patch < b.patch
    \/ /\ a.major = b.major /\ a.minor = b.minor /\ a.patch = b.patch
       /\ \/ a.tag < b.tag
          \/ a.tag = b.tag /\ a.tagV < b.tagV

(* operator== looks at metadata too.                                       *)
Equal(a, b) == a = b

(* operator<=                                                              *)
AtMost(a, b) == Equal(a, b) \/ Less(a, b)

(* operator>=                                                              *)
AtLeast(a, b) == Equal(a, b) \/ Less(b, a)

-----------------------------------------------------------------------------
(* Texts *)

NoNumber == Limit

(* What operator<< and to_string write: no dot, no number 1E9.             *)
to_string(a) ==
    [major |-> a.major, minor |-> a.minor, patch |-> a.patch, tag |-> a.tag, dot |-> FALSE,
     number |-> IF a.tag = RELEASE \/ a.tagV = NoTagV THEN NoNumber ELSE a.tagV,
     meta |-> a.meta]

(* The same in the form that the constructor is documented with.           *)
Documented(a) == [to_string(a) EXCEPT !.dot = TRUE]

(* What is left of a number without its first digit.                       *)
AfterFirst[n \in Number] ==
    IF n < Radix THEN 0 ELSE Radix * AfterFirst[n \div Radix] + (n % Radix)

(* The parser skips one character after the tag, a dot or a digit.         *)
NumberRead(t) == IF t.dot THEN t.number ELSE AfterFirst[t.number]

(* It throws when nothing is left of a number, and stoi when one is too    *)
(* large for an int.                                                       *)
Readable(t) ==
    /\ t.major <= IntMax /\ t.minor <= IntMax /\ t.patch <= IntMax
    /\ t.number # NoNumber =>
          /\ t.dot \/ t.number >= Radix
          /\ NumberRead(t) \in 0 .. IntMax

(* Mutant: metadata is not taken over.                                     *)
ParsedWithoutMeta(t) ==
    [major |-> t.major, minor |-> t.minor, patch |-> t.patch, tag |-> t.tag,
     tagV |-> IF t.number = NoNumber THEN NoTagV ELSE NumberRead(t),
     meta |-> NoMeta]

(* Mutant: a tag without a number is number 0.                             *)
ParsedFromZero(t) ==
    [major |-> t.major, minor |-> t.minor, patch |-> t.patch, tag |-> t.tag,
     tagV |-> IF t.number = NoNumber THEN 0 ELSE NumberRead(t),
     meta |-> t.meta]

(* Mutant: a number is read only after a dot.                              *)
ParsedFromDot(t) ==
    [major |-> t.major, minor |-> t.minor, patch |-> t.patch, tag |-> t.tag,
     tagV |-> IF t.number = NoNumber \/ ~ t.dot THEN NoTagV ELSE NumberRead(t),
     meta |-> t.meta]

(* The version made from a readable text.                                  *)
Parsed(t) ==
    [major |-> t.major, minor |-> t.minor, patch |-> t.patch, tag |-> t.tag,
     tagV |-> IF t.number = NoNumber THEN NoTagV ELSE NumberRead(t),
     meta |-> t.meta]

-----------------------------------------------------------------------------
(* The methods *)

Init ==
    /\ v \in Starts
    /\ other \in Starts
    /\ calls = 0

Call ==
    /\ calls < MaxCalls
    /\ calls' = calls + 1

(* Mutant: numbers do not wrap.                                            *)
Plus1Unbounded(n) == n + 1

Plus1(n) == (n + 1) % Limit

bump_major == Call /\ v' = [v EXCEPT !.major = Plus1(@)] /\ UNCHANGED other
bump_minor == Call /\ v' = [v EXCEPT !.minor = Plus1(@)] /\ UNCHANGED other
bump_patch == Call /\ v' = [v EXCEPT !.patch = Plus1(@)] /\ UNCHANGED other

SetTag(w, t, n) == [w EXCEPT !.tag = t, !.tagV = n]

(* Mutant: the number starts again with every call.                        *)
TaggedAnew(t) == SetTag(v, t, 0)

(* A tag counts from 0, and on when the version has it already.            *)
Tagged(t) == SetTag(v, t, IF v.tag = t THEN Plus1(v.tagV) ELSE 0)

alpha == Call /\ v' = Tagged(ALPHA) /\ UNCHANGED other
beta == Call /\ v' = Tagged(BETA) /\ UNCHANGED other
prerelease == Call /\ v' = Tagged(RELEASE_CANDIDATE) /\ UNCHANGED other

release == Call /\ v' = SetTag(v, RELEASE, NoTagV) /\ UNCHANGED other

(* The copy constructor                                                    *)
Copy == Call /\ other' = v /\ UNCHANGED v

(* The constructor from a text, of one or the other form; it may throw.    *)
Parse(t) ==
    /\ Call
    /\ \/ Readable(t) /\ v' = Parsed(t)
       \/ ~ Readable(t) /\ UNCHANGED v
    /\ UNCHANGED other

Bump == bump_major \/ bump_minor \/ bump_patch
Retag == alpha \/ beta \/ prerelease \/ release

Next ==
    \/ Bump \/ Retag \/ Copy
    \/ \E a \in {v, other} : Parse(to_string(a)) \/ Parse(Documented(a))

Spec == Init /\ [][Next]_vars

-----------------------------------------------------------------------------

(* The types.                                                              *)
TypeOK ==
    /\ v \in Version /\ other \in Version
    /\ calls \in 0 .. MaxCalls

(* The version as one number, in which every field outweighs those after   *)
(* it: what the order of versions means.                                   *)
Rank(a) ==
    (((a.major * Limit + a.minor) * Limit + a.patch) * (RELEASE + 1) + a.tag) * Limit + a.tagV

(* operator< is the order by major, minor, patch, tag and number of the    *)
(* tag: fields are compared in turn, and a later one only on a tie.  <=    *)
(* and >= go with it when metadata, which == looks at, is the same.  A tag *)
(* without a number has the number 1E9 and so comes after the numbered     *)
(* ones; strict semantic versioning has it before them.                    *)
OrderIsByRank ==
    /\ Less(v, other) <=> Rank(v) < Rank(other)
    /\ v.meta = other.meta =>
          /\ AtMost(v, other) <=> Rank(v) <= Rank(other)
          /\ AtLeast(v, other) <=> Rank(v) >= Rank(other)

Untagged(a) == a.tagV = NoTagV
Small(a) == a.major <= IntMax /\ a.minor <= IntMax /\ a.patch <= IntMax

(* A version without a numbered tag is read back from its text as it was.  *)
UntaggedReadsBack ==
    (Untagged(v) /\ Small(v)) => Readable(to_string(v)) /\ Equal(Parsed(to_string(v)), v)

(* A version is read back from the documented form of its text as it was,  *)
(* with its number.                                                        *)
DocumentedReadsBack ==
    (Small(v) /\ v.tagV <= IntMax /\ (v.tag = RELEASE => Untagged(v))) =>
        Readable(Documented(v)) /\ Equal(Parsed(Documented(v)), v)

(* What to_string loses makes a version older: read back from it, no       *)
(* version comes before in the order and then after its source.            *)
ReadBackIsNotNewer ==
    (Readable(to_string(v)) /\ (v.tag = RELEASE => Untagged(v))) =>
        ~ Less(v, Parsed(to_string(v)))

(* A release goes through its tags upwards: a call that does not go back   *)
(* to an earlier tag makes the version newer, until numbers wrap.          *)
TagsGoUp ==
    [][(Retag /\ v'.tag >= v.tag /\ v.tag # RELEASE /\ v.tagV < Limit - 1) => Less(v, v')]_vars

=============================================================================
