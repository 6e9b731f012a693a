-------------------------------- MODULE Semver ---------------------------------
(***************************************************************************)
(* cmpSemver of update.go, and the order of semantic versioning.           *)
(* A version string is [parts, suffix]: parts are the dot-separated ones   *)
(* before the first - or +, NotANumber for one that is no number.  suffix  *)
(* is what follows: the mark it starts with; rank, its place in the        *)
(* lexicographic order of all suffixes, 0 being the empty one; and ids,    *)
(* the dot-separated identifiers of a pre-release, each [num, at], whether *)
(* it is a number and its value or its place among the words.              *)
(***************************************************************************)
EXTENDS Integers, Sequences

NotANumber == -1
NoSuffix   == [mark |-> "", rank |-> 0, ids |-> <<>>]

\* splitSemver: three numbers, a missing one and one that is no number being 0, and
\* the suffix.  A third part with dots in it is no number.
SplitSemver(v) ==
  [core |-> [i \in 1 .. 3 |->
               IF \/ i > Len(v.parts) \/ v.parts[i] = NotANumber
                  \/ i = 3 /\ Len(v.parts) > 3
               THEN 0 ELSE v.parts[i]],
   pre  |-> v.suffix.rank]

CoreBelow(a, b) ==
  \E i \in 1 .. 3 : a[i] < b[i] /\ \A j \in 1 .. i - 1 : a[j] = b[j]

\* Mutant of Below: a release candidate is above the release.
BelowByRank(v, w) ==
  LET a == SplitSemver(v)  b == SplitSemver(w)
  IN  CoreBelow(a.core, b.core) \/ (a.core = b.core /\ a.pre < b.pre)

\* cmpSemver(v, w) < 0.  With equal cores the one with a suffix is below the one
\* without.
Below(v, w) ==
  LET a == SplitSemver(v)  b == SplitSemver(w)
  IN  \/ CoreBelow(a.core, b.core)
      \/ /\ a.core = b.core
         /\ \/ a.pre # 0 /\ b.pre = 0
            \/ a.pre # 0 /\ b.pre # 0 /\ a.pre < b.pre

-------------------------------------------------------------------------------
(* Precedence of semantic versioning, section 11, for versions of three numbers *)

\* A number is below a word; numbers go by value and words by their letters.
IdentifierBelow(x, y) == (x.num /\ ~ y.num) \/ (x.num = y.num /\ x.at < y.at)

\* Identifiers are compared from the left, and a list is above all its beginnings.
PreReleaseBelow(s, t) ==
  LET SameUpTo(n) == \A i \in 1 .. n : s[i] = t[i]
  IN  \/ \E i \in DOMAIN s \cap DOMAIN t : IdentifierBelow(s[i], t[i]) /\ SameUpTo(i - 1)
      \/ Len(s) < Len(t) /\ SameUpTo(Len(s))

\* Build metadata does not count.
PreRelease(v) == IF v.suffix.mark = "-" THEN v.suffix.ids ELSE <<>>

SemverBelow(v, w) ==
  \/ CoreBelow(v.parts, w.parts)
  \/ /\ v.parts = w.parts
     /\ PreRelease(v) # <<>>
     /\ PreRelease(w) = <<>> \/ PreReleaseBelow(PreRelease(v), PreRelease(w))

\* Two versions that differ in their numbers, or are a release and a candidate of it.
\* On others cmpSemver need not agree: it is coarse on two candidates, and takes build
\* metadata for a pre-release.
PlainlyOrdered(v, w) ==
  /\ \A u \in {v, w} : Len(u.parts) = 3 /\ \A i \in 1 .. 3 : u.parts[i] # NotANumber
  /\ v.parts = w.parts => {v.suffix.mark, w.suffix.mark} = {"", "-"}
===============================================================================
