------------------------------ MODULE Versions ------------------------------
(***************************************************************************)
(* Versions: how a text is read as one, how two compare, which of them a   *)
(* selector's pattern accepts, and which of the accepted is the best       *)
(* (jdk-resolve/src/version.rs, the ranking of jdk-resolve/src/store.rs,   *)
(* and that of jdk-core/src/catalog.rs).                                   *)
(*                                                                         *)
(* A text is cut where the parser cuts it: the dotted numbers in front, the*)
(* first `+` or `-`, and the tail behind it.  A tail is a sequence of      *)
(* tokens, each a natural number ordered as natural_cmp orders what it     *)
(* stands for: the signs come before every run of digits, and a run of     *)
(* digits before every word.  A word is one token, by its first letter;    *)
(* leading zeros are not told apart.                                       *)
(***************************************************************************)
EXTENDS Naturals, Sequences, SequencesExt

Plus == 0
Dash == 1
Dot  == 2
Digits(n) == 3 + n
MaxDigits == 99
Word(i) == Digits(MaxDigits) + i

Signs     == {Plus, Dash, Dot}
DigitRuns == {Digits(n) : n \in 0 .. MaxDigits}

Separators == {"none", "+", "-"}

Texts == [head : Seq(Nat), sep : Separators, tail : Seq(Nat)]

(* `build` is the tail of a numeric build, `pre` that of a pre-release, and*)
(* the empty sequence the None of either.                                  *)
None == <<>>

Numeric(tail) ==
    /\ Len(tail) % 2 = 1
    /\ \A i \in 1 .. Len(tail) :
         IF i % 2 = 1 THEN tail[i] \in DigitRuns ELSE tail[i] = Dot

(* Version::from_str: a tail behind `+` is a build if it is all numbers.   *)
Parse(text) ==
    LET builds == text.sep = "+" /\ Numeric(text.tail)
    IN  [nums  |-> text.head,
         build |-> IF builds THEN text.tail ELSE None,
         pre   |-> IF text.sep # "none" /\ ~builds THEN text.tail ELSE None]

(* Mutant: the pre-release is not written.                                 *)
DisplayReleased(v) ==
    [head |-> v.nums, sep |-> IF v.build # None THEN "+" ELSE "none", tail |-> v.build]

(* Version::fmt: a pre-release is written behind `-`, wherever it was read.*)
Display(v) ==
    [head |-> v.nums,
     sep  |-> IF v.build # None THEN "+" ELSE IF v.pre # None THEN "-" ELSE "none",
     tail |-> IF v.build # None THEN v.build ELSE v.pre]

-----------------------------------------------------------------------------
(* The order of versions: that of their numbers, then of their builds, then*)
(* of their pre-releases, each lexicographic.                              *)

SeqLess(s, t) ==
    \E i \in 1 .. Len(t) :
        /\ i <= Len(s) + 1
        /\ \A j \in 1 .. (i - 1) : s[j] = t[j]
        /\ i <= Len(s) => s[i] < t[i]

(* Mutant: pre-releases do not count.                                      *)
LessByNumbers(v, w) ==
    \/ SeqLess(v.nums, w.nums)
    \/ v.nums = w.nums /\ SeqLess(v.build, w.build)

Less(v, w) ==
    \/ SeqLess(v.nums, w.nums)
    \/ v.nums = w.nums /\ SeqLess(v.build, w.build)
    \/ v.nums = w.nums /\ v.build = w.build /\ SeqLess(v.pre, w.pre)

(* rank, and pick_best's like it: stable first, then the order.            *)
Outranks(v, stableV, w, stableW) ==
    \/ stableV /\ ~stableW
    \/ stableV = stableW /\ Less(w, v)

Stable(v) == v.pre = None

-----------------------------------------------------------------------------
(* Version::matches.                                                       *)

(* pre_accepts: equal, or continued at a sign.                             *)
PreAccepts(p, c) ==
    \/ c = p
    \/ IsStrictPrefix(p, c) /\ c[Len(p) + 1] \in Signs

MatchesDirectly(v, p) ==
    /\ IsPrefix(p.nums, v.nums)
    /\ p.build \in {None, v.build}
    /\ p.pre # None => v.pre # None /\ PreAccepts(p.pre, v.pre)

(* The numbers with a lone build number at their end.                      *)
LoneBuild(v) == Len(v.build) = 1
Folded(v) == Append(v.nums, v.build[1] - Digits(0))

(* A lone build number is the same as that number as a further component.  *)
Matches(v, p) ==
    \/ MatchesDirectly(v, p)
    \/ LoneBuild(p) /\ IsPrefix(Folded(p), v.nums)
    \/ p.build = None /\ LoneBuild(v) /\ p.nums = Folded(v)

=============================================================================
