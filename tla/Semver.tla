------------------------------- MODULE Semver -------------------------------
(***************************************************************************)
(* Version requirements, as the two matchers of the repository decide      *)
(* them: version_satisfies of package.c, which the package manager uses,   *)
(* and semver_satisfies of semver.c.                                       *)
(*                                                                         *)
(* A version is the sequence of the numbers that can be read from its      *)
(* text: <<1, 2, 3>>, <<1, 2>> for "1.2", <<>> for a path.  A requirement  *)
(* is an operator and what follows it.                                     *)
(***************************************************************************)
EXTENDS Integers, Sequences

CONSTANT Numbers            \* the integers a part of a version can hold

ASSUME NumbersAssumption == Numbers \subseteq Int

Parts == 1 .. 3
Complete == [Parts -> Numbers]

(***************************************************************************)
(* sscanf(v, "%d.%d.%d", ...) into uninitialised variables: a part that is *)
(* not in the text keeps whatever the variable held.                       *)
(***************************************************************************)
Readings(v) == {[p \in Parts |-> IF p \in DOMAIN v THEN v[p] ELSE held[p]] :
                  held \in [Parts \ DOMAIN v -> Numbers]}

\* Negative, zero or positive as a is before, at or after b.
Compare(a, b) == IF a[1] # b[1] THEN a[1] - b[1]
                 ELSE IF a[2] # b[2] THEN a[2] - b[2]
                 ELSE a[3] - b[3]

\* Mutant: a version is not compatible with itself.
MatchesStrict(op, v, w) ==
  \/ op = "^"  /\ v[1] = w[1] /\ Compare(v, w) > 0
  \/ op = "~"  /\ v[1] = w[1] /\ v[2] = w[2]
  \/ op = ">=" /\ Compare(v, w) >= 0

\* version_satisfies, after both texts were read; "=" is a comparison of texts.
Matches(op, v, w) ==
  \/ op = "^"  /\ v[1] = w[1] /\ Compare(v, w) >= 0
  \/ op = "~"  /\ v[1] = w[1] /\ v[2] = w[2]
  \/ op = ">=" /\ Compare(v, w) >= 0
  \/ op = "<=" /\ Compare(v, w) <= 0
  \/ op = ">"  /\ Compare(v, w) > 0
  \/ op = "<"  /\ Compare(v, w) < 0

RangeOps == {"^", "~", ">=", "<=", ">", "<"}

\* The answers version_satisfies may give for numbers read from two texts.
Answers(op, v, w) == {Matches(op, x, y) : x \in Readings(v), y \in Readings(w)}

(***************************************************************************)
(* semver_satisfies, of two triples: semver_parse fails on less.  There    *)
(* are no upper bounds, and "*" accepts every version.                     *)
(***************************************************************************)
SemverSatisfies(v, op, w) ==
  \/ op = "*"
  \/ op = "="  /\ Compare(v, w) = 0
  \/ op = "^"  /\ v[1] = w[1] /\ Compare(v, w) >= 0
  \/ op = "~"  /\ v[1] = w[1] /\ v[2] = w[2] /\ v[3] >= w[3]
  \/ op = ">=" /\ Compare(v, w) >= 0

-----------------------------------------------------------------------------
(***************************************************************************)
(* What both must decide alike.                                            *)
(***************************************************************************)

\* The order of versions, stated without arithmetic on the parts.
Before(a, b) == \E i \in Parts : a[i] < b[i] /\ \A j \in 1 .. i - 1 : a[j] = b[j]

(***************************************************************************)
(* On complete versions the two matchers give the same answer, with one    *)
(* exception: ~ of package.c does not look at the patch number and accepts *)
(* more.  Both order versions lexicographically, and a text without the    *)
(* three numbers is the only one whose answer is left to chance.           *)
(***************************************************************************)
MatchersAgree ==
  \A v, w \in Complete :
    /\ \A op \in {"^", ">="} : Answers(op, v, w) = {SemverSatisfies(v, op, w)}
    /\ SemverSatisfies(v, "~", w) => Answers("~", v, w) = {TRUE}
    /\ Matches("<", v, w) = Before(v, w)
    /\ Matches(">", v, w) = Before(w, v)
    /\ SemverSatisfies(v, "=", w) = (v = w)
    /\ \A op \in RangeOps, cut \in {1, 2} :
          Matches(op, v, w) \in Answers(op, SubSeq(v, 1, cut), w)
=============================================================================
