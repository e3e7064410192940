-------------------------- MODULE TemplatePointOrder --------------------------
(***************************************************************************)
(* The orderings of src/MathLib/TemplatePoint.h on DIM-dimensional points: *)
(* operator< (exact lexicographic) and lessEq (lexicographic with a        *)
(* relative and absolute tolerance eps).  Coordinates are integers and eps *)
(* is the rational EpsNum / EpsDen, so every comparison is exact.          *)
(* One step compares a pair of points and records both results.  A point  *)
(* is the memory lessEq may read: _x, and after it (DIM < 3) whatever     *)
(* lies there, which is undefined and so any coordinate value.             *)
(***************************************************************************)
EXTENDS Integers

CONSTANTS
  Coords,   \* the coordinate values
  EpsNum,   \* eps = EpsNum / EpsDen
  EpsDen,
  DIM       \* the template parameter DIM (default 3)

ASSUME EpsNum \in Nat /\ EpsDen \in Nat \ {0} /\ DIM \in 1 .. 3

Dims == 0 .. DIM - 1
(* lessEq tests a[0], a[1] and a[2] whatever DIM is (lines 146, 153, 160). *)
LessEqDims == 3
Cells == 0 .. LessEqDims - 1
Points == [Cells -> Coords]

Abs(v) == IF v < 0 THEN -v ELSE v
MinOf(u, v) == IF u <= v THEN u ELSE v

(* operator< (lines 114-131): the first coordinate that differs decides.  *)
RECURSIVE LessFrom(_, _, _)
LessFrom(a, b, i) ==
  IF i = DIM THEN FALSE
  ELSE IF a[i] > b[i] THEN FALSE
  ELSE IF a[i] < b[i] THEN TRUE
  ELSE LessFrom(a, b, i + 1)

(* Mutant: the a[i] > b[i] early return dropped.                           *)
LessThanNoEarlyExit(a, b) == \E i \in Dims : a[i] < b[i]

LessThan(a, b) == LessFrom(a, b, 0)

(* |x - y| > eps * ref and |x - y| > eps: the coordinates differ.          *)
Differ(x, y, ref) ==
  /\ EpsDen * Abs(x - y) > EpsNum * ref
  /\ EpsDen * Abs(x - y) > EpsNum

(* The tolerance each dimension of lessEq uses: min(|a0|, |b0|) for the   *)
(* first, |a[k]| for the others (lines 146, 153, 160).                     *)
RefOf(a, b, k) == IF k = 0 THEN MinOf(Abs(a[0]), Abs(b[0])) ELSE Abs(a[k])

(* Mutant: the unrolled test of the third dimension copied from the       *)
(* second one and left comparing a[1] and b[1].                           *)
LessEqThirdTestsSecond(a, b) ==
  LET decide[k \in 0 .. LessEqDims] ==
        IF k = LessEqDims THEN TRUE
        ELSE LET t == IF k = 2 THEN 1 ELSE k IN
             IF Differ(a[t], b[t], RefOf(a, b, t)) THEN a[k] <= b[k]
             ELSE decide[k + 1]
  IN  decide[0]

(* The coordinates lessEq reads: every one up to the first that differs,  *)
(* the third when none does.                                               *)
LessEqIndices(a, b) ==
  LET last[k \in Cells] ==
        IF k = LessEqDims - 1 \/ Differ(a[k], b[k], RefOf(a, b, k)) THEN k
        ELSE last[k + 1]
  IN  0 .. last[0]

(* lessEq (lines 141-170).                                                 *)
lessEq(a, b) ==
  LET decide[k \in 0 .. LessEqDims] ==
        IF k = LessEqDims THEN TRUE
        ELSE IF Differ(a[k], b[k], RefOf(a, b, k)) THEN a[k] <= b[k]
        ELSE decide[k + 1]
  IN  decide[0]

VARIABLES p, q, done, lt, le

Init ==
  /\ p \in Points
  /\ q \in Points
  /\ done = FALSE
  /\ lt = FALSE
  /\ le = [a |-> FALSE, b |-> FALSE]

(* Compare the pair with both orderings.                                   *)
Compare ==
  /\ done' = TRUE
  /\ lt' = LessThan(p, q)
  /\ le' = [a |-> lessEq(p, q), b |-> lessEq(q, p)]
  /\ UNCHANGED <<p, q>>

Next == Compare

Spec == Init /\ [][Next]_<<p, q, done, lt, le>>

-----------------------------------------------------------------------------
(* Reference: exact lexicographic order, by the first differing index.    *)
LexLess(a, b) ==
  \E i \in Dims : /\ \A j \in 0 .. i - 1 : a[j] = b[j]
                  /\ a[i] < b[i]

(* operator< is the exact lexicographic order on every pair of points.    *)
LessThanIsLexicographic == done => (lt <=> LexLess(p, q))

(* lessEq is total: of two points one is always lessEq the other; std     *)
(* algorithms that sort with it rely on that.                              *)
LessEqTotal == done => (le.a \/ le.b)

(* Two coordinates are outside each other's tolerance band whichever of   *)
(* them the relative tolerance is taken from, or they are equal.          *)
Apart(x, y) ==
  x = y \/ (Differ(x, y, Abs(x)) /\ Differ(x, y, Abs(y)))

(* Away from the tolerance band lessEq is the exact lexicographic <=: the *)
(* tolerance may only merge nearly equal coordinates, never reorder points *)
(* whose every coordinate pair is clearly equal or clearly apart.         *)
LessEqIsOrderAwayFromTolerance ==
  done /\ (\A k \in Dims : Apart(p[k], q[k]))
    => /\ le.a = (LexLess(p, q) \/ p = q)
       /\ le.b = (LexLess(q, p) \/ p = q)

(* operator[] asserts idx < DIM (line 59): lessEq, a template over DIM,  *)
(* reads only coordinates the points have.                                 *)
LessEqReadsWithinPoint ==
  done => LessEqIndices(p, q) \cup LessEqIndices(q, p) \subseteq Dims

=============================================================================
