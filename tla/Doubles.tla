------------------------------- MODULE Doubles ------------------------------
(***************************************************************************)
(* JavaScript's numbers as the browser's market uses them: IEEE 754        *)
(* doubles, each operation rounded to the nearest, ties to even.           *)
(*                                                                         *)
(* A double is an integer number of units, One of them to 1; the unit is   *)
(* the smallest distance between two doubles that the model tells apart.   *)
(* Neighbouring doubles are farther apart the larger they are: a multiple  *)
(* of g is a double while it is below g * Mantissas.  Amounts and prices   *)
(* and, far larger, counts of ticks have their spacings; above the last    *)
(* one the doubles of the model no longer thin out, which bounds it.       *)
(***************************************************************************)
EXTENDS Integers, FiniteSets, FiniteSetsExt

CONSTANTS
  Mantissas,        \* 2^53
  One,              \* units of 1
  AmountSpacings,   \* bound: 1, 2, 4 ... up to that of the largest amount
  CountSpacings     \* bound: the same for the largest count of ticks

ASSUME DoublesAssumption ==
  /\ Mantissas \in Nat \ {0} /\ One \in Nat \ {0}
  /\ \A S \in {AmountSpacings, CountSpacings} :
       IsFiniteSet(S) /\ S # {} /\ S \subseteq Nat \ {0}

Size(x) == IF x < 0 THEN -x ELSE x

\* n / d to the nearest integer, ties to even.
Nearest(n, d) ==
  LET low == n \div d
      twice == 2 * (n % d)
  IN  IF twice < d \/ (twice = d /\ low % 2 = 0) THEN low ELSE low + 1

\* How far apart doubles of the size of n / d are.
Spacing(n, d, S) ==
  LET reach == {g \in S : Size(n) < g * Mantissas * d}
  IN  IF reach = {} THEN Max(S) ELSE Min(reach)

\* The double nearest to n / d units.
Double(n, d, S) == LET g == Spacing(n, d, S) IN g * Nearest(n, d * g)

Amount(n, d) == Double(n, d, AmountSpacings)
Count(n) == Double(n, 1, CountSpacings)

=============================================================================
