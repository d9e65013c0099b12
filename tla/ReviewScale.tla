----------------------------- MODULE ReviewScale -----------------------------
(***************************************************************************)
(* The arithmetic evals/pairwise_review.py does with review scores.  A     *)
(* score of v points is the double nearest to v/5, so that differences of  *)
(* scores are not whole points: <<n, e>> stands for (n + e / 2^55) / 5,    *)
(* where n counts fifths and e is what rounding has added.                 *)
(***************************************************************************)
EXTENDS Integers

Points == 1 .. 5

(* Doubles of the size of n fifths are 5 * Grid(n, e) units of e apart.    *)
Under(n, e, m) == n < m \/ (n = m /\ e < 0)
Grid(n, e) ==
    CASE n <= 1 -> 1
      [] n = 2 -> 2
      [] n > 2 /\ Under(n, e, 5) -> 4
      [] OTHER -> 8

(* n fifths and e units is a double; and one whose last bit is zero.       *)
IsDouble(n, e, g) == e % g = 0 /\ (e - 2 * n) % 5 = 0
IsEven(n, e, g) == IsDouble(n, e, 2 * g)

(* To the nearest double, and to the even one of two that are as near.     *)
Nearest(n, e) ==
    LET g == Grid(n, e)
        doubles == {d \in (e - 5 * g) .. (e + 5 * g) : IsDouble(n, d, g)}
        Distance(d) == IF d < e THEN e - d ELSE d - e
    IN CHOOSE d \in doubles :
        \A other \in doubles \ {d} :
            \/ Distance(d) < Distance(other)
            \/ Distance(d) = Distance(other) /\ IsEven(n, d, g)

(* A sum or difference as it is stored.                                    *)
Rounded(n, e) ==
    CASE n = 0 -> <<n, e>>
      [] n > 0 -> <<n, Nearest(n, e)>>
      [] n < 0 -> <<n, -Nearest(-n, -e)>>

Fifth == [v \in Points |-> Rounded(v, 0)]
Minus(x, y) == Rounded(x[1] - y[1], x[2] - y[2])
Above(x, y) == x[1] > y[1] \/ (x[1] = y[1] /\ x[2] > y[2])

(* maximum_dimension_delta_spread: the double 0.2.                         *)
Threshold == Fifth[1]

(* What a candidate gains over its baseline, for every pair of scores.     *)
Delta == [c \in Points, b \in Points |-> Minus(Fifth[c], Fifth[b])]

=============================================================================
