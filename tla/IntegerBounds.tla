---------------------------- MODULE IntegerBounds ----------------------------
(* The comparison helpers of <algorithm> that the modelled code calls by      *)
(* name: std::min, std::max and std::clamp on integers.                       *)
EXTENDS Integers

Lesser(a, b)  == IF a <= b THEN a ELSE b
Greater(a, b) == IF a >= b THEN a ELSE b

\* std::clamp(v, low, high); the code only calls it with low <= high.
Clamp(v, low, high) == Lesser(Greater(v, low), high)
=============================================================================
