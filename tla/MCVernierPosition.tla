----------------------------- MODULE MCVernierPosition -----------------------------
(* A joint that turns through the place where every count wraps, or through others.   *)
EXTENDS VernierPosition
Forwards == {0, 1}
Zero == {0}
AroundZero == {Round - 2, Round - 1, 0, 1, 2}
Elsewhere == 6..9
====================================================================================
