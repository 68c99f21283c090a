----------------------------- MODULE MCBackoff ------------------------------
(***************************************************************************)
(* Backoff with words of 8 bits: every base and maximum up to a bound, and *)
(* more attempts than a word has bits.                                     *)
(***************************************************************************)
EXTENDS Backoff

\* n without its factors of two.
OddPart(n) == CHOOSE o \in 1 .. n : o % 2 = 1 /\ \E z \in 0 .. Width : n = o * 2^z

\* The odd part of the base times the maximum fits a duration.  A shift that
\* wraps is then a multiple of a power of two that reaches the maximum, so that
\* none is taken for a delay below it.  So it is with the defaults of 500ms (odd
\* part 1953125ns) and 30s: the product is 5.9e16, and a duration goes to 9.2e18.
Usual == {c \in [base : -1..20, max : -1..20, maxAttempts : {0, 14}] :
            OddPart(OrDefault(c.base, DefaultBase)) * OrDefault(c.max, DefaultMax) <= 2^(Width - 1)}

\* A base whose odd part is too large for the maximum.
Long == [base : {17}, max : {20}, maxAttempts : {6}]
=============================================================================
