------------------------------- MODULE Money -------------------------------
(***************************************************************************)
(* Amounts are Decimals with two places: here, whole cents.                 *)
(***************************************************************************)
EXTENDS Integers

\* Decimal.quantize of n / d: to the nearest, a half to the even neighbour.
Quantized(n, d) ==
    LET q == n \div d
        r == n % d
    IN IF 2 * r > d \/ (2 * r = d /\ q % 2 = 1) THEN q + 1 ELSE q
=============================================================================
