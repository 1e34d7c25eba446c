------------------------------- MODULE Capacity -------------------------------
(***************************************************************************)
(* Capacity arithmetic (capacity.cpp, checked.hpp): amounts are unsigned   *)
(* integers of a fixed width, ratios are integers in units of 1/kScale.    *)
(* The width and the scale are parameters so that the overflow paths are   *)
(* within reach of a small instance; the code has 2^64 - 1 and 10000.      *)
(***************************************************************************)
EXTENDS Naturals

CONSTANTS kAmountMax,   \* largest representable Amount
          kScale        \* basis points per whole

ASSUME CapacityAssumption ==
    /\ kAmountMax \in Nat
    /\ kScale \in Nat \ {0}

Amount == 0 .. kAmountMax

max_amount(a, b) == IF a > b THEN a ELSE b

min_amount(a, b) == IF a > b THEN b ELSE a

saturating_add(a, b) == IF a > kAmountMax - b THEN kAmountMax ELSE a + b

\* A faulty fraction_bps: the part below a whole kScale is dropped.
fraction_bps_WholeOnly(value, basis_points) ==
    LET whole == value \div kScale
    IN  IF basis_points = 0 \/ value = 0 THEN 0
        ELSE IF whole > kAmountMax \div basis_points THEN kAmountMax
        ELSE whole * basis_points

\* value * basis_points / kScale without a wider intermediate: the whole and
\* the remaining part are scaled apart, and every overflow saturates.
fraction_bps(value, basis_points) ==
    LET whole     == value \div kScale
        remainder == value % kScale
    IN  IF basis_points = 0 \/ value = 0 THEN 0
        ELSE IF whole > kAmountMax \div basis_points THEN kAmountMax
        ELSE IF remainder * basis_points > kAmountMax THEN kAmountMax
        ELSE saturating_add(whole * basis_points,
                            (remainder * basis_points) \div kScale)

\* What a ratio above one adds on top of the usable amount.
oversubscription_extension(usable, ratio_bps) ==
    IF ratio_bps <= kScale THEN 0 ELSE fraction_bps(usable, ratio_bps - kScale)
==============================================================================
