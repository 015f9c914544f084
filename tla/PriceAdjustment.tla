-------------------------- MODULE PriceAdjustment --------------------------
(***************************************************************************)
(* The arithmetic of a price adjustment (price-adjustment.ts) in integers: *)
(* percentages are hundredths of a percent, as fine as the API takes them. *)
(*                                                                         *)
(* The code computes in doubles. Their errors are far smaller than the     *)
(* distance of any other quotient from a half, so that they tell only in   *)
(* exact halves: Math.round takes a half up, unless the double that stands *)
(* for it came out below (110 cents and 15 %: 126.49999999999999).         *)
(***************************************************************************)
EXTENDS Integers

CONSTANT Dropped   \* <<price, multiplier, increment>> whose half comes out below

\* ROUNDING_INCREMENT_CENTS
roundingIncrement == [CENT |-> 1, PESO |-> 100, FIVE_PESOS |-> 500, TEN_PESOS |-> 1000]
Roundings == DOMAIN roundingIncrement

multiplier(direction, percentage) ==
    IF direction = "INCREASE" THEN 10000 + percentage ELSE 10000 - percentage

\* Math.round(a / b), where a half that came out below is rounded down
isHalf(a, b) == (2 * a + b) % (2 * b) = 0
roundedQuotient(a, b, double) ==
    (2 * a + b) \div (2 * b) - IF isHalf(a, b) /\ double \in Dropped THEN 1 ELSE 0

atLeastACent_Zero(cents) == cents
atLeastACent(cents) == IF cents < 1 THEN 1 ELSE cents

calculateAdjustedPriceCents(price, direction, percentage, rounding) ==
    LET increment == roundingIncrement[rounding]
        factor == multiplier(direction, percentage)
    IN  atLeastACent(roundedQuotient(price * factor, 10000 * increment,
                                     <<price, factor, increment>>) * increment)

\* What the DTO and validatePercentagePriceAdjustment let through.
validPercentage(direction, percentage) ==
    /\ percentage \in 1..50000
    /\ direction = "DECREASE" => percentage < 10000
=============================================================================
