------------------------- MODULE MCPriceAdjustment -------------------------
(***************************************************************************)
(* price-adjustment.ts on a table of inputs: every state is one input, and *)
(* the properties compare what the code computes with what an adjustment   *)
(* by percentage is.                                                       *)
(***************************************************************************)
EXTENDS PriceAdjustment

CONSTANTS Prices, Percentages

VARIABLES price, direction, percentage, rounding

vars == <<price, direction, percentage, rounding>>

Init ==
    /\ price \in Prices /\ rounding \in Roundings
    /\ direction \in {"INCREASE", "DECREASE"} /\ percentage \in Percentages
    /\ validPercentage(direction, percentage)

\* The next price of the catalogue, adjusted alike.
Next ==
    /\ \E other \in Prices : other > price /\ price' = other
    /\ UNCHANGED <<direction, percentage, rounding>>

Spec == Init /\ [][Next]_vars

Adjusted(p) == calculateAdjustedPriceCents(p, direction, percentage, rounding)

\* 'nunca genera un precio menor a un centavo' (price-adjustment.spec.ts:46),
\* also where the price is rounded away.
AtLeastACent == Adjusted(price) >= 1

\* One adjustment of a whole line keeps the order of its prices: what was
\* dearer does not get cheaper than what it was dearer than.
KeepsOrder == price' > price => Adjusted(price') >= Adjusted(price)

\* 'Vas a aumentar' (admin-price-manager.tsx:275): an increase makes nothing
\* cheaper.
IncreaseNeverLowers == direction = "INCREASE" => Adjusted(price) >= price
=============================================================================
