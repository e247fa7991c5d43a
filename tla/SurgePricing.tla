---------------------------- MODULE SurgePricing ----------------------------
(***************************************************************************)
(* The dynamic pricing engine of the product service                       *)
(* (apps/product-service/src/product-service.service.ts, lines 51-64): the *)
(* price of the next sale from the stock that is left.  A factor is kept   *)
(* as a percentage, so that a base price in rupees times a factor is a     *)
(* price in paise and no fraction is needed.                               *)
(***************************************************************************)
EXTENDS Integers

\* What the engine, and the gateway, put in the place of a key that Redis
\* does not have: `|| '1000'`, `|| '500'`.
DefaultInitialStock == 1000
DefaultBasePrice == 500

\* Strictly more than `percent` per cent of the initial stock has been sold.
SoldMoreThan(percent, initial, stock) ==
  (initial - stock) * 100 > percent * initial

\* Slip: three ifs without else, so that the factors multiply.
CompoundPercent(initial, stock) ==
  IF SoldMoreThan(85, initial, stock) THEN 224
  ELSE IF SoldMoreThan(60, initial, stock) THEN 149
  ELSE IF SoldMoreThan(30, initial, stock) THEN 115
  ELSE 100

\* The factor of the if / else-if ladder.
SurgePercent(initial, stock) ==
  IF SoldMoreThan(85, initial, stock) THEN 150
  ELSE IF SoldMoreThan(60, initial, stock) THEN 130
  ELSE IF SoldMoreThan(30, initial, stock) THEN 115
  ELSE 100

\* finalSurgePrice, in paise, of a base price in rupees.
SurgePrice(initial, stock, base) == base * SurgePercent(initial, stock)
=============================================================================
