-------------------------------- MODULE Money --------------------------------
(***************************************************************************)
(* Amounts.  Clients name amounts in currency units with a fraction, Stripe *)
(* counts cents.  Amounts of clients are in mills (a thousandth of a unit)  *)
(* so that fractions of a cent exist; one half-way between two cents is not *)
(* enumerated by the configurations: there the binary fraction decides.     *)
(* Every endpoint converts once, each in another layer.                     *)
(***************************************************************************)
EXTENDS Integers, Sequences

CONSTANT NoAmount      \* an amount that is absent

ASSUME MoneyAssumption == NoAmount \notin Int

\* Math.round(amount * 100)
Rounded(mills) == (mills + 5) \div 10

\* reduce((sum, amount) => sum + amount, 0)
SumOf(amounts) ==
  LET upTo[k \in 0 .. Len(amounts)] == IF k = 0 THEN 0 ELSE upTo[k - 1] + amounts[k]
  IN upTo[Len(amounts)]

\* The cents are those of the amount that was asked for.
IsExact(cents, mills) == 10 * cents - mills \in -4 .. 5
=============================================================================
