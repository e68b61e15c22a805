---------------------------- MODULE DarkPoolMath ----------------------------
(***************************************************************************)
(* The pure arithmetic of the dark pool (contracts/daml/dark-pool/daml/    *)
(* DarkPool/Math.daml).  A Decimal is an integer number of ticks, one tick *)
(* being 10^-10; the exact scale-20 results that Daml's Numeric.mul and    *)
(* Numeric.div produce are integer numbers of 1/Scale ticks.  Scale is     *)
(* 10^10 in the code; TLC takes a small even number.                       *)
(***************************************************************************)
EXTENDS Integers

CONSTANT Scale   \* ticks per unit

\* 10^10 is positive and even, and nothing else about it matters.
ASSUME ScaleAssumption == Scale \in Nat /\ Scale > 0 /\ Scale % 2 = 0

Side == {"Buy", "Sell"}

Min2(a, b) == IF a <= b THEN a ELSE b

\* Numeric.castAndRound: a scale-20 value to the nearest tick, ties to even.
HalfEven(x) ==
  LET k == x \div Scale
      r == x % Scale
  IN  IF 2 * r < Scale \/ (2 * r = Scale /\ k % 2 = 0) THEN k ELSE k + 1

\* Mutant: without the step down.
RoundTo10(x) == HalfEven(x)

\* Round half-even, then step one tick down if that overshot.
FloorTo10(x) ==
  LET approx == HalfEven(x)
  IN  IF approx * Scale > x THEN approx - 1 ELSE approx

MidpointPrice(buyLimit, sellLimit) ==
  FloorTo10(((buyLimit + sellLimit) * Scale) \div 2)

QuoteAmount(baseQty, price) == FloorTo10(baseQty * price)

Crosses(buyLimit, sellLimit) == buyLimit >= sellLimit

FillQuantity(buyQty, sellQty) == Min2(buyQty, sellQty)

\* The tail that a partial fill leaves resting: 0 stands for None (a tail
\* below the order's own minFill is dropped; minFill is positive, so a
\* remainder that rests is never 0).
RemainderQuantity(quantity, fillQty, minFill) ==
  LET rest == quantity - fillQty
  IN  IF rest >= minFill THEN rest ELSE 0

SentAmount(side, fillQty, execPrice) ==
  IF side = "Buy" THEN QuoteAmount(fillQty, execPrice) ELSE fillQty

BuyFundingTarget(quantity, limitPrice) == QuoteAmount(quantity, limitPrice)

\* The most the order can ever have to send: what DarkPool_PlaceOrder requires
\* the declared holdings to cover.
Required(side, quantity, limitPrice) ==
  IF side = "Buy" THEN BuyFundingTarget(quantity, limitPrice) ELSE quantity

PriceWithinLimit(side, execPrice, limitPrice) ==
  IF side = "Buy" THEN execPrice <= limitPrice ELSE execPrice >= limitPrice

=============================================================================
