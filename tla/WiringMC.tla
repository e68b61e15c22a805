------------------------------ MODULE WiringMC ------------------------------
(***************************************************************************)
(* Wiring for TLC: two traders, one issue of each instrument.              *)
(***************************************************************************)
EXTENDS Wiring

CONSTANTS alice, bob, base, quote

MCMarket == [name |-> "pool", base |-> base, quote |-> quote]
MCMarkets == {MCMarket}
MCGenesis == << >>

MCTerms(side, quantity, limitPrice, minFill, expiresAt) ==
  [side |-> side, quantity |-> quantity, limitPrice |-> limitPrice,
   minFill |-> minFill, expiresAt |-> expiresAt]

\* One holding funds two buys; it pays for both at the lower midpoint and for
\* one at the higher.  A sell expires.
MCOrderTerms == {MCTerms("Buy", 1, 4, 1, NoExpiry), MCTerms("Sell", 1, 1, 1, NoExpiry),
                 MCTerms("Sell", 1, 4, 1, 1)}

=============================================================================
