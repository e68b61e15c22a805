----------------------------- MODULE DarkPoolMC -----------------------------
(***************************************************************************)
(* DarkPool for TLC.  A unit is two ticks, so products of odd amounts and  *)
(* midpoints of odd sums are rounded.                                      *)
(***************************************************************************)
EXTENDS DarkPool, TLC

CONSTANTS alice, bob, base, quote

Minted(owner, instrument, amount) ==
  [owner |-> owner, instrument |-> instrument, amount |-> amount]

MCMarket == [name |-> "pool", base |-> base, quote |-> quote]
MCOther  == [name |-> "pool", base |-> quote, quote |-> base]
MCMarkets == {MCMarket, MCOther}

MCTerms(side, quantity, limitPrice, minFill, expiresAt) ==
  [side |-> side, quantity |-> quantity, limitPrice |-> limitPrice,
   minFill |-> minFill, expiresAt |-> expiresAt]

MCFewHoldings == <<Minted(alice, quote, 4), Minted(bob, base, 2)>>

MCFewTerms ==
  {MCTerms("Buy", 2, 3, 1, 1), MCTerms("Sell", 2, 1, 1, NoExpiry)}

MCDirectTerms == {MCTerms("Buy", 1, 3, 1, NoExpiry)}

=============================================================================
