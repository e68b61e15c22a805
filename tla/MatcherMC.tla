----------------------------- MODULE MatcherMC ------------------------------
(***************************************************************************)
(* Matcher for TLC: three traders, so that buys compete for sells and one  *)
(* trader is on both sides of the book.                                    *)
(***************************************************************************)
EXTENDS Matcher, TLC

CONSTANTS alice, bob, carol, base, quote

Minted(owner, instrument, amount) ==
  [owner |-> owner, instrument |-> instrument, amount |-> amount]

MCGenesis == <<Minted(alice, quote, 3), Minted(alice, quote, 1), Minted(bob, base, 2),
               Minted(carol, quote, 2), Minted(carol, base, 3)>>

MCMarket == [name |-> "pool", base |-> base, quote |-> quote]
MCOther  == [name |-> "pool", base |-> quote, quote |-> base]

MCMarkets == {MCMarket, MCOther}

MCTerms(side, quantity, limitPrice, minFill, expiresAt) ==
  [side |-> side, quantity |-> quantity, limitPrice |-> limitPrice,
   minFill |-> minFill, expiresAt |-> expiresAt]

\* Buys at two prices and sells at two prices, so that a quote and a midpoint
\* round; a sell that the rest of a partly filled buy is too small for; an
\* order that expires.
MCOrderTerms ==
  {MCTerms("Buy", 2, 2, 1, 1), MCTerms("Buy", 2, 3, 1, NoExpiry),
   MCTerms("Sell", 1, 3, 1, NoExpiry), MCTerms("Sell", 2, 2, 2, NoExpiry)}

=============================================================================
