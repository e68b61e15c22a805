--------------------------- MODULE VenueServiceMC ---------------------------
(***************************************************************************)
(* VenueService for TLC.                                                   *)
(***************************************************************************)
EXTENDS VenueService, TLC

CONSTANTS alice, bob, base, quote, p1, p2, h1

Minted(owner, instrument, amount) ==
  [owner |-> owner, instrument |-> instrument, amount |-> amount]

MCMarket == [name |-> "pool", base |-> base, quote |-> quote]
MCMarkets == {MCMarket}

MCTerms(side, quantity, limitPrice, minFill, expiresAt) ==
  [side |-> side, quantity |-> quantity, limitPrice |-> limitPrice,
   minFill |-> minFill, expiresAt |-> expiresAt]

\* One buyer and one seller; the buy expires.
MCGenesis == <<Minted(alice, quote, 2), Minted(bob, base, 2)>>

MCOrderTerms ==
  {MCTerms("Buy", 1, 2, 1, 1), MCTerms("Sell", 1, 2, 1, NoExpiry)}

\* Holdings that just fund one order each.
MCOneEach == <<Minted(alice, quote, 1), Minted(bob, base, 1)>>

MCLongTerms ==
  {MCTerms("Buy", 1, 2, 1, NoExpiry), MCTerms("Sell", 1, 2, 1, NoExpiry)}

\* Two invocations of runPass are interchangeable.
PassSymmetry == Permutations(Passes)

=============================================================================
