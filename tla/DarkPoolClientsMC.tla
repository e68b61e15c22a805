-------------------------- MODULE DarkPoolClientsMC -------------------------
(***************************************************************************)
(* DarkPoolClients for TLC: one trader, one simulated counterparty.        *)
(***************************************************************************)
EXTENDS DarkPoolClients

CONSTANTS alice, bob

\* Terms in ticks; prices of 13 ticks are 1.
MCTerms(side, quantity, limitPrice, minFill) ==
  [side |-> side, quantity |-> Decimal(quantity), limitPrice |-> Decimal(limitPrice),
   minFill |-> Decimal(minFill)]

MCDemoTerms == <<MCTerms("Buy", 6, 10, 4), MCTerms("Sell", 5, 17, 4)>>

\* A buy whose parts need more than the whole; a sell whose remainder is too
\* small to rest, at a limit that the floor of a midpoint falls short of.
MCHumanTerms == {MCTerms("Buy", 7, 13, 3), MCTerms("Sell", 9, 14, 5)}

MCSimTerms == {MCTerms("Sell", 4, 12, 3), MCTerms("Buy", 6, 15, 3), MCTerms("Buy", 5, 14, 6)}

MCSeedOrders == {[id |-> 1, trader |-> bob, side |-> "Buy", quantity |-> Decimal(6),
                  limitPrice |-> Decimal(14), minFill |-> Decimal(4)]}

=============================================================================
