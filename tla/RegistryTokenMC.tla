-------------------------- MODULE RegistryTokenMC --------------------------
(***************************************************************************)
(* RegistryToken for TLC: two traders, two instruments.                    *)
(***************************************************************************)
EXTENDS RegistryToken, TLC

CONSTANTS alice, bob, base, quote

Minted(owner, instrument, amount) ==
  [owner |-> owner, instrument |-> instrument, amount |-> amount]

MCGenesis ==
  <<Minted(alice, quote, 2), Minted(alice, quote, 1), Minted(bob, base, 2)>>

=============================================================================
