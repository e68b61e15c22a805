------------------------------- MODULE Wiring -------------------------------
(***************************************************************************)
(* The ledger the service is built on (config.ts, wiring.ts): in memory,   *)
(* or Canton's with a fetched or a given token, chosen once by the         *)
(* environment it starts in.                                               *)
(***************************************************************************)
EXTENDS MockLedger, TokenProvider

VARIABLE source     \* config.auth.source

wiringVars == <<source, mockLedgerVars, tokenVars>>

\* The first of these that is set decides; the process does not start without.
ResolveAuth(env) ==
  IF "DARK_POOL_MOCK" \in env THEN {"mock"}
  ELSE IF "CANTON_BACKEND_TOKEN" \in env THEN {"static"}
  ELSE IF "FIVENORTH_CLIENT_SECRET" \in env THEN {"m2m"} ELSE {}

Environments ==
  SUBSET {"DARK_POOL_MOCK", "CANTON_BACKEND_TOKEN", "FIVENORTH_CLIENT_SECRET"}

WiringInit ==
  /\ MockLedgerInit /\ TokenInit
  /\ \E env \in Environments : source \in ResolveAuth(env)

\* A static token has no state.
WiringNext ==
  /\ UNCHANGED source
  /\ \/ source = "mock" /\ MockLedgerNext /\ UNCHANGED tokenVars
     \/ source = "m2m" /\ TokenNext /\ UNCHANGED mockLedgerVars

WiringSpec == WiringInit /\ [][WiringNext]_wiringVars

=============================================================================
