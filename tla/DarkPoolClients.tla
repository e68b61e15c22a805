--------------------------- MODULE DarkPoolClients --------------------------
(***************************************************************************)
(* DarkPoolProvider: the client the page works with, the live service's or *)
(* the browser's own market, chosen once by the build's configuration.     *)
(***************************************************************************)
EXTENDS TraderClient, MockMarket

VARIABLE client

clientsVars == <<client, clientVars, mockVars>>

ClientsInit ==
  /\ MockInit
  /\ \/ client = "http" /\ ClientInit
     \/ client = "mock" /\ NoClient

ClientsNext ==
  /\ UNCHANGED client
  /\ \/ client = "http" /\ ClientNext /\ UNCHANGED mockVars
     \/ client = "mock" /\ MockNext /\ UNCHANGED clientVars

ClientsSpec == ClientsInit /\ [][ClientsNext]_clientsVars /\ ClientFairness

=============================================================================
