----------------------------- MODULE ConnectKit -----------------------------
(***************************************************************************)
(* The wallet connection (canton-connect-kit) and the header that drives   *)
(* it (frontend ConnectionBar).  connect() awaits the wallet several times *)
(* and disconnect() does not wait for it, so calls overlap; the listeners  *)
(* of a client react to the wallet for as long as they are attached.       *)
(*                                                                         *)
(* The kit is a library: with host = "any" its consumer calls connect and  *)
(* disconnect whenever they do not return at once; with host = "app" the   *)
(* header does, and its buttons say when.  An attempt is one call of       *)
(* connect that passed its guard, and names the DappClient it makes.  What *)
(* the wallet keeps of a session is outside, as is the last transaction.   *)
(***************************************************************************)
EXTENDS Naturals, FiniteSets

CONSTANTS
  Attempts,     \* the calls of connect; bounds their number
  Accounts,     \* the parties a wallet may offer
  None,         \* undefined
  Hosts         \* the consumers considered, of "app" and "any"

VARIABLES
  host,
  attempt,      \* [Attempts -> where the call is, and its mode]
  kit,          \* the React state of ConnectKitProvider
  teardownRef,  \* the client whose listeners the stored teardown detaches
  listening,    \* the clients with listeners attached
  late,         \* clients with an accountsHandler awaiting listAccounts
  bridges,      \* extension providers built; the last one is cachedProvider
  bar           \* ConnectionBar's state, its localStorage key and `wants',
                \* history: what the user last chose

vars == <<host, attempt, kit, teardownRef, listening, late, bridges, bar>>

ASSUME ConnectAssumption ==
  None \notin Attempts \cup Accounts /\ Hosts \subseteq {"app", "any"}

Waiting == {"detect", "request", "pair", "approve", "accounts", "reject"}
Modes == {"extension", "walletconnect", "preferred"}
Idle == [pc |-> "idle", mode |-> "extension"]

InitialKit == [status |-> "idle", client |-> None, party |-> None,
               isLocked |-> FALSE, pairingUri |-> FALSE, connectError |-> FALSE]

InitialBar == [reconnecting |-> FALSE, connectToastPending |-> FALSE,
               key |-> FALSE, wants |-> "out"]

Init ==
  /\ host \in Hosts
  /\ attempt = [a \in Attempts |-> Idle]
  /\ kit = InitialKit /\ bar = InitialBar
  /\ teardownRef = None /\ listening = {} /\ late = {} /\ bridges = 0

Goto(a, pc) == attempt' = [attempt EXCEPT ![a].pc = pc]

\* ConnectionBar's effect on [party]: an armed toast fires.
Landed(b, p) == IF p = None THEN b ELSE [b EXCEPT !.connectToastPending = FALSE]

-----------------------------------------------------------------------------
\* connect()

\* The first await: the extension unless its provider is cached.
Begin(a, mode, k) ==
  /\ k.status # "connecting" /\ attempt[a].pc = "idle"
  /\ attempt' = [attempt EXCEPT ![a] =
       [pc |-> CASE mode = "walletconnect" -> "pair"
                 [] bridges > 0 -> "request" [] OTHER -> "detect",
        mode |-> mode]]
  /\ kit' = [k EXCEPT !.status = "connecting", !.connectError = FALSE,
                      !.pairingUri = FALSE]

\* A provider is built and bridged to the page's messages, whether or not
\* another call has built one meanwhile.
Detected(a) ==
  /\ attempt[a].pc = "detect"
  /\ Goto(a, "request")
  /\ bridges' = bridges + 1
  /\ UNCHANGED <<host, kit, teardownRef, listening, late, bar>>

FallBack(a) ==
  /\ attempt[a].pc = "detect" /\ attempt[a].mode = "preferred"
  /\ Goto(a, "pair")
  /\ UNCHANGED <<host, kit, teardownRef, listening, late, bridges, bar>>

\* WalletConnect has a pairing to show, whoever is still interested.
Pairing(a) ==
  /\ attempt[a].pc = "pair"
  /\ Goto(a, "approve")
  /\ kit' = [kit EXCEPT !.pairingUri = TRUE]
  /\ UNCHANGED <<host, teardownRef, listening, late, bridges, bar>>

\* The extension's wallet, or the paired one, accepts the connection.
Accepted(a) ==
  /\ attempt[a].pc \in {"request", "approve"}
  /\ Goto(a, "accounts")
  /\ UNCHANGED <<host, kit, teardownRef, listening, late, bridges, bar>>

NoAccounts(a) ==
  /\ attempt[a].pc = "accounts"
  /\ Goto(a, "reject")
  /\ UNCHANGED <<host, kit, teardownRef, listening, late, bridges, bar>>

\* Mutant: wired if nothing is yet.
WiredOnce(a) == IF listening = {} THEN {a} ELSE listening

Wired(a) == listening \cup {a}

\* The rest of connect() and what its caller in the header does next.
Connected(a, p) ==
  /\ attempt[a].pc = "accounts"
  /\ Goto(a, "done")
  /\ teardownRef' = a
  /\ listening' = Wired(a)
  /\ kit' = [kit EXCEPT !.client = a, !.party = p, !.isLocked = FALSE,
                        !.status = "connected", !.pairingUri = FALSE]
  /\ bar' = IF host = "app"
            THEN [Landed(bar, p) EXCEPT !.reconnecting = FALSE, !.key = TRUE]
            ELSE bar
  /\ UNCHANGED <<host, late, bridges>>

\* Mutant: the error leaves the status.
FailsSilently(a) ==
  /\ attempt[a].pc \in Waiting
  /\ Goto(a, "done")
  /\ kit' = [kit EXCEPT !.connectError = TRUE]
  /\ UNCHANGED <<host, teardownRef, listening, late, bridges, bar>>

\* Any of the awaits throws: not detected, refused, no accounts, an error.
Fails(a) ==
  /\ attempt[a].pc \in Waiting
  /\ Goto(a, "done")
  /\ kit' = [kit EXCEPT !.connectError = TRUE, !.status = "disconnected"]
  /\ bar' = [bar EXCEPT !.reconnecting = FALSE, !.connectToastPending = FALSE,
                        !.key = @ /\ ~bar.reconnecting]
  /\ UNCHANGED <<host, teardownRef, listening, late, bridges>>

Answered(a) ==
  \/ Detected(a) \/ FallBack(a) \/ Pairing(a) \/ Accepted(a)
  \/ NoAccounts(a) \/ Fails(a)
  \/ \E p \in Accounts : Connected(a, p)

-----------------------------------------------------------------------------
\* disconnect(), the wallet's events, the page

\* Mutant: the listeners stay attached.
DisconnectListening ==
  /\ kit' = [InitialKit EXCEPT !.status = "disconnected"]
  /\ teardownRef' = None
  /\ UNCHANGED <<host, attempt, listening, late, bridges>>

\* Nothing of an attempt under way is cancelled.
Disconnect ==
  /\ kit' = [InitialKit EXCEPT !.status = "disconnected"]
  /\ listening' = listening \ {teardownRef}
  /\ teardownRef' = None
  /\ UNCHANGED <<host, attempt, late, bridges>>

\* accountsChanged with the accounts in it, or the answer of a late read.
SetParty(p) ==
  /\ kit' = [kit EXCEPT !.party = p]
  /\ bar' = Landed(bar, p)
  /\ UNCHANGED <<host, attempt, teardownRef, listening, bridges>>

AccountsChanged(c) ==
  /\ c \in listening
  /\ \/ late' = late \cup {c}
        /\ UNCHANGED <<host, attempt, kit, teardownRef, listening, bridges, bar>>
     \/ \E p \in Accounts \cup {None} : SetParty(p) /\ UNCHANGED late

LateAccounts(c) ==
  /\ c \in late
  /\ late' = late \ {c}
  /\ \/ \E p \in Accounts \cup {None} : SetParty(p)
     \/ UNCHANGED <<host, attempt, kit, teardownRef, listening, bridges, bar>>

\* statusChanged and connected.
StatusChanged(c) ==
  /\ c \in listening
  /\ \E locked \in BOOLEAN : kit' = [kit EXCEPT !.isLocked = locked]
  /\ UNCHANGED <<host, attempt, teardownRef, listening, late, bridges, bar>>

\* Mutant: the key is left in place.
OnDisconnectForgets ==
  /\ host = "app" /\ kit.status = "connected"
  /\ bar' = [bar EXCEPT !.connectToastPending = FALSE, !.wants = "out"]
  /\ Disconnect

\* The header and the hero offer to connect; both show a spinner instead while
\* reconnecting, and an account once connected.
OffersConnect == kit.status # "connected" /\ ~bar.reconnecting

OnConnect(a) ==
  /\ host = "app" /\ OffersConnect
  /\ Begin(a, "extension", kit)
  /\ bar' = [bar EXCEPT !.connectToastPending = TRUE, !.wants = "in"]
  /\ UNCHANGED <<host, teardownRef, listening, late, bridges>>

OnDisconnect ==
  /\ host = "app" /\ kit.status = "connected"
  /\ bar' = [bar EXCEPT !.connectToastPending = FALSE, !.key = FALSE,
                        !.wants = "out"]
  /\ Disconnect

ConsumerConnects(a, mode) ==
  /\ host = "any"
  /\ Begin(a, mode, kit)
  /\ UNCHANGED <<host, teardownRef, listening, late, bridges, bar>>

ConsumerDisconnects == host = "any" /\ Disconnect /\ UNCHANGED bar

\* The page is loaded anew: only localStorage is kept, and the header's mount
\* effect reconnects in the background if it finds its key there.
Reload(a) ==
  /\ attempt[a].pc = "idle"
  /\ LET gone == [b \in Attempts |-> IF attempt[b].pc = "idle" THEN Idle
                                     ELSE [attempt[b] EXCEPT !.pc = "done"]]
     IN  IF bar.key
         THEN /\ attempt' = [gone EXCEPT ![a].pc = "detect"]
              /\ kit' = [InitialKit EXCEPT !.status = "connecting"]
         ELSE attempt' = gone /\ kit' = InitialKit
  /\ bar' = [bar EXCEPT !.reconnecting = bar.key, !.connectToastPending = FALSE]
  /\ teardownRef' = None /\ listening' = {} /\ late' = {} /\ bridges' = 0
  /\ UNCHANGED host

WalletPushes(c) == AccountsChanged(c) \/ LateAccounts(c) \/ StatusChanged(c)

Next ==
  \/ OnDisconnect \/ ConsumerDisconnects
  \/ \E a \in Attempts :
       \/ Answered(a) \/ WalletPushes(a) \/ OnConnect(a) \/ Reload(a)
       \/ \E mode \in Modes : ConsumerConnects(a, mode)

ConnectSpec == Init /\ [][Next]_vars

\* A wallet, or the person holding it, answers every request in the end.
FairConnect == ConnectSpec /\ \A a \in Attempts : WF_vars(Answered(a))

-----------------------------------------------------------------------------
\* Properties

\* The kit's and the header's state have their types.
ConnectTypeOK ==
  /\ host \in Hosts
  /\ attempt \in [Attempts -> [pc : Waiting \cup {"idle", "done"}, mode : Modes]]
  /\ kit \in [status : {"idle", "connecting", "connected", "disconnected"},
              client : Attempts \cup {None}, party : Accounts \cup {None},
              isLocked : BOOLEAN, pairingUri : BOOLEAN, connectError : BOOLEAN]
  /\ teardownRef \in Attempts \cup {None}
  /\ listening \subseteq Attempts /\ late \subseteq Attempts
  /\ bridges \in Nat
  /\ bar \in [reconnecting : BOOLEAN, connectToastPending : BOOLEAN,
              key : BOOLEAN, wants : {"in", "out"}]

\* However calls of connect and disconnect overlap, a kit that says connected
\* has a client, follows its wallet's events and can detach from them.
ConnectedIsUsable ==
  kit.status = "connected" =>
    kit.client \in listening /\ teardownRef = kit.client

\* In the app exactly the connected client reacts to the wallet, over one
\* bridge to the page: no event is handled twice or after a disconnect.
OneListener ==
  host = "app" =>
    /\ listening = IF kit.status = "connected" THEN {kit.client} ELSE {}
    /\ bridges <= 1

\* A reload reconnects in the background only for a user who has not
\* disconnected since, and "Connected as" can only be said of an attempt that
\* is under way.
RespectsTheUser ==
  host = "app" =>
    /\ bar.key => bar.wants = "in"
    /\ bar.connectToastPending => kit.status = "connecting"

\* What the proofs need besides: in the app one attempt is under way exactly
\* while the kit is connecting, and then the user wants it.
OneAttempt ==
  host = "app" =>
    /\ kit.status = "connecting" <=> \E a \in Attempts : attempt[a].pc \in Waiting
    /\ \A a, b \in Attempts :
         attempt[a].pc \in Waiting /\ attempt[b].pc \in Waiting => a = b
    /\ \A a \in Attempts : attempt[a].pc = "detect" => bridges = 0
    /\ kit.status = "connecting" => bar.wants = "in"
    /\ bar.reconnecting => kit.status = "connecting"

ConnectInv == /\ ConnectTypeOK /\ OneAttempt
              /\ ConnectedIsUsable /\ OneListener /\ RespectsTheUser

\* Neither the kit nor the header stays busy for ever.
ConnectingEnds ==
  /\ (kit.status = "connecting") ~> (kit.status # "connecting")
  /\ bar.reconnecting ~> ~bar.reconnecting

=============================================================================
