---------------------------- MODULE TokenProvider ----------------------------
(***************************************************************************)
(* The bearer tokens of the ledger client: m2mToken (auth.ts) fetches and  *)
(* caches them, and every call to the ledger (ledger.ts) asks for one.     *)
(* Calls overlap, so several may fetch at once, and their answers land in  *)
(* any order.  The authorization server counts a token's life from when it *)
(* issues it, which is before the answer arrives.                          *)
(***************************************************************************)
EXTENDS Integers

CONSTANTS
  Calls,        \* calls to the ledger that may overlap
  Lives,        \* expires_in of the tokens issued
  Skew,         \* refreshSkewMs
  MaxClock      \* bound: time

VARIABLES
  clock,
  cached,       \* the cached token, in a set, with when to refresh it
  calls         \* per call: where it is, and its token once it has one

tokenVars == <<clock, cached, calls>>

ASSUME TokenAssumption ==
  /\ Lives \subseteq Nat \ {0} /\ Skew \in Nat /\ MaxClock \in Nat

Resting == [pc |-> "idle", since |-> 0, life |-> 0, expires |-> 0]

TokenInit ==
  /\ clock = 0
  /\ cached = {}
  /\ calls = [c \in Calls |-> Resting]

Longest(m, n) == IF m >= n THEN m ELSE n

\* `since' is the time getToken() read.
GetToken(c) ==
  /\ calls[c].pc = "idle"
  /\ \/ \E k \in cached :
          /\ clock < k.refreshAt
          /\ calls' = [calls EXCEPT ![c] = [Resting EXCEPT !.pc = "cached", !.since = clock,
                                                           !.expires = k.expires]]
     \/ /\ \A k \in cached : clock >= k.refreshAt
        /\ calls' = [calls EXCEPT ![c] = [Resting EXCEPT !.pc = "fetch", !.since = clock]]
  /\ UNCHANGED <<clock, cached>>

\* The server's part.
Issue(c, life) ==
  /\ calls[c].pc = "fetch"
  /\ calls' = [calls EXCEPT ![c].pc = "issued", ![c].life = life,
                            ![c].expires = clock + life]
  /\ UNCHANGED <<clock, cached>>

\* Mutant: the life is counted from when the answer is read.
FetchedNow(c) ==
  /\ calls[c].pc = "issued"
  /\ cached' = {[expires |-> calls[c].expires,
                 refreshAt |-> clock + Longest(0, calls[c].life - Skew)]}
  /\ calls' = [calls EXCEPT ![c].pc = "fresh"]
  /\ UNCHANGED clock

\* readResponse accepts the answer: it replaces whatever is cached by then.
Fetched(c) ==
  /\ calls[c].pc = "issued"
  /\ cached' = {[expires |-> calls[c].expires,
                 refreshAt |-> calls[c].since + Longest(0, calls[c].life - Skew)]}
  /\ calls' = [calls EXCEPT ![c].pc = "fresh"]
  /\ UNCHANGED clock

\* The fetch fails or its answer is not a token: the call throws.  Or the
\* ledger has answered the call.
Over(c) ==
  /\ calls[c].pc # "idle"
  /\ calls' = [calls EXCEPT ![c] = Resting]
  /\ UNCHANGED <<clock, cached>>

ClockTicks == /\ clock < MaxClock /\ clock' = clock + 1
           /\ UNCHANGED <<cached, calls>>

TokenNext ==
  \/ ClockTicks
  \/ \E c \in Calls : GetToken(c) \/ Fetched(c) \/ Over(c) \/ \E n \in Lives : Issue(c, n)

TokenSpec == TokenInit /\ [][TokenNext]_tokenVars

-----------------------------------------------------------------------------
\* Properties

\* "Refreshing ahead of expiry": a call that was given the cached token and
\* reaches the ledger within the skew carries a token that is still valid,
\* however many fetches overlapped, in whatever order their answers landed,
\* and however short-lived or delayed the tokens were.
CachedIsValid ==
  \A c \in Calls :
    calls[c].pc = "cached" /\ clock <= calls[c].since + Skew => clock < calls[c].expires

\* The inductive strengthening.
TokenInv ==
  /\ clock \in Nat
  /\ calls \in [Calls -> [pc : {"idle", "fetch", "issued", "fresh", "cached"},
                          since : Nat, life : Nat, expires : Nat]]
  /\ cached \subseteq [expires : Nat, refreshAt : Nat]
  /\ \A k \in cached : k.refreshAt <= clock \/ k.refreshAt + Skew <= k.expires
  /\ \A c \in Calls : /\ calls[c].since <= clock
                      /\ calls[c].pc = "issued" =>
                           calls[c].since + calls[c].life <= calls[c].expires
                      /\ calls[c].pc = "cached" =>
                           calls[c].since + Skew < calls[c].expires

=============================================================================
