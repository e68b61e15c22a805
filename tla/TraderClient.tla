---------------------------- MODULE TraderClient ----------------------------
(***************************************************************************)
(* One trader's browser against the live service: the polling client       *)
(* (HttpDarkPoolClient), the order form (OrderEntry) and the rows of open  *)
(* orders (MyOpenOrders) acting through the wallet (hooks.ts).             *)
(*                                                                         *)
(* The ledger is counted in versions.  A snapshot holds the version it was *)
(* taken at and the trader's open orders, an order being named after the   *)
(* version it was placed at.  Nothing orders the answers of two requests.  *)
(* A request whose answer is lost was decided first.                       *)
(***************************************************************************)
EXTENDS Naturals, FiniteSets

CONSTANTS
  VenuePolls,   \* the background requests for the venue's snapshot, and for
  TradePolls,   \* the trader's, that may be under way at once
  MaxVersion,   \* bound: transactions on the ledger
  MaxLosses     \* bound: requests that fail

VARIABLES
  ledger,       \* its version, the trader's orders, the version its holdings
                \* were last replaced at, and whether the pool is there
  seen,         \* [Feeds -> snapshot]: the client's venue and trades
  flight,       \* [Requests -> request under way, or NoRequest]
  polling,      \* the feeds that have a timer
  mounted,      \* whether the provider is; it mounts once, as in a build
  form,         \* the submission of OrderEntry
  row,          \* the cancellation of an OrderRow
  told,         \* history: the last toast and what was on screen with it
  losses

clientVars == <<ledger, seen, flight, polling, mounted, form, row, told, losses>>

Feeds == {"venue", "trade"}
FormRequests == {"formVenue", "formTrade"}
RowRequests == {"rowVenue", "rowTrade"}
Polls == VenuePolls \cup TradePolls

ASSUME ClientAssumption ==
  /\ MaxVersion \in Nat \ {0} /\ MaxLosses \in Nat
  /\ Polls \cap (FormRequests \cup RowRequests) = {}
Requests == Polls \cup FormRequests \cup RowRequests

PollsOf(feed) == IF feed = "venue" THEN VenuePolls ELSE TradePolls

Unread == [version |-> 0, orders |-> {}]       \* a snapshot is never version 0
NoRequest == [feed |-> "none", read |-> Unread]
Asked(feed) == [feed |-> feed, read |-> Unread]
AtRest == [pc |-> "idle", order |-> 0, holdings |-> 0]
Silence == [says |-> "nothing", order |-> 0, shown |-> 0]

\* The bound leaves room for the commands already on their way.
Room == ledger.version
          + (IF form.pc \in {"config", "end", "execute"} /\ form.order = 0 THEN 1 ELSE 0)
          + (IF row.pc = "execute" THEN 1 ELSE 0) < MaxVersion

Snapshot == [version |-> ledger.version, orders |-> ledger.orders]

Blank ==
  /\ ledger = [version |-> 1, orders |-> {}, purse |-> 1, pool |-> TRUE]
  /\ seen = [f \in Feeds |-> Unread]
  /\ form = AtRest /\ row = AtRest /\ told = Silence /\ losses = 0

\* The constructor starts the first request for the venue.
ClientInit ==
  /\ Blank
  /\ \E q \in VenuePolls :
       flight = [r \in Requests |-> IF r = q THEN Asked("venue") ELSE NoRequest]
  /\ polling = {"venue"} /\ mounted = TRUE

NoClient ==
  /\ Blank
  /\ flight = [r \in Requests |-> NoRequest]
  /\ polling = {} /\ mounted = FALSE

-----------------------------------------------------------------------------
\* Polling

Ask(r, feed) == /\ flight[r] = NoRequest
                /\ flight' = [flight EXCEPT ![r] = Asked(feed)]

TimerFires(q) ==
  /\ \E feed \in polling : q \in PollsOf(feed) /\ Ask(q, feed)
  /\ UNCHANGED <<ledger, seen, polling, mounted, form, row, told, losses>>

\* A component reads the trader's snapshot: the first time, polling starts.
EnsureParty(q) ==
  /\ mounted /\ "trade" \notin polling
  /\ Ask(q, "trade")
  /\ polling' = polling \cup {"trade"}
  /\ UNCHANGED <<ledger, seen, mounted, form, row, told, losses>>

\* close(), the effect's cleanup when the provider unmounts: the timers stop,
\* the requests under way do not.
Close ==
  /\ mounted /\ mounted' = FALSE
  /\ polling' = {}
  /\ UNCHANGED <<ledger, seen, flight, form, row, told, losses>>

\* The service refreshes its cache and answers from it.
Served(r) ==
  /\ flight[r] # NoRequest /\ flight[r].read = Unread
  /\ flight' = [flight EXCEPT ![r].read = Snapshot]
  /\ UNCHANGED <<ledger, seen, polling, mounted, form, row, told, losses>>

Shows(r) == /\ flight[r].read # Unread
            /\ seen' = [seen EXCEPT ![flight[r].feed] = flight[r].read]

PollLands(q) ==
  /\ Shows(q)
  /\ flight' = [flight EXCEPT ![q] = NoRequest]
  /\ UNCHANGED <<ledger, polling, mounted, form, row, told, losses>>

Loses(r) == /\ flight[r] # NoRequest /\ losses < MaxLosses
            /\ losses' = losses + 1
            /\ flight' = [flight EXCEPT ![r] = NoRequest]

\* Mutant: a poll that fails ends the polling.
PollFailsForGood(q) ==
  /\ Loses(q)
  /\ polling' = polling \ {flight[q].feed}
  /\ UNCHANGED <<ledger, seen, mounted, form, row, told>>

PollFails(q) ==
  /\ Loses(q)
  /\ UNCHANGED <<ledger, seen, polling, mounted, form, row, told>>

-----------------------------------------------------------------------------
\* Placing an order: config, the holdings at the ledger's end, the wallet's
\* execution, then the two snapshots.

Submit ==
  /\ mounted /\ form.pc = "idle" /\ Room
  /\ form' = [AtRest EXCEPT !.pc = "config"]
  /\ UNCHANGED <<ledger, seen, flight, polling, mounted, row, told, losses>>

FormGoes(from, to) == form.pc = from /\ form' = [form EXCEPT !.pc = to]

ConfigRead ==
  /\ ledger.pool
  /\ FormGoes("config", "end")
  /\ UNCHANGED <<ledger, seen, flight, polling, mounted, row, told, losses>>

\* What funds the order: the largest of the holdings active at the ledger's
\* end, which is read before they are asked for.
FundedAt == ledger.version

EndRead ==
  /\ form.pc = "end"
  /\ form' = [form EXCEPT !.pc = "execute", !.holdings = FundedAt]
  /\ UNCHANGED <<ledger, seen, flight, polling, mounted, row, told, losses>>

\* DarkPool_PlaceOrder: the pool and every declared holding are still active.
Placed ==
  /\ form.pc = "execute" /\ form.order = 0
  /\ ledger.pool /\ form.holdings >= ledger.purse
  /\ LET v == ledger.version + 1
     IN  /\ ledger' = [ledger EXCEPT !.version = v, !.orders = @ \cup {v}]
         /\ form' = [form EXCEPT !.order = v]
  /\ UNCHANGED <<seen, flight, polling, mounted, row, told, losses>>

PlacedAnswered ==
  /\ form.order # 0
  /\ FormGoes("execute", "venue")
  /\ Ask("formVenue", "venue")
  /\ UNCHANGED <<ledger, seen, polling, mounted, row, told, losses>>

\* Mutant: the trader's snapshot is asked for and not awaited.
FormVenueLandsLast ==
  /\ form.pc = "venue" /\ Shows("formVenue")
  /\ flight' = [flight EXCEPT !["formVenue"] = NoRequest]
  /\ form' = AtRest
  /\ told' = [says |-> "placed", order |-> form.order, shown |-> seen["trade"].version]
  /\ UNCHANGED <<ledger, polling, mounted, row, losses>>

FormVenueLands ==
  /\ FormGoes("venue", "trade") /\ Shows("formVenue")
  /\ flight' = [flight EXCEPT !["formVenue"] = NoRequest,
                              !["formTrade"] = Asked("trade")]
  /\ UNCHANGED <<ledger, polling, mounted, row, told, losses>>

\* The answer is stored, looked through and the caller told, in one go.
FormTradeLands ==
  /\ form.pc = "trade" /\ Shows("formTrade")
  /\ flight' = [flight EXCEPT !["formTrade"] = NoRequest]
  /\ form' = AtRest
  /\ told' = [says |-> "placed", order |-> form.order, shown |-> seen'["trade"].version]
  /\ UNCHANGED <<ledger, polling, mounted, row, losses>>

FormEnds == /\ form' = AtRest
            /\ told' = [Silence EXCEPT !.says = "failed", !.order = form.order]

\* No pool, too few holdings, or the ledger refuses the command.
Refused ==
  /\ \/ form.pc = "config" /\ ~ledger.pool
     \/ form.pc = "end"
     \/ form.pc = "execute" /\ form.order = 0
          /\ (~ledger.pool \/ form.holdings < ledger.purse)
  /\ FormEnds
  /\ UNCHANGED <<ledger, seen, flight, polling, mounted, row, losses>>

FormCallFails ==
  /\ form.pc \in {"config", "end"} \/ (form.pc = "execute" /\ form.order # 0)
  /\ losses < MaxLosses /\ losses' = losses + 1
  /\ FormEnds
  /\ UNCHANGED <<ledger, seen, flight, polling, mounted, row>>

\* Mutant: nothing catches the failure of a refresh.
FormRefreshFailsQuietly(r) ==
  /\ Loses(r)
  /\ UNCHANGED <<ledger, seen, polling, mounted, form, row, told>>

FormRefreshFails(r) ==
  /\ Loses(r) /\ FormEnds
  /\ UNCHANGED <<ledger, seen, polling, mounted, row>>

-----------------------------------------------------------------------------
\* Cancelling an order on display: one row at a time (bound).

Cancel(o) ==
  /\ mounted /\ row.pc = "idle" /\ o \in seen["trade"].orders
  /\ Room /\ \A r \in RowRequests : flight[r] = NoRequest
  /\ row' = [AtRest EXCEPT !.pc = "execute", !.order = o]
  /\ UNCHANGED <<ledger, seen, flight, polling, mounted, form, told, losses>>

Cancelled ==
  /\ row.pc = "execute" /\ row.order \in ledger.orders
  /\ ledger' = [ledger EXCEPT !.version = @ + 1, !.orders = @ \ {row.order}]
  /\ row' = [row EXCEPT !.pc = "executed"]
  /\ UNCHANGED <<seen, flight, polling, mounted, form, told, losses>>

CancelAnswered ==
  /\ row.pc = "executed"
  /\ row' = [row EXCEPT !.pc = "refresh"]
  /\ flight' = [flight EXCEPT !["rowVenue"] = Asked("venue"),
                              !["rowTrade"] = Asked("trade")]
  /\ UNCHANGED <<ledger, seen, polling, mounted, form, told, losses>>

\* Promise.all: told when the second of the two has landed, if the row still
\* waits for them.
RowLands(r) ==
  /\ Shows(r)
  /\ flight' = [flight EXCEPT ![r] = NoRequest]
  /\ IF row.pc = "refresh" /\ \A q \in RowRequests : flight'[q] = NoRequest
     THEN /\ row' = [row EXCEPT !.pc = "done"]
          /\ told' = [says |-> "cancelled", order |-> row.order,
                      shown |-> seen'["trade"].version]
     ELSE UNCHANGED <<row, told>>
  /\ UNCHANGED <<ledger, polling, mounted, form, losses>>

RowEnds == /\ row' = AtRest
           /\ told' = [Silence EXCEPT !.says = "failed", !.order = row.order]

CancelRefused ==
  /\ row.pc = "execute" /\ row.order \notin ledger.orders
  /\ RowEnds
  /\ UNCHANGED <<ledger, seen, flight, polling, mounted, form, losses>>

CancelFails ==
  /\ row.pc \in {"execute", "executed"}
  /\ losses < MaxLosses /\ losses' = losses + 1
  /\ RowEnds
  /\ UNCHANGED <<ledger, seen, flight, polling, mounted, form>>

\* The first failure rejects; the other request goes on by itself.
RowRefreshFails(r) ==
  /\ Loses(r)
  /\ IF row.pc = "refresh" THEN RowEnds ELSE UNCHANGED <<row, told>>
  /\ UNCHANGED <<ledger, seen, polling, mounted, form>>

\* The row is gone once no snapshot shows its order.
RowUnmounts ==
  /\ row.pc = "done" /\ row.order \notin seen["trade"].orders
  /\ row' = AtRest
  /\ UNCHANGED <<ledger, seen, flight, polling, mounted, form, told, losses>>

-----------------------------------------------------------------------------
\* The others on the ledger: a match of the trader's order replaces holdings,
\* the sweep rejects one, the trader is paid, the venue takes the pool down.

OthersAct ==
  /\ Room
  /\ LET v == ledger.version + 1
     IN  \/ \E o \in ledger.orders, p \in {ledger.purse, v} :
              ledger' = [ledger EXCEPT !.version = v, !.orders = @ \ {o}, !.purse = p]
         \/ ledger' = [ledger EXCEPT !.version = v, !.purse = v]
         \/ ledger' = [ledger EXCEPT !.version = v, !.pool = FALSE]
  /\ UNCHANGED <<seen, flight, polling, mounted, form, row, told, losses>>

FormStep == \/ ConfigRead \/ EndRead \/ Placed \/ PlacedAnswered
            \/ FormVenueLands \/ FormTradeLands \/ Refused \/ FormCallFails
            \/ \E r \in FormRequests : FormRefreshFails(r)

RowStep == \/ Cancelled \/ CancelAnswered \/ CancelRefused \/ CancelFails
           \/ RowUnmounts \/ \E r \in RowRequests : RowLands(r) \/ RowRefreshFails(r)

PollStep(q) == PollLands(q) \/ PollFails(q)

ClientNext ==
  \/ Close \/ Submit \/ OthersAct \/ FormStep \/ RowStep
  \/ \E o \in seen["trade"].orders : Cancel(o)
  \/ \E r \in Requests : Served(r)
  \/ \E q \in Polls : TimerFires(q) \/ PollStep(q)
  \/ \E q \in TradePolls : EnsureParty(q)

\* Every request is served and answered or lost, every timer fires again, and
\* a mounted page reads the trader's snapshot.
ClientFairness ==
  /\ WF_clientVars(FormStep) /\ WF_clientVars(RowStep)
  /\ \A r \in Requests : WF_clientVars(Served(r))
  /\ \A q \in Polls : WF_clientVars(PollStep(q)) /\ WF_clientVars(TimerFires(q))
  /\ \A q \in TradePolls : WF_clientVars(EnsureParty(q))

ClientSpec == ClientInit /\ [][ClientNext]_clientVars /\ ClientFairness

-----------------------------------------------------------------------------
\* Properties

\* The client's types, and its requests match what its flows wait for.
ClientInv ==
  /\ ledger \in [version : 1 .. MaxVersion, orders : SUBSET (1 .. MaxVersion),
                 purse : 1 .. MaxVersion, pool : BOOLEAN]
  /\ polling \subseteq Feeds /\ mounted \in BOOLEAN
  /\ form.pc \in {"idle", "config", "end", "execute", "venue", "trade"}
  /\ row.pc \in {"idle", "execute", "executed", "refresh", "done"}
  /\ form.pc = "venue" <=> flight["formVenue"] # NoRequest
  /\ form.pc = "trade" <=> flight["formTrade"] # NoRequest
  /\ row.pc = "refresh" => \E r \in RowRequests : flight[r] # NoRequest

\* What the trader is told of a success has happened, and an order said to be
\* placed is on display, or has left the ledger since, whatever older answers
\* were still on their way.
SuccessIsShown ==
  /\ told.says = "placed" => told.order # 0 /\ told.shown >= told.order
  /\ told.says = "cancelled" => told.order \notin ledger.orders

\* When nothing happens on the ledger any more, what a mounted page shows is
\* in the end what the ledger holds, overlapping and lost answers included.
CatchesUp ==
  \A f \in Feeds :
    <>[](~mounted \/ seen[f].version = ledger.version)

\* No button stays busy for ever.
ButtonsComeBack == /\ form.pc # "idle" ~> form.pc = "idle"
                   /\ row.pc \in {"execute", "executed", "refresh"}
                        ~> row.pc \in {"idle", "done"}

=============================================================================
