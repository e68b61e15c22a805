---------------------------- MODULE VenueService ----------------------------
(***************************************************************************)
(* The venue service (backend/src): one Node process that projects the     *)
(* ledger into a cache (projection.ts), runs matching passes from a timer  *)
(* and from POST /venue/match (scheduler.ts), settles the plans of a pass  *)
(* one after another (settlement.ts) and sweeps expired orders.            *)
(*                                                                         *)
(* JavaScript runs to completion between awaits, so an action is the code  *)
(* from one awaited answer to the next await.  Every call to the ledger    *)
(* (ledger.ts) is a message: sent, decided by the ledger at some later     *)
(* time, and answered, or the answer is lost.  The traders act on the      *)
(* ledger at any time, and the service's clock is the ledger's.            *)
(***************************************************************************)
EXTENDS Matcher

CONSTANTS
  Passes,       \* invocations of runPass that may overlap
  Handlers,     \* requests that refresh the cache and answer from it, likewise
  MaxFaults,    \* bound: failed calls, lost answers and process crashes
  PoolSteps     \* whether the venue archives and re-creates its pool

VARIABLES
  view,         \* projection.ts: the cached pool and orders
  reads,        \* per reader: the ACS snapshots its refresh() has so far
  running,      \* scheduler.ts: the guard of runPass
  timer,        \* scheduler.ts: a timeout is armed
  pass,         \* per invocation of runPass: where it is
  matching,     \* DarkPool_Match submissions the ledger has yet to decide
  rejecting,    \* Order_Reject submissions the ledger has yet to decide
  trades,       \* projection.ts: the recorded trades
  up,           \* the process runs
  configured,   \* the active pool is the contract of the configured poolCid
  settled,      \* history: the pairs that submissions settled on the ledger
  faults        \* how many faults there were

ASSUME VenueAssumption ==
  /\ Passes \cap Handlers = {}
  /\ "nobody" \notin Passes
  /\ MaxFaults \in Nat
  /\ PoolSteps \in BOOLEAN

serviceVars == <<view, reads, running, timer, pass, trades, up>>
ledgerVars == vars
venueVars == <<ledgerVars, serviceVars, matching, rejecting, configured,
               settled, faults>>

Readers == Passes \cup Handlers
Request == "request"         \* begun by a request, not by the timer
Nobody == "nobody"           \* a submission whose sender stopped waiting
Unknown == "unknown"         \* the trader of an order the cache lacks

Unread == [read |-> FALSE]
Snapshot(value) == [read |-> TRUE, value |-> value]

\* A refresh reads the pools and the orders (and the holdings) in parallel.
Closed == [open |-> FALSE, pool |-> Unread, orders |-> Unread]
Opened == [Closed EXCEPT !.open = TRUE]

IdlePass == [pc |-> "idle", by |-> Request, now |-> 0, plans |-> << >>,
             buyer |-> Unknown, seller |-> Unknown]

Pair(plan) == [buy |-> plan.buy, sell |-> plan.sell]

-----------------------------------------------------------------------------
\* scheduler.ts

\* Mutant: the guard is not tested.
BeginPassUnguarded(p, by) ==
  /\ pass[p].pc = "idle"
  /\ running' = TRUE
  /\ pass' = [pass EXCEPT ![p] = [IdlePass EXCEPT !.pc = "refresh", !.by = by]]
  /\ reads' = [reads EXCEPT ![p] = Opened]

\* runPass up to its first await, on behalf of the timer or of a request.
BeginPass(p, by) ==
  /\ ~running /\ pass[p].pc = "idle"
  /\ running' = TRUE
  /\ pass' = [pass EXCEPT ![p] = [IdlePass EXCEPT !.pc = "refresh", !.by = by]]
  /\ reads' = [reads EXCEPT ![p] = Opened]

\* When a pass is running runPass returns at once, and re-arms nothing.
TimerFires ==
  /\ up /\ timer
  /\ timer' = FALSE
  /\ \/ \E p \in Passes : BeginPass(p, "timer")
     \/ running /\ UNCHANGED <<running, pass, reads>>
  /\ UNCHANGED <<ledgerVars, view, matching, rejecting, trades, up, configured,
                 settled, faults>>

PostMatch ==
  /\ up
  /\ \E p \in Passes : BeginPass(p, Request)
  /\ UNCHANGED <<ledgerVars, view, timer, matching, rejecting, trades, up,
                 configured, settled, faults>>

\* PUT /venue/schedule
SetIntervalMs ==
  /\ up /\ ~timer
  /\ timer' = TRUE
  /\ UNCHANGED <<ledgerVars, view, reads, running, pass, matching, rejecting,
                 trades, up, configured, settled, faults>>

Stale(cached, t) == {o \in cached.orders : ~IsLive(o, t)}

\* Mutant: another field of the order.
SideOf(o, cached) == IF o \in cached.orders THEN o.side ELSE Unknown

TraderOf(o, cached) == IF o \in cached.orders THEN o.trader ELSE Unknown

\* The code that runs when pass p has `plans' left and the cache is `cached':
\* the next settlement looks its traders up and is submitted; after the last,
\* the expired orders of the cache are rejected, all at once; with none, the
\* pass is over.
Proceed(p, plans, t, cached) ==
  IF plans # << >>
  THEN /\ pass' = [pass EXCEPT ![p] =
                     [pc |-> "settle", by |-> pass[p].by, now |-> t,
                      plans |-> plans,
                      buyer |-> TraderOf(plans[1].buy, cached),
                      seller |-> TraderOf(plans[1].sell, cached)]]
       /\ matching' = matching \cup {[pair |-> Pair(plans[1]), to |-> p]}
       /\ UNCHANGED <<running, timer, rejecting>>
  ELSE IF Stale(cached, t) # {}
  THEN /\ pass' = [pass EXCEPT ![p] =
                     [IdlePass EXCEPT !.pc = "sweep", !.by = pass[p].by]]
       /\ rejecting' = rejecting \cup
                         {[order |-> o, to |-> p] : o \in Stale(cached, t)}
       /\ UNCHANGED <<running, timer, matching>>
  ELSE /\ pass' = [pass EXCEPT ![p] = IdlePass]
       /\ running' = FALSE
       /\ timer' = TRUE
       /\ UNCHANGED <<matching, rejecting>>

\* What these passes sent, when they no longer wait for the answers.
Disowned(messages, senders) ==
  {IF m.to \in senders THEN [m EXCEPT !.to = Nobody] ELSE m : m \in messages}

\* The process exits: everything in memory is lost, what was sent is not.
Exit ==
  /\ up' = FALSE /\ running' = FALSE /\ timer' = FALSE
  /\ pass' = [p \in Passes |-> IdlePass]
  /\ reads' = [r \in Readers |-> Closed]
  /\ view' = [pool |-> NoPool, orders |-> {}]
  /\ trades' = << >>

\* Mutants: no `finally'; one that re-arms but forgets the guard.
ThrowUnarmed(p) ==
  IF pass[p].by = "timer" THEN Exit
  ELSE /\ pass' = [pass EXCEPT ![p] = IdlePass]
       /\ reads' = [reads EXCEPT ![p] = Closed]
       /\ running' = FALSE
       /\ UNCHANGED <<timer, view, trades, up>>

ThrowGuarded(p) ==
  IF pass[p].by = "timer" THEN Exit
  ELSE /\ pass' = [pass EXCEPT ![p] = IdlePass]
       /\ reads' = [reads EXCEPT ![p] = Closed]
       /\ timer' = TRUE
       /\ UNCHANGED <<running, view, trades, up>>

\* runPass rejects: `finally' clears the guard and re-arms the timer.  The
\* request that made the pass answers 500; nothing handles the rejection of a
\* pass of the timer (void runPass()), and Node exits.
Throw(p) ==
  IF pass[p].by = "timer" THEN Exit
  ELSE /\ pass' = [pass EXCEPT ![p] = IdlePass]
       /\ reads' = [reads EXCEPT ![p] = Closed]
       /\ running' = FALSE
       /\ timer' = TRUE
       /\ UNCHANGED <<view, trades, up>>

\* Mutant: the other answers are still waited for.
ThrowingWaits(p, messages) == messages

ThrowingDisowns(p, messages) ==
  Disowned(messages, IF pass[p].by = "timer" THEN Passes ELSE {p})

-----------------------------------------------------------------------------
\* projection.ts

GetVenue(h) ==
  /\ up /\ ~reads[h].open
  /\ reads' = [reads EXCEPT ![h] = Opened]
  /\ UNCHANGED <<ledgerVars, view, running, timer, pass, matching, rejecting,
                 trades, up, configured, settled, faults>>

ReadPools(r) ==
  /\ reads[r].open /\ reads[r].pool = Unread
  /\ reads' = [reads EXCEPT ![r].pool = Snapshot(pool)]
  /\ UNCHANGED <<ledgerVars, view, running, timer, pass, matching, rejecting,
                 trades, up, configured, settled, faults>>

ReadOrders(r) ==
  /\ reads[r].open /\ reads[r].orders = Unread
  /\ reads' = [reads EXCEPT ![r].orders = Snapshot(orders)]
  /\ UNCHANGED <<ledgerVars, view, running, timer, pass, matching, rejecting,
                 trades, up, configured, settled, faults>>

HasRead(r) == reads[r].open /\ reads[r].pool.read /\ reads[r].orders.read

ReadBy(r) == [pool |-> reads[r].pool.value, orders |-> reads[r].orders.value]

\* The answers of the three reads are in: the cache is replaced, whatever
\* another refresh put there meanwhile, and the reader goes on.
RefreshDone(r) ==
  /\ HasRead(r)
  /\ view' = ReadBy(r)
  /\ reads' = [reads EXCEPT ![r] = Closed]
  /\ IF r \in Handlers
     THEN UNCHANGED <<pass, running, timer, matching, rejecting>>
     ELSE IF pass[r].pc = "refresh"
     THEN Proceed(r, IF ReadBy(r).pool = NoPool THEN << >>
                     ELSE FindMatches(ReadBy(r).pool, ReadBy(r).orders, now),
                  now, ReadBy(r))
     ELSE Proceed(r, Tail(pass[r].plans), pass[r].now, ReadBy(r))
  /\ UNCHANGED <<ledgerVars, trades, up, configured, settled, faults>>

\* A read fails.  A request's handler answers 500; a pass, also one that
\* refreshes because a settlement failed, rejects.
RefreshFails(r) ==
  /\ reads[r].open
  /\ faults < MaxFaults /\ faults' = faults + 1
  /\ IF r \in Handlers
     THEN /\ reads' = [reads EXCEPT ![r] = Closed]
          /\ UNCHANGED <<view, running, timer, pass, trades, up, rejecting>>
     ELSE /\ Throw(r)
          /\ rejecting' = ThrowingDisowns(r, rejecting)
  /\ UNCHANGED <<ledgerVars, matching, configured, settled>>

-----------------------------------------------------------------------------
\* settlement.ts, and the ledger's side of it

CanSettle(pair) ==
  /\ configured
  /\ pair.buy \in orders /\ pair.sell \in orders
  /\ CanMatch(pair.buy, pair.sell)

\* The ledger decides a submission.  When nobody waits for the answer any more
\* only what it did to the ledger remains.
LedgerMatches(m) ==
  /\ CanSettle(m.pair)
  /\ DarkPool_Match(m.pair.buy, m.pair.sell)
  /\ matching' = matching \ {m}
  /\ settled' = settled \cup {m.pair}
  /\ pass' = [p \in Passes |-> IF p = m.to THEN [pass[p] EXCEPT !.pc = "matched"]
                               ELSE pass[p]]
  /\ UNCHANGED <<view, reads, running, timer, trades, up, rejecting, configured,
                 faults>>

LedgerRefuses(m) ==
  /\ ~CanSettle(m.pair)
  /\ matching' = matching \ {m}
  /\ pass' = [p \in Passes |-> IF p = m.to THEN [pass[p] EXCEPT !.pc = "refused"]
                               ELSE pass[p]]
  /\ UNCHANGED <<ledgerVars, view, reads, running, timer, trades, up, rejecting,
                 configured, settled, faults>>

\* Mutant: recorded whatever the answer was.
AnyAnswered(p) ==
  /\ pass[p].pc \in {"matched", "refused"}
  /\ trades' = Append(trades, [pair |-> Pair(pass[p].plans[1]),
                               buyer |-> pass[p].buyer,
                               seller |-> pass[p].seller])
  /\ Proceed(p, Tail(pass[p].plans), pass[p].now, view)
  /\ UNCHANGED <<ledgerVars, view, reads, up, configured, settled, faults>>

\* submit returned: the trade is recorded and the next plan settled.
MatchAnswered(p) ==
  /\ pass[p].pc = "matched"
  /\ trades' = Append(trades, [pair |-> Pair(pass[p].plans[1]),
                               buyer |-> pass[p].buyer,
                               seller |-> pass[p].seller])
  /\ Proceed(p, Tail(pass[p].plans), pass[p].now, view)
  /\ UNCHANGED <<ledgerVars, view, reads, up, configured, settled, faults>>

\* submit threw, because the ledger refused or the answer was lost (before or
\* after the ledger decided): the projection is refreshed before the pair is
\* reported as rejected.  Nothing is submitted to reject either order.
SettleFails(p) ==
  /\ \/ pass[p].pc = "refused" /\ UNCHANGED <<matching, faults>>
     \/ /\ pass[p].pc \in {"settle", "matched"}
        /\ faults < MaxFaults /\ faults' = faults + 1
        /\ matching' = Disowned(matching, {p})
  /\ pass' = [pass EXCEPT ![p].pc = "recover"]
  /\ reads' = [reads EXCEPT ![p] = Opened]
  /\ UNCHANGED <<ledgerVars, view, running, timer, trades, up, rejecting,
                 configured, settled>>

-----------------------------------------------------------------------------
\* The sweep, and the ledger's side of it

\* The ledger archives the order; the last answer ends the pass.
LedgerRejects(m) ==
  /\ m.order \in orders
  /\ ArchiveOrder(m.order)
  /\ rejecting' = rejecting \ {m}
  /\ IF m.to \in Passes /\ \A n \in rejecting \ {m} : n.to # m.to
     THEN /\ pass' = [pass EXCEPT ![m.to] = IdlePass]
          /\ running' = FALSE
          /\ timer' = TRUE
     ELSE UNCHANGED <<pass, running, timer>>
  /\ UNCHANGED <<view, reads, matching, trades, up, configured, settled, faults>>

\* The order is gone, or the call fails: Promise.all rejects, so runPass does,
\* and nobody waits for the other answers.
RejectFails(m) ==
  /\ \/ m.order \notin orders /\ UNCHANGED faults
     \/ faults < MaxFaults /\ faults' = faults + 1
  /\ IF m.to \in Passes
     THEN /\ Throw(m.to)
          /\ rejecting' = ThrowingDisowns(m.to, rejecting \ {m})
     ELSE /\ rejecting' = rejecting \ {m}
          /\ UNCHANGED <<view, reads, running, timer, pass, trades, up>>
  /\ UNCHANGED <<ledgerVars, matching, configured, settled>>

-----------------------------------------------------------------------------
\* The process (server.ts; docker-compose.yml restarts it) and the rest

\* The process is killed.
Crash ==
  /\ up
  /\ faults < MaxFaults /\ faults' = faults + 1
  /\ Exit
  /\ matching' = Disowned(matching, Passes)
  /\ rejecting' = Disowned(rejecting, Passes)
  /\ UNCHANGED <<ledgerVars, configured, settled>>

\* main: refresh, arm the timer, listen.  Nothing reads the cache before.
Restart ==
  /\ ~up
  /\ up' = TRUE /\ timer' = TRUE
  /\ view' = [pool |-> pool, orders |-> orders]
  /\ UNCHANGED <<ledgerVars, reads, running, pass, matching, rejecting, trades,
                 configured, settled, faults>>

\* What others do on the ledger.  A re-created pool is another contract than
\* the one whose id the service was configured with.
OthersAct ==
  /\ \/ TraderStep /\ UNCHANGED configured
     \/ PoolSteps /\ PoolStep /\ configured' = FALSE
  /\ UNCHANGED <<serviceVars, matching, rejecting, settled, faults>>

VenueInit ==
  /\ Init
  /\ view = [pool |-> pool, orders |-> orders]
  /\ reads = [r \in Readers |-> Closed]
  /\ running = FALSE /\ timer = TRUE /\ up = TRUE
  /\ pass = [p \in Passes |-> IdlePass]
  /\ matching = {} /\ rejecting = {}
  /\ trades = << >>
  /\ configured = TRUE
  /\ settled = {}
  /\ faults = 0

VenueNext ==
  \/ OthersAct
  \/ TimerFires \/ PostMatch \/ SetIntervalMs
  \/ \E h \in Handlers : GetVenue(h)
  \/ \E r \in Readers : \/ ReadPools(r) \/ ReadOrders(r)
                       \/ RefreshDone(r) \/ RefreshFails(r)
  \/ \E m \in matching : LedgerMatches(m) \/ LedgerRefuses(m)
  \/ \E p \in Passes : MatchAnswered(p) \/ SettleFails(p)
  \/ \E m \in rejecting : LedgerRejects(m) \/ RejectFails(m)
  \/ Crash \/ Restart

VenueSpec == VenueInit /\ [][VenueNext]_venueVars

-----------------------------------------------------------------------------
\* Fairness: an armed timer fires, the ledger decides and answers every call,
\* and the process is restarted.  Nothing is assumed of traders or requests.

LedgerDecides == \E m \in matching : LedgerMatches(m) \/ LedgerRefuses(m)

SweepDecides ==
  \E m \in rejecting :
    LedgerRejects(m) \/ (m.order \notin orders /\ RejectFails(m))

Answered(p) == MatchAnswered(p) \/ (pass[p].pc = "refused" /\ SettleFails(p))

Refreshing(r) == ReadPools(r) \/ ReadOrders(r) \/ RefreshDone(r)

Fairness ==
  /\ WF_venueVars(TimerFires) /\ WF_venueVars(Restart)
  /\ \A r \in Readers : WF_venueVars(Refreshing(r))
  /\ WF_venueVars(LedgerDecides) /\ WF_venueVars(SweepDecides)
  /\ \A p \in Passes : WF_venueVars(Answered(p))

FairVenue == VenueSpec /\ Fairness

-----------------------------------------------------------------------------
\* Properties

Messages == [pair : [buy : Order, sell : Order], to : Passes \cup {Nobody}]

VenueTypeOK ==
  /\ view.orders \subseteq Order
  /\ view.pool = NoPool \/ view.pool \in [market : {Market}, minFillFloor : PosNat]
  /\ DOMAIN reads = Readers
  /\ running \in BOOLEAN /\ timer \in BOOLEAN /\ up \in BOOLEAN
  /\ \A p \in Passes :
       /\ pass[p].pc \in {"idle", "refresh", "settle", "matched", "refused",
                          "recover", "sweep"}
       /\ pass[p].now \in 0 .. now
       /\ {pass[p].buyer, pass[p].seller} \subseteq Parties \cup {Unknown}
  /\ matching \subseteq Messages
  /\ rejecting \subseteq [order : Order, to : Passes \cup {Nobody}]
  /\ settled \subseteq [buy : Order, sell : Order]
  /\ configured \in BOOLEAN
  /\ faults \in 0 .. MaxFaults

Active(p) == pass[p].pc # "idle"

\* "One guarded runPass() is the venue's sole match writer": passes of the
\* timer and of requests never overlap, and the ledger never has two matches
\* before it whose answers the service is waiting for.
SingleWriter ==
  /\ \A p, q \in Passes : Active(p) /\ Active(q) => p = q
  /\ \A m, n \in matching : m.to # Nobody /\ n.to # Nobody => m = n

\* Whatever fails and in whatever step, a running service either has the timer
\* armed or is in a pass that will arm it, and the guard is set only while a
\* pass is under way: matching never silently stops.
HeartbeatAlive ==
  /\ up => timer \/ \E p \in Passes : Active(p)
  /\ running <=> \E p \in Passes : Active(p)

\* An answer of the ledger always finds the pass that asked in the await it was
\* asked in, however that pass was begun, failed or was cut short meanwhile;
\* and a pass that refreshes waits for nothing else.
AnswersFindTheirPass ==
  /\ \A p \in Passes : reads[p].open => pass[p].pc \in {"refresh", "recover"}
  /\ \A m \in matching : m.to \in Passes => pass[m.to].pc = "settle"
  /\ \A m \in rejecting : m.to \in Passes => pass[m.to].pc = "sweep"
  /\ \A m, n \in matching : m.to \in Passes /\ m.to = n.to => m = n
  /\ \A m \in matching \cup rejecting : m.to \in Passes \cup {Nobody}

\* A recorded trade was settled on the ledger, between the traders it names
\* (where it names them), and is recorded once, also when answers are lost and
\* the same pair is submitted again.
TradesAreSettled ==
  /\ \A i \in DOMAIN trades :
       /\ trades[i].pair \in settled
       /\ trades[i].buyer \in {trades[i].pair.buy.trader, Unknown}
       /\ trades[i].seller \in {trades[i].pair.sell.trader, Unknown}
  /\ \A i, j \in DOMAIN trades : trades[i].pair = trades[j].pair => i = j

\* Only expired orders are swept, however old the cache the sweep looked at,
\* and never one whose match this service is still waiting for.
SweepsOnlyExpired ==
  \A m \in rejecting :
    /\ Expired(m.order)
    /\ \A n \in matching :
         n.to # Nobody /\ n.to = m.to => m.order \notin {n.pair.buy, n.pair.sell}

\* The service acts on the ledger only as the contracts allow: all the venue
\* and the traders do together is a behaviour of DarkPool.
LedgerSpec == Spec

\* Expired orders do not rest forever, whatever the service was doing when they
\* expired, and whatever calls failed.
ExpiredSwept == []<>(\A o \in orders : ~Expired(o))

\* When the pair the matcher ranks first can settle, it does not stay there
\* forever: it is matched, or one of its orders goes.  (Orders are bounded, so
\* pairs cannot take turns at the head for ever.)
FirstPairSettles ==
  []<>~(/\ configured
        /\ \E first \in {Plans} : /\ first # << >>
                                 /\ CanMatch(first[1].buy, first[1].sell))

\* backend/API.md:26: "If a trader moved declared funding, the match fails; the
\* service rejects that order and moves on (trader re-places).  Never
\* blind-retries."  When a pass reports such a buy as rejected, it is.
StaleOrderRejected ==
  [][\A p \in Passes :
       pass[p].pc = "recover" /\ pass'[p].pc # "recover" /\ faults' = faults =>
         LET b == pass[p].plans[1].buy
         IN  Range(b.holdings) \subseteq holdings \/ b \notin orders']_venueVars

\* scheduler.ts:3: "every pass re-arms the timer to now + interval" (API.md:51:
\* "after every pass (timed or manual) it re-arms").
EveryPassRearms ==
  [][\A p \in Passes : Active(p) /\ ~Active(p)' => timer']_venueVars

=============================================================================
