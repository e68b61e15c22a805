# Dark pool: a TLA+ verification project

This directory models the dark pool of this repository — the Daml contracts, the token they settle
in, the venue's matching service, the browser's clients and the wallet connection — in TLA+. TLC
checks the models on small instances and the TLA+ proof system (TLAPS) proves the main theorems for
every value of the constants. The reader is assumed to have the repository at hand; all paths are
relative to its root.

## 1. The system

A trader signs an **Order** against the venue's **DarkPool** anchor and *declares* the holdings that
fund it; nothing is locked. The **venue service** reads the ledger, pairs a buy and a sell and
submits one `DarkPool_Match`. The match fills both orders, each fill allocating the trader's declared
holdings at the **Registry**, and executes both allocations in the same transaction. Partially filled
orders are re-created for their tail.

| component | state | operations | talks to |
|---|---|---|---|
| `contracts/daml/dark-pool` `DarkPool.Math` | none | midpoint, quote, fill, remainder, funding target, all floored to 10 decimals | called by the contracts |
| `contracts/daml/dark-pool` `DarkPool`, `Order`, `FillAuthority` | pool and orders on the ledger | `DarkPool_PlaceOrder`, `DarkPool_Match`, `Order_Cancel`, `Order_Reject`, `Order_Fill`, `FillAuthority_Settle`, `_SettleWith`, archive/create by their signatories | the registry, by choice exercises inside one transaction |
| `contracts/daml/registry-token` | holdings, allocations | mint, transfer, allocate, execute, cancel, withdraw | – |
| `backend/src/matcher.ts`, `decimal.ts`, `funding.ts` | none | `findMatches`, `selectFunding` | called by the scheduler and by `POST /orders` |
| `backend/src/scheduler.ts` | the `running` guard, the timer, the interval | `runPass`, `sweepExpired`, `setIntervalMs`, `start`, `stop` | projection, settlement, ledger client |
| `backend/src/settlement.ts` | none | `settle` | ledger client, projection |
| `backend/src/projection.ts` | cached pools, orders, holdings; every order seen; recorded trades | `refresh`, `recordTrade`, queries | ledger client |
| `backend/src/http.ts`, `server.ts` | none | requests; start-up | all of the above |
| `backend/src/ledger.ts`, `commands.ts` | none | `submit`, `activeContracts`, `updatesFrom` (HTTP calls) | a Canton participant |
| `backend/src/auth.ts`, `config.ts`, `wiring.ts` | a cached token | `getToken`; start-up | token endpoint |
| `backend/src/mockLedger.ts` | an in-memory contract store | the commands of `commands.ts`, interpreted | replaces `ledger.ts` |
| `frontend/src/darkpool` clients and hooks | polled venue and trader snapshots; or a simulated market | polling, placing, cancelling, wallet execution, closing | HTTP API, wallet |
| `frontend/src` views (`ConnectionBar`, `OrderEntry`, `MyOpenOrders`) | header, order form, rows | connect, disconnect, submit, cancel | clients and kit |
| `canton-connect-kit/src` | the wallet connection | connect, disconnect, wallet events | browser extension, WalletConnect |

Not part of the system's own logic: `contracts/deps` (vendored Splice interfaces), `wallet/` (a
prebuilt extension), the two `*-test` Daml packages (read as documentation of the contracts) and the
views that only render.

### What is hard in it

* **Rounding and splitting.** Funding is checked once, at placement. It must carry through any number
  of partial fills, whose midpoints and quotes are floored separately. The browser's own market does
  the same in JavaScript's doubles, where every operation rounds besides.
* **Nothing is locked.** Between placement and match the declared holdings may be transferred, spent
  by another order of the same trader, or declared twice.
* **Contracts without the pool.** An `Order` is signed by its trader alone, so one can exist that the
  pool never checked; a fill can be exercised outside a match, leaving a lone escrowed leg.
* **Interleaved awaits.** The service is single-threaded, but a timer, `POST /venue/match` and the
  refreshing handlers interleave at every `await`, over a cache that each of them overwrites.
* **Failure.** A submission may be refused, or committed with its answer lost; a read may fail in the
  middle of a pass; `Promise.all` gives up at the first failure and leaves the other calls running;
  the process may exit, and what it had sent is still decided.
* **Progress.** The timer must survive all of that, expired orders must go, the best pair must settle.
* **The browser.** Polls overlap the refreshes of the user's own actions, their answers come in any
  order or not at all, and a page is closed or reloaded in between. `connect()` awaits the wallet
  several times and `disconnect()` does not wait for it.

The complete list, with the line where each bites and the properties that cover it, is the `hazards`
list of `PROJECT.json`.

## 2. The modules

```
DarkPoolMath ── RegistryToken ── DarkPool ── Matcher ─┬─ VenueService
                                  │                   └─ MockLedger ──┐
                             IdealMarket (INSTANCE)                   ├─ Wiring
                                                       TokenProvider ─┘
WalletMatch      ConnectKit      TraderClient ─┬─ DarkPoolClients
                        Doubles ── MockMarket ─┘

proofs:  DarkPoolMathProofs ─┬─ RegistryTokenProofs ── DarkPoolProofs ── MatcherProofs ─┬─ VenueServiceProofs
                             │                                                         └─ WiringProofs
                             └─ FrontendProofs (page, market, connection)      WalletMatchProofs
for TLC: RegistryTokenMC  MatcherMC  DarkPoolMC  VenueServiceMC  WalletMatchMC
         WiringMC  DarkPoolClientsMC  (ConnectKit needs none)
```

Each module EXTENDS the ones to its left. Definitions named after a function or a choice model it;
`map` in `PROJECT.json` gives the lines.

**DarkPoolMath** — `Math.daml`. A `Decimal` is an integer number of ticks (10^-10); `Scale` is the
number of ticks per unit. Daml multiplies two decimals into 20 decimal places exactly and casts with
half-even rounding; `floorTo10` corrects that by one tick when it overshot. This is modelled as it
computes (`HalfEven`, `FloorTo10`), not as a floor; that it *is* the floor is a theorem. The code's
division by two in the midpoint has a half tick at most, so it is exact in 20 decimals because
`Scale` is even. The 28-digit limit of `Decimal` is not modelled.

**RegistryToken** — `Registry.daml`, `Allocation.daml`, `Holding.daml`. Contracts are immutable
records with an id, the active ones are the state, and a Daml choice is one action: all its
assertions are conjuncts of the guard, since a failing one undoes the transaction. `CanSpend` and
`Change` are `spendHoldings`; that archiving the same contract id twice fails is the conjunct
`IsInjective(inputs)`. `Recover` stands for cancel and withdraw, whose bodies are the same.
`minted` is a history variable.

**DarkPool** — `DarkPool.daml`, with registry steps by traders interleaved. `DarkPool_Match` is one
action although it exercises two `Order_Fill`s, two allocations and the `FillAuthority` chain.
`Order_Fill` is also an action of its own (the venue controls it and can exercise it outside a match;
its leg is then escrowed), over the prices `LonePrices`. What a lone fill escrowed is recovered, or
settled by hand: `FillAuthority_Settle` is that choice of the `FillAuthority` a fill leaves behind,
together with the `_SettleWith` it exercises on the counterparty's. They compare the parties, the
settlement and the legs, and not quantities or prices; outside a match only each order's own limit
binds. `CreateOrder` is an order
created directly by its signatory, under the template's `ensure` only, with any declared list and in
any market. `chain` is a history variable: per order first placed, what it and its remainders sent,
filled and received. `Market` is the venue, pool id and pair that a pool and its orders agree on.

**IdealMarket** — the abstract specification: balances and standing intents, no contracts, no escrow,
no change. Value moves because its owner paid it or because two crossing intents settled, both legs
in one step within both limits. `DarkPool` implements it under the mapping in `DarkPool!Ideal`
(balance = holdings plus escrow; intent = an order together with its remainders). `Swap` is the
settlement of two lone fills, whose intents the venue had used up before; the `matching` run admits no
lone fills, so this step of the refinement is covered by the theorem alone.

**Matcher** — `matcher.ts`, `decimal.ts`, `funding.ts` as functions of a snapshot. The greedy loop of
`findMatches` is a recursive function over the sorted buys; a `createdOffset` is the contract's id.
Matcher's properties evaluate these functions on every reachable state of `DarkPool`. The conversions
`parseDec`/`toDec` are left out: amounts on the ledger have at most ten decimals, which they keep.

**VenueService** — the service on top of `DarkPool`. An action is the code from one awaited answer to
the next `await`. `pass[p]` is the program counter of one invocation of `runPass`:

```
 idle ─BeginPass→ refresh ─RefreshDone→ settle ─LedgerMatches→ matched ─MatchAnswered→ settle | sweep | idle
                                           │  └──LedgerRefuses→ refused ─SettleFails→ recover ─RefreshDone→ settle | sweep | idle
                                           └──(answer lost) SettleFails→ recover
                                    sweep ─LedgerRejects (last) → idle          any ─Throw→ idle | process exit
```

`Proceed` is the synchronous code between two awaits: take the next plan, look its traders up in the
cache and submit it; after the last plan, sweep; with nothing to sweep, run `finally`. A submission is
a message (`matching`, `rejecting`) that the ledger decides later; `to` is the pass that awaits the
answer, or `Nobody` once that await is over. A refresh is two separate reads (`ReadPools`,
`ReadOrders`) and one overwrite of the cache (`RefreshDone`), by a pass or by an HTTP handler; `Handlers`
are the requests that refresh and answer from the cache (`getVenue` and the others), as many at a time
as the constant has members. `Throw` is the rejection of `runPass`: `finally` runs, a request is answered 500, and for the
timer's `void runPass()` the rejection is unhandled and the process exits. `configured` says that the
active pool is still the contract of the configured `poolCid`, which every match is exercised on.

Two steps are coarser than the code and are sound for what is checked: the ledger's decision on an
order of the sweep and its answer are one step (between them the service does nothing but wait), and
the start-up refresh of `main` is one step (nothing reads the cache before it is over).

**WalletMatch** — matching by the operator's wallet, and what it shares with the service:
`hooks.ts` (`runMatchPass`), `http.ts` (`postMatchPlan`, `postMatchSync`, `syncWalletMatches`), and
again the passes, their settlements and the cache, which here are what else records trades. A run of
the wallet asks for plans, has each match signed and submitted, and asks the service to read the
settled range off the ledger; its offset moves on only when a sync was answered.

```
 wallet   idle ─AskPlan→ planning ─PlanReply→ ready ─Execute→ executing ─LedgerMatches→ answered
                             ready ←RefreshDone─ syncing ←BeginSync─ answered      ready ─Finish→ idle
 request  idle ─AskPlan→ read → apply → end → reply → idle          (match-plan)
          idle ─BeginSync→ updates ─SyncUpdates→ read → apply → idle (match-sync)
 pass     idle ─BeginPass→ read → apply → settle ─Submit→ await ─LedgerMatches→ record ─RecordTrade→ settle …
```

`handler[h]` is any activity of the service, a request or the pass; `then` says what its refresh
leads to. What another `await` may change in between is kept where the code keeps it: the snapshot of
a refresh (`snap`), the known orders and the recorded trade ids a sync took before it asked for the
updates (`known`, `seen`). Which pairs cross, amounts and funding belong to `Matcher` and `DarkPool`:
here any disjoint pairs of a snapshot may be planned and the ledger may refuse any of them. An offset
is the number of matches up to it, since the other transactions of a range are skipped. `trades`
counts the records of each pair. `boot` and `overlapped` are history variables: where the ledger was
when the service last started, and whether two activities that may record ever overlapped.
A call whose caller gives up (`GivesUp`, a lost answer or a closed page) goes on without one.

**MockLedger** — `mockLedger.ts`, the ledger of `DARK_POOL_MOCK=1`, with the handlers and the pass that
write to it. Its promises are settled when they are made, so a request or a whole pass runs before
the next one begins: `MockPass` is one action, a fold of `Settle` over the plans and then the sweep.
The store is `DarkPool`'s state (`holdings`, `orders`, `nextId` for ids and offsets), but of the
contracts' checks it makes none, and it undoes nothing: `Moved` returns the store after a transfer,
in a set that is empty when the transfer throws, and `Settle` then leaves what was done before.

**TokenProvider** — `m2mToken` in `auth.ts` and the calls of `ledger.ts` that ask it for a token.
`GetToken` is the code up to the `fetch`, `Fetched` what runs when the answer is read; `Issue` is the
authorization server, which counts the life of a token from before the answer arrives. Several calls
may fetch at once and their answers land in any order.

**Wiring** — `config.ts` and `wiring.ts`: which of the two ledgers and which token the environment
selects, once. It composes `MockLedger` and `TokenProvider`; a static token has no state.

**TraderClient** — one trader's page on the live service. `HttpDarkPoolClient` keeps a snapshot per
feed (`seen`), has a timer per feed (`polling`), and starts another poll when a timer fires, whether or
not the last one was answered. `form` is the placement of `OrderEntry` through `hooks.ts` (config, ledger end,
the wallet's execution, two refreshes one after the other), `row` the cancellation of a
`MyOpenOrders` row (execution, two refreshes at once). A request is asked, served at some version of the
ledger and answered, or lost; nothing orders two answers. The ledger is abstracted to a version and
the trader's own orders, each named after the version it was placed at; `told` records the last toast with what
was on screen.

**MockMarket** — `MockDarkPoolClient`, `simEngine`, `darkpoolMath` and `seed`: the market in the browser
itself. Everything a call does is synchronous, so a call is an action, a matching pass included
(`MatchPass`, which takes `NextBuy` once for each buy). Settlement is against declared balances: a partial
fill un-declares the rounded requirement of the fill while the rest stays declared. `memo` is what the
panels computed last and not yet anew; `Notify` makes it stale, as `notify()` does by moving the
version, and `Ensured` (the demo orders of a new trader) does not. The floor `minFillFloor` of the pool
is a parameter. Every number is a double: `floorTo10` scales, floors and divides (`MockFloorTo10`), a quote
rounds its product first (`MockQuoteAmount`), balances accumulate with a rounding each time (`Adjust`),
and `MockRemainder` rounds to the nearest tick. `adjusts` and `fills` count, for the properties, how often
that happened.

**Doubles** — the arithmetic of IEEE 754 that `darkpoolMath.ts` relies on, external to the repository. A
double is an integer number of units, `One` of them to 1; an operation is the exact result rounded to
the nearest multiple of the spacing of doubles of its size, ties to even. The spacings of amounts and
prices and those of counts of ticks are parameters, as is the length of a mantissa.

**DarkPoolClients** — `DarkPoolProvider`: the build has one client or the other.

**ConnectKit** — `ConnectKitProvider`, its two connectors and the header `ConnectionBar`. An attempt is a
call of `connect()` that passed its guard; its `pc` is the await it is in:

```
 idle ─OnConnect | ConsumerConnects | Reload→ detect ─Detected→ request ─Accepted→ accounts ─Connected→ done
                                                └─FallBack→ pair ─Pairing→ approve ─Accepted→ accounts ─NoAccounts→ reject
                                                                              any await ─Fails→ done
```

`kit` is the React state, `teardownRef` and `listening` the listeners, `late` the `accountsChanged` handlers
that await `listAccounts`, `bar` the header's state with its `localStorage` key, which is all that a
reload keeps. With `host = "app"` the header makes the calls, and only when its buttons are there;
with `host = "any"` any consumer of the library does, whenever the calls do not return at once.

## 3. What TLC checks

Every counter that grows is bounded in a guard and the bound is a CONSTANT: `MaxId` (contract ids),
`MaxTime`, `MaxInputs` (length of a list of holdings), `MaxPlaced` (orders ever placed), `MaxFaults`.
When ids and time are used up nothing may be left to do, so no run checks deadlock. In all runs
`Scale = 2`: a tick is half a unit, so products of odd amounts and midpoints of odd sums are off by
half a tick, the tie that half-even rounding decides either way.

| run | what it checks | instance |
|---|---|---|
| `registry` | `Conservation` of value per instrument; `LeavesWhole`: a balance drops only by a transfer or a timely execution, to one counterparty and by the whole amount | two traders, two instruments, three holdings, lists of up to two inputs with repetitions |
| `matching` | `FundedThroughout`, `WithinLimit`, `Settleable`; `DeliveryVersusPayment`: `DarkPool` implements `IdealMarket`; on every book reached `PlansArePairs`, `PriceTimePriority`, `FundingCovers` | three traders, one on both sides; up to four orders at two prices on each side, with midpoints and quotes that round, partial fills, a tail below `minFill` and an expiring buy; floors 1 and 2; pool archived and re-created |
| `lone_fills` | `IInv`, the invariant of the proofs; `NeverOverspent`, `OnlyDeclaredSpent`, `RemainderInherits`, `EscrowReturnsOrSettles` | up to three orders, fills outside matches, settled by hand or recovered, orders created without the pool and naming others' holdings or another market, orders that share a declared holding |
| `venue` | `SingleWriter`, `HeartbeatAlive`, `AnswersFindTheirPass`, `TradesAreSettled`, `SweepsOnlyExpired`, `VenueTypeOK` | two invocations of `runPass` and a refreshing handler, a buy that expires and a sell, one fault anywhere |
| `venue_live` | `FirstPairSettles`, `ExpiredSwept` (liveness) | a buy that expires and a sell, one fault anywhere, pool archived or re-created |
| `wallet` | `SyncResolves`: a sync knows the orders of every match in its range; `NoGap`: an offset leaves no unrecorded match behind; `TradesHappened`; `RecordedOnce` | one wallet, two activities of the service, two buys and two sells, plans of up to two pairs, one fault or restart anywhere |
| `ledgers` | `PaidAsRecorded`: in the in-memory ledger nobody pays or is paid but in a recorded trade, wherever a settlement throws; `Conservation` there; `CachedIsValid`: a call given the cached token reaches the ledger with a valid one | two traders, one holding funding two buys, an expiring sell; two calls, lives 1 and 3 against a skew of 2, six instants |
| `clients` | `SuccessIsShown`: what a toast says of a success is true and on screen; `ButtonsComeBack`, `CatchesUp` (liveness); `MockConserves`, `DeclaredCovers`, `FreshPanels` of the browser's market; `ClientInv` | a poll of each feed, a placement and a cancellation at once, three versions of the ledger, one lost request, the page closing; one trader and a simulated counterparty, up to eight orders and remainders, doubles of 10 bits |
| `connect` | `ConnectedIsUsable`: a connected kit follows its client and can detach; `OneListener`: in the app nothing else reacts; `RespectsTheUser`: a reload reconnects only who did not disconnect; `ConnectingEnds` (liveness) | three calls of `connect`, one account, every wallet event and reloads, both hosts |

Why the bounds are enough: a chain of two matches already has a remainder of a remainder and sums two
roundings, and one more fill adds nothing a different pair of amounts would not (the theorems remove
the bound). The matcher's rules relate two buys and two sells. A pass that overlaps another needs two
invocations: with the guard a third never begins, since `running` admits one pass, and those cut
short by a crash live on only as messages to `Nobody`. One fault can hit any await. The two passes
are interchangeable, and `venue` uses that symmetry (it checks invariants only). In `wallet` two
activities are enough for a request to overlap a pass or an orphaned request, and two pairs for a plan
to fail before another one syncs its range; handlers, buys and sells are interchangeable there. In
`ledgers` one holding can pay for one of two buys, so a settlement throws at either leg; two calls can
fetch past each other, and a life below the skew is the odd case of the subtraction. In `clients` two
answers about different versions suffice to land out of order, and a third version lets the others act
in between. Its doubles are small ones that keep the proportions: mantissas of 10 bits instead of 53, 13
ticks to 1 instead of 10^10, and `RoundingAssumption`, which says that a tick is coarse next to what an
operation rounds, holds for both. Its terms make the awkward cases happen, each seen as a violation of a
sharper claim: parts of an order whose floors need a tick more than the whole has declared, a
declared amount that falls short by a rounding, totals that are off by half a spacing, equal limits whose
rounded midpoint lies below them, a remainder too small to rest. In `connect` an attempt can be overtaken by a second one and both by a reload that starts a
third.

For each property of these runs `PROJECT.json` names a seeded bug: a definition and an operator,
marked "Mutant" in the module, that replaces its body. TLC finds the property violated under the
run's own configuration when it does.

### Disagreements between the code and what is written about it

Three runs each end in a counterexample to a sentence of the repository's documentation or comments.

| run | the sentence | what happens |
|---|---|---|
| `venue_stale` | on a failed match "the service rejects that order … Never blind-retries" (`backend/API.md:26`) | nothing is submitted to reject it; the next pass submits the same pair |
| `venue_exit` | "every pass re-arms the timer" (`scheduler.ts:3`) | a pass of the timer that rejects, for instance because a trader cancelled an expired order while it was swept, is an unhandled rejection and ends the process |
| `wallet_twice` | one match is one trade (`match.test.ts:164`), by "the same stable trade id" (`http.ts:85`) | a sync that read the recorded ids before a pass records the match records it again: `settle` never looks, and the sync looks too early |

None of them needs fairness: the violated formulas are invariants or constrain single steps.

Smaller remarks, which the models make visible and no run of their own shows:

* An order is "adequately funded from birth" (`DarkPool.daml:69`), but the declared list is summed as
  given: a holding listed twice counts twice at placement (`:96`), and the fill fails closed.
* `backend/API.md:40` says that a failed settlement means funding moved or was cancelled, "never a
  matcher bug". Two orders of one trader may declare the same holding, and one pass plans both; and the
  matcher selects by pool id only, so it plans an order created without the pool that turns the pair
  around, which the contract refuses. `PlansArePairs` is therefore stated for orders placed through
  the pool.
* The greedy matcher "converges over passes" (`backend/API.md:25`), but a buy is tried with its best-priced
  sell only (`matcher.ts:56`): when that pair is too small it is passed over in every pass, though a
  sell behind it fits.
* A settlement of the in-memory ledger that cannot pay the quote has moved the base and archived both
  orders (`mockLedger.ts:150`), which the contracts' single transaction cannot do. `PaidAsRecorded` is
  stated for the quote for this reason.
* The orders that rest in the browser's market from the start are declared by nobody (`seed.ts:38`), so
  `DeclaredCovers` is about the connected trader.
* In the browser's market what is declared falls short of what the resting orders need by the
  rounding of doubles: a buy of 10 @ 2.7 with a fill of 8, the orders of `MockDarkPoolClient.test.ts:52`, leaves
  27 - 21.6 = 5.399999999999999 declared for a remainder that needs 5.4. The exact claim is false, and
  `DeclaredCovers` and `MockConserves` state it up to a drift: a tick for each fill and two spacings of
  doubles for each change of a balance; half a spacing for each change of the totals.
* There too, a remainder below its `minFill` is dropped and its share stays declared
  (`MockDarkPoolClient.ts:322`), and `floorTo10` may take a midpoint of two equal limits below them: at 2.01
  and 2.01 it is 2.0099999999, so `matchOrders` refuses the pair in every pass ("price outside limit", `:262`).
* A row that has cancelled keeps its spinner until the next snapshot removes the row; `ButtonsComeBack`
  takes that for its end. `FirstPairSettles` is about the best pair, not about those behind it.
* `connect()` while connected replaces the stored teardown without running it
  (`ConnectKitProvider.tsx:207`), so the earlier client keeps its listeners, against the comment at
  `:79`. The header never offers that call; `OneListener` is stated of the app.
* `DarkPoolProvider.tsx:26` closes its client when it unmounts, so under React's StrictMode
  (`main.tsx:8`), in development builds only, the client that remains polls the venue no more. `TraderClient`
  mounts once, as in a build.
* `dark-pool-bootstrap.mjs` names a template and arguments that `Registry.daml:51` no longer has;
  `Genesis` is what it is meant to leave.

### Fairness

`FairVenue` assumes weak fairness of an armed timer firing, the process being restarted
(`docker-compose.yml` restarts it), the ledger deciding each submission, each answer being processed,
and each read being answered. It assumes nothing of traders, requests or faults. The one assumption
the code does not enforce is that a call is eventually answered: `ledger.ts` sets no timeout, and a
call that never returns leaves `running` set for good. Liveness is therefore conditional on the
participant answering or failing every call. `ExpiredSwept` and `FirstPairSettles` are of the form
`[]<>`: faults and trader steps are bounded, so they say that each such situation ends.

`ClientFairness` assumes that a request is served and then answered or lost, that a step of the form or
of a row the browser has to take is taken, that an armed timer fires, and that a mounted page reads
the trader's snapshot (React renders it); it assumes nothing of the user, of the others on the ledger
or of losses. `FairConnect` assumes that a wallet, or whoever holds it, answers or refuses each
request in the end: `connect()` has no timeout of its own.

## 4. What is proved

All theorems hold for every value of the constants that the named assumptions admit
(`ScaleAssumption`: positive and even; `RegistryAssumption`, `DarkPoolAssumption`,
`VenueAssumption`, `WalletAssumption`, `TokenAssumption`, `ConnectAssumption`, `ClientAssumption`,
`MockAssumption`: the types of the parameters, terms with `minFill <= quantity` as the template's
`ensure` demands, instruments of a market distinct; `MockLedgerAssumption`: the in-memory ledger starts
without holdings; `DemoAssumption`: a new trader of the browser's market can pay for its demo orders;
`DoublesAssumption`: spacings are positive and finitely many; `RoundingAssumption`: what operations on
amounts and on counts of ticks round is little next to a tick, as it is with real doubles for amounts
below 2^15 and limit prices up to 15; the seeded balances are at most 5000 and the pools trade at
1.5 and 2.5, and what a user types beyond is not covered).
TLC evaluates them in the runs of the modules that declare them. Together the theorems state every
invariant and every action property that a run checks; §4 ends with what is left to TLC.

* **Arithmetic** (`DarkPoolMathProofs`). `FloorTo10IsFloor`: the half-even cast and the step down are
  the exact floor. From the uniqueness and monotony of the floor: `MidpointWithinLimits`. From its
  superadditivity, `FundingCarriesThrough`: what a fill at a price within the limit sends and what the
  remainder can still need add up to at most what was needed before. This is the fact the whole
  funding argument rests on.
* **The registry** (`RegistryTokenProofs`). `Total` is a recursive function over a list and `Value` a
  sum over a finite set; that they exist, are natural numbers, and what adding, removing and splitting
  does to them are lemmas, by induction on the length and on `Cardinality`. A spend (`Spent`) then takes
  a list of distinct holdings out and puts its change in. `LedgerInv` (types, finitely many
  contracts, no active one with an id yet to be given) is inductive, with `Supplied`: what all parties are
  worth is what was minted. `Worth` is about any *set* of parties, so one lemma per action
  (`Keeps`, `Issues`, `Pays`) serves the total and the balance of one. `ValueIsConserved`,
  `ValueLeavesWhole` and `RegistryTypeCorrect` follow.
* **The contracts** (`DarkPoolProofs`). `Invariance`: `Spec => []IInv`. None of `FundedThroughout`,
  `NeverOverspent` and `WithinLimit` is inductive alone. `IInv` adds
  - `DeclaredOwn`: a pool-placed order declares its own trader's holdings of the instrument it sends,
    so that after a fill the change is exactly the total less what was sent;
  - `OneActive`: an order and its remainders are never active together, so one chain is charged by
    one order at a time;
  - `Budget`: what an active order can still send and fill fits in what its chain has left.

  There is a lemma per action (`HoldingStepPreserves`, `RestPreserves`, `OrderFillPreserves`,
  `MatchPreserves`), with one step per conjunct it can disturb. The theorems `TypeCorrect`,
  `FundingNeverRunsOut`, `SpendingIsBounded` and `LimitsAreRespected` follow. `CrossingOrdersSettle`
  (`Settleable`) uses `FundedThroughout` and `DeclaredOwn`: if the declared holdings are all there,
  every guard of both fills holds. Three action properties follow from `IInv` step by step:
  `OnlyDeclaredIsSpent`; `RemaindersInherit`, which also needs `FreshIds`, that no id in use is the
  next one, so that the change of a fill is new; and `EscrowNeverLeaksAlone`, that what a fill outside a
  match escrowed goes back or is settled against the mirrored leg.
  `PoolLedgerInvariance` carries `LedgerInv` and `Supplied` over to the dark pool's steps, and
  `PoolConservesValue` reads conservation off.
* **The refinement** (`DarkPoolProofs`). `ImplementsIdealMarket` is
  `Spec => DeliveryVersusPayment`. A table of balances that moves as `Moved` says is determined by the
  `Worth` of each party, so each step needs only what it does to that (the registry's lemmas) and to
  the set of intents: a placement announces, a cancel or a lone fill retires, a match settles, both
  legs within both limits, the floor of the quote included, and a registry step issues or pays. It rests on `IInv`
  (`OneActive`: the remainder is the only order of its chain) and on `LedgerInv` (the amounts are
  there).
* **The matcher** (`MatcherProofs`). `decimal.ts` computes with BigInt division; `DecimalsAgree` and
  `FundingTargetsAgree` show it equal to the contract's on all positive amounts, and `LivenessAgrees`
  that the service and the contract put the instant of expiry on the same side.
  - A finite set ordered totally has one sorted list (`Lists`): an element's place is how many are
    before it. The lemmas about a pass are about any set of `Quoted` orders (own ids, positive
    quantities and prices) and not about the contracts', so that `WiringProofs` uses them as well.
  - `Runs` says that a function is a run of the greedy loop: what the plans are after each buy. By
    induction on the position in the book, each plan is a crossing pair within the floors, of orders not
    planned before (`PlansFacts`). `MatcherPlansPairs` adds `BookInv` (ids are unique, orders placed
    through the pool are in its market), without which a plan may pair what the contract refuses.
  - `MatcherKeepsPriority`: at each buy, the free sells are those that `PriceTimePriority` leaves it
    (`SoldIsTaken`), and the first one in the list is its best (`OfferedIsHead`); induction again gives
    that the two sets of pairs are the same.
  - `FundingIsCovered`: of all sets of `m` holdings, the first `m` of the sorted list are worth most, by
    induction on `m`; so the greedy prefix is the smallest selection, and when it falls short none is
    enough.
* **The service** (`VenueServiceProofs`). `PassInv` is `HeartbeatAlive` and `AnswersFindTheirPass`
  with the shape of `pass`, `reads` and the messages and with "at most one pass is under way"; it is
  inductive, again with a lemma per action, and gives `PassesNeverOverlap`, `HeartbeatSurvives` and
  `AnswersNeverStray` for any number of invocations and faults. `ServiceActsLawfully`
  (`VenueSpec => LedgerSpec`) is the refinement by which the service and the traders together only do
  what `DarkPool` allows: each step of `VenueNext` is a `DarkPool` step or leaves the ledger alone. So
  the theorems about the contracts hold of the composed system; `ServiceNeverOverspends` is one.
  - `SweepIsLawful` (`SweepsOnlyExpired`): `SweepInv` says that every cache and every snapshot on its
    way holds orders that were once on the ledger and that a pass remembers a time that has been; an
    order that had expired by then still has.
  - `TradesAreTrue` (`TradesAreSettled`): the hard part is that a pair is recorded once although it may
    be submitted again after a lost answer. `SpentBuy` says that what is left of a settled buy is smaller
    than what settled, over any number of remainders (`ChainsShrink`, a fact about the contracts), so the
    ledger never settles the same pair again. `PlansInv` says that a submission carries the plan its
    pass is at and the names looked up for it; `TradeInv`, that a pass whose answer is in has its pair
    settled and not yet recorded.
  - `VenueTypeCorrect`: `TypeInv` says that every cache is a set of orders with ids of their own, so
    that the plans `FindMatches` makes of it are plans (`PlansFacts`, `OrdersAreQuoted`).

* **The wallet path** (`WalletMatchProofs`). `SyncResolves` and `NoGap` are not inductive: the first
  needs that an order is known before any match of it can be submitted, the second that a sync in its
  last refresh has recorded its whole range. `WalletInv` says that every match since the service
  started is of known orders; that a planned or submitted pair is `Sound` (its orders exist, and those
  still active are known, also when an earlier process planned it, because start-up reads all active
  orders); that a range being synced is recorded once it leaves `updates`; that offsets are in order
  (`InOrder`, so no sync is answered 400); and that each request and submission has its caller's await
  and no other (`CallsInPlace`, `SubmissionsInPlace`). `Advance` sums up how a step other than a
  restart moves the shared data, so that the records a step leaves alone are covered by `HandlerStays`
  and `WalletStays` once. `SyncsResolve`, `NoMatchLeftBehind`, `OnlyMatchesRecorded` and
  `WalletTypeCorrect` follow for any number of wallets, activities and faults. `NothingRecordedTwice`
  adds `OnceInv`: the orders of a match are gone from the ledger for good (`Gone`), one activity at a
  time is under way while the history says that none overlapped (`Alone`), and the pair it is about to
  record is not on record. An overlap is the premise the code does not enforce: the violation run
  shows what happens with one.

* **Tokens and the two ledgers** (`WiringProofs`). `TokenInv` says that a cached token either has to be
  refreshed or outlives the time to refresh it by the skew, and that a call got it before that time.
  `CachedTokensAreValid` follows for any calls, lives, skew and delays, and `WiredTokensAreValid` for
  the service as it is wired.
  - `StoreInv` is the invariant of the in-memory ledger: holdings are finite and numbered below the
    counter, orders have numbers of their own, the buys of recorded trades are distinct and no longer
    in the book, what is held is what the faucet gave (`MemoryConserves`), and per party what it holds
    of the quote and what its trades cost it are what the faucet gave it and its trades brought
    (`Balanced`, which is `MemoryPaysAsRecorded`).
  - A pass is one action that folds any number of settlements, each of which may stop half-way.
    `Settles` sums up one: wherever it stops both orders go, the totals stay, and the quote moves exactly
    when the trade is recorded. `AlongNext` carries the invariant from plan to plan; it needs
    that the buys of the plans still to come are in the book, hence that no plan's buy is another's
    (`PlansFacts`).
* **The page** (`FrontendProofs`). `PageInv` bounds every version known anywhere by the ledger's, counts
  the commands on their way (`Due`), and says what the form and the row wait for: the form's last
  request was made after its order was placed, and a row that refreshes has a request under way.
  `FlowsAwaitTheirs` and `SuccessIsTrue` follow for any number of polls, losses and transactions of others.
* **The browser's market** (`FrontendProofs`). `DoubleIsNear`: an operation is off by half the largest
  spacing at most. From it, `QuoteIsTicks`: a quote is the double of a whole number of ticks, the floor of
  the product but for a loss well below a tick; and `RemaindersAreExact`: what is left of one decimal
  after another is the decimal of the exact difference, as the comment at `darkpoolMath.ts:20` hopes.
  `MarketOK` says that ids are fresh, that the totals of a label are what the seeds gave, and that what
  the trader's orders need is declared and what is declared is there, the last three up to the drift. The
  heart is `QuoteSplits`: the quotes of a partial fill and of its remainder add up to that of the
  whole and one tick at most, so each fill costs a tick (`FillDrifts`) and each rounded sum its spacings
  (`OneAdjustment`). A pass is followed buy by buy (`Stands`): those still to be considered all rest.
  `Untouched` says that before the first look the trader has what it was given and no orders, which is
  what its demo orders need, and `Kept` that a pass leaves it so. `MarketConserves`,
  `MarketCoversOrders` and `PanelsAreFresh` follow.
* **The wallet connection** (`FrontendProofs`). `ConnectInv` adds to the properties `OneAttempt`: in
  the app an attempt is under way exactly while the kit says connecting, one at a time, and its user
  wants it. `ConnectedKitIsUsable` (for any consumer), `EventsHandledOnce` and `UserStaysDisconnected`
  (for the app) follow for any number of attempts and accounts.

Every type invariant is proved as well, as a conjunct of these invariants or from one.

**What is left to TLC**: liveness. `FirstPairSettles`, `ExpiredSwept`, `CatchesUp`, `ButtonsComeBack`
and `ConnectingEnds` hold under weak fairness, and the prover reasons neither about that nor about
`ENABLED`. The three counterexamples are TLC's too. What a recursion computes — a greedy pass, a sum, a
prefix — is proved by induction written out: on explicit sets of numbers, with the least
element of a non-empty set of naturals, because the library's induction theorems take an operator as a
parameter, which the provers at hand cannot instantiate.

## 5. What is not modelled

* The overflow of `Decimal`, amounts with more than ten decimals in a request, several pools at once,
  a service clock that differs from the ledger's.
* `Scheduler.stop` (only tests call it; `finally` would re-arm the timer of a pass under way), the
  interval's length, cached holdings.
* `POST /orders` beyond its choice of funding on Canton (in `MockLedger` it is an action), the
  disclosures, the DTOs, health checks, CORS. In `WalletMatch` the sweep and the traders are one external
  actor that places and withdraws orders.
* Deduplication of commands, which is the participant's: `ledger.ts:126` sends an id that repeats, and
  what a participant makes of it is not in this repository.
* The in-memory ledger's transaction log, which only a wallet's sync reads; no wallet reaches that ledger.
* The bootstrap script, but for what it leaves.
* The histories of trades and fills, charts, and every view that only renders; quantities of more than
  ten digits after the point in the browser's order form, doubles too large or too small for the spacings
  of `Doubles`.
* `useLedger`, `useSignMessage` and the last transaction of canton-connect-kit, which pass a call
  through; what a wallet keeps of a session.
* The public fetches of the token standard, which change nothing; `contracts/deps` and `wallet/`, which
  are third-party.

## 6. What could follow

Every component with state of its own has a module, and every safety property that is checked is
proved. What is left is at the edges of the models rather than in the proofs:

1. The premise of `NothingRecordedTwice`, that activities which record do not overlap, is not enforced
   by the code; with a record keyed by the pair the theorem should hold without it.
2. `PaidAsRecorded` is about the quote, because a settlement in memory may have moved the base when it
   throws. Were it undone, as on Canton, the refinement of `IdealMarket` could be asked of that ledger too.
3. The range of `Decimal`: a bound on amounts under which no product leaves its 28 digits.
