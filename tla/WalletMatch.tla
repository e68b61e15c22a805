------------------------------ MODULE WalletMatch ------------------------------
(* The wallet path of matching.  The venue's operator asks the service for    *)
(* plans (http.ts, postMatchPlan), signs each match in a wallet, and has the  *)
(* service read the settled ones off the ledger (postMatchSync), while the    *)
(* service's own passes settle and record matches too.                        *)
(*                                                                            *)
(* An offset is the number of matches up to it: the other transactions of a   *)
(* range hold no match and are skipped.  Which pairs cross and what a match   *)
(* moves is the concern of Matcher and DarkPool; here any two disjoint pairs  *)
(* of a snapshot may be planned, and the ledger may refuse any of them.       *)
EXTENDS Integers, Sequences, FiniteSets

CONSTANTS
  Orders,       \* contract ids of orders
  Buys,         \* those of buys; the others are sells
  Wallets,      \* operators' browsers, each running one runMatchPass at a time
  Handlers,     \* activities of the service: requests and the pass of the scheduler
  Nobody,       \* the caller of an activity, or of a submission, that gave up on it
  MaxPlans,     \* bound on the pairs of a plan
  MaxFaults     \* bound on lost answers, failed reads and restarts

ASSUME WalletAssumption ==
  /\ Buys \subseteq Orders
  /\ Wallets \cap Handlers = {} /\ Nobody \notin Wallets \cup Handlers
  /\ MaxPlans \in Nat /\ MaxFaults \in Nat

VARIABLES
  fresh,      \* orders that do not exist yet
  open,       \* active orders
  matches,    \* the pairs matched so far, in ledger order
  sent,       \* matches submitted and not decided
  known,      \* projection.ts: the keys of knownOrders
  cache,      \* projection.ts: state.orders
  trades,     \* projection.ts: state.trades, as the number of records of each pair
  handler,    \* what each activity of the service is awaiting
  wallet,     \* what each runMatchPass is awaiting
  boot,       \* history: the ledger's end when the service last started
  overlapped, \* history: two activities that may record have overlapped
  faults

ledger == << fresh, open, matches >>
projection == << known, cache, trades >>
vars == << fresh, open, matches, sent, known, cache, trades, handler, wallet,
           boot, overlapped, faults >>

Pair == [buy : Buys, sell : Orders \ Buys]
Both(pair) == {pair.buy, pair.sell}
Submission == [to : Wallets \cup Handlers \cup {Nobody}, pair : Pair]

IdleHandler == [pc |-> "idle", then |-> "reply", to |-> Nobody, snap |-> {},
                plans |-> << >>, begin |-> 0, end |-> 0, known |-> {}, seen |-> {}]
IdleWallet == [pc |-> "idle", plans |-> << >>, start |-> 0, offset |-> 0, end |-> 0]

(* matcher.ts findMatches on a book, whatever it picks: an order is in at     *)
(* most one pair of a plan (Matcher!EachOrderOnce).                           *)
PlansOf(book) ==
  {s \in UNION {[1..n -> {q \in Pair : Both(q) \subseteq book}] : n \in 0..MaxPlans} :
     \A i, j \in DOMAIN s : i # j => Both(s[i]) \cap Both(s[j]) = {}}

InPass(h) == handler[h].then \in {"match", "settle"}
Serving == \E h \in Handlers : handler[h].pc # "idle"
Running == \E w \in Wallets : wallet[w].pc # "idle"

Init ==
  /\ open \in SUBSET Orders /\ fresh = Orders \ open
  /\ matches = << >> /\ sent = {}
  /\ known = open /\ cache = open /\ trades = [q \in Pair |-> 0]
  /\ handler = [h \in Handlers |-> IdleHandler]
  /\ wallet = [w \in Wallets |-> IdleWallet]
  /\ boot = 0 /\ overlapped = FALSE /\ faults = 0

(* Mutant: the offset moves on before the sync is answered.                   *)
SkippedAhead(w) == [wallet[w] EXCEPT !.pc = "ready", !.plans = Tail(@), !.end = 0,
                                     !.offset = IF wallet[w].end > 0 THEN wallet[w].end ELSE @]

(* What follows a plan that failed: the next one, or the end of the run.      *)
Skipped(w) == [wallet[w] EXCEPT !.pc = "ready", !.plans = Tail(@), !.end = 0]

Settling(h) == [handler[h] EXCEPT !.pc = "settle", !.plans = Tail(@)]
Recovering(h) == [handler[h] EXCEPT !.pc = "read", !.plans = Tail(@)]

-------------------------------------------------------------------------------
(* Traders place, cancel and archive orders; the sweep rejects them.          *)
Place(o) ==
  /\ o \in fresh
  /\ fresh' = fresh \ {o} /\ open' = open \cup {o}
  /\ UNCHANGED << matches, sent, projection, handler, wallet, boot, overlapped, faults >>

Withdraw(o) ==
  /\ o \in open
  /\ open' = open \ {o}
  /\ UNCHANGED << fresh, matches, sent, projection, handler, wallet, boot, overlapped, faults >>

(* The ledger decides a submission.  A match archives both orders and leaves  *)
(* at most one remainder; the awaiting caller has its answer.                 *)
LedgerMatches(m) ==
  /\ m \in sent /\ Both(m.pair) \subseteq open
  /\ \E rest \in {{}} \cup {{o} : o \in fresh} :
        /\ open' = (open \ Both(m.pair)) \cup rest
        /\ fresh' = fresh \ rest
  /\ matches' = Append(matches, m.pair)
  /\ sent' = sent \ {m}
  /\ wallet' = IF m.to \in Wallets
                 THEN [wallet EXCEPT ![m.to].pc = "answered", ![m.to].end = Len(matches) + 1]
                 ELSE wallet
  /\ handler' = IF m.to \in Handlers THEN [handler EXCEPT ![m.to].pc = "record"] ELSE handler
  /\ UNCHANGED << projection, boot, overlapped, faults >>

LedgerRefuses(m) ==
  /\ m \in sent
  /\ sent' = sent \ {m}
  /\ wallet' = IF m.to \in Wallets THEN [wallet EXCEPT ![m.to] = Skipped(m.to)] ELSE wallet
  /\ handler' = IF m.to \in Handlers THEN [handler EXCEPT ![m.to] = Recovering(m.to)] ELSE handler
  /\ UNCHANGED << ledger, projection, boot, overlapped, faults >>

-------------------------------------------------------------------------------
(* A refresh, in any activity: a snapshot is read, and overwrites the cache   *)
(* when its answer arrives.  Orders once seen stay known.                     *)
ReadOrders(h) ==
  /\ handler[h].pc = "read"
  /\ handler' = [handler EXCEPT ![h].pc = "apply", ![h].snap = open]
  /\ UNCHANGED << ledger, sent, projection, wallet, boot, overlapped, faults >>

(* Mutant: the known orders are those of the last refresh.                    *)
RefreshedForgets(h) ==
  /\ handler[h].pc = "apply"
  /\ known' = handler[h].snap /\ cache' = handler[h].snap
  /\ UNCHANGED trades

Refreshed(h) ==
  /\ handler[h].pc = "apply"
  /\ known' = known \cup handler[h].snap
  /\ cache' = handler[h].snap
  /\ UNCHANGED trades

(* The answer to a sync: only now the wallet moves its offset on.             *)
Synced(w) == [Skipped(w) EXCEPT !.offset = wallet[w].end]

RefreshDone(h) ==
  /\ Refreshed(h)
  /\ \/ /\ handler[h].then = "plan"
        /\ handler' = [handler EXCEPT ![h].pc = "end", ![h].snap = {}]
        /\ UNCHANGED wallet
     \/ /\ handler[h].then = "match"            \* the pass has no plans yet
        /\ \E plans \in PlansOf(cache') :
              handler' = [handler EXCEPT ![h].pc = "settle", ![h].then = "settle",
                                         ![h].plans = plans, ![h].snap = {}]
        /\ UNCHANGED wallet
     \/ /\ handler[h].then = "settle"
        /\ handler' = [handler EXCEPT ![h].pc = "settle", ![h].snap = {}]
        /\ UNCHANGED wallet
     \/ /\ handler[h].then = "reply"
        /\ handler' = [handler EXCEPT ![h] = IdleHandler]
        /\ wallet' = IF handler[h].to = Nobody THEN wallet
                       ELSE [wallet EXCEPT ![handler[h].to] = Synced(handler[h].to)]
  /\ UNCHANGED << ledger, sent, boot, overlapped, faults >>

-------------------------------------------------------------------------------
(* http.ts postMatchPlan: refresh, ledger end, plan.  The end is read after   *)
(* the refresh and the plan is made of the cache as it is when the end's      *)
(* answer arrives, which another activity may have overwritten.               *)
AskPlan(w, h) ==
  /\ wallet[w].pc = "idle" /\ handler[h].pc = "idle"
  /\ wallet' = [wallet EXCEPT ![w].pc = "planning"]
  /\ handler' = [handler EXCEPT ![h].pc = "read", ![h].then = "plan", ![h].to = w]
  /\ overlapped' = (overlapped \/ Serving \/ Running)
  /\ UNCHANGED << ledger, sent, projection, boot, faults >>

ReadEnd(h) ==
  /\ handler[h].pc = "end"
  /\ handler' = [handler EXCEPT ![h].pc = "reply", ![h].end = Len(matches)]
  /\ UNCHANGED << ledger, sent, projection, wallet, boot, overlapped, faults >>

PlanReply(h) ==
  /\ handler[h].pc = "reply"
  /\ handler' = [handler EXCEPT ![h] = IdleHandler]
  /\ \E plans \in PlansOf(cache) :
        wallet' = IF handler[h].to = Nobody THEN wallet
                    ELSE [wallet EXCEPT ![handler[h].to] =
                            [pc |-> "ready", plans |-> plans, start |-> handler[h].end,
                             offset |-> handler[h].end, end |-> 0]]
  /\ UNCHANGED << ledger, sent, projection, boot, overlapped, faults >>

(* hooks.ts runMatchPass: one plan after another is executed by the wallet    *)
(* and, when it reports the completion's offset, synced.                      *)
Execute(w) ==
  /\ wallet[w].pc = "ready" /\ wallet[w].plans # << >>
  /\ sent' = sent \cup {[to |-> w, pair |-> Head(wallet[w].plans)]}
  /\ wallet' = [wallet EXCEPT ![w].pc = "executing"]
  /\ UNCHANGED << ledger, projection, handler, boot, overlapped, faults >>

Finish(w) ==
  /\ wallet[w].pc = "ready" /\ wallet[w].plans = << >>
  /\ wallet' = [wallet EXCEPT ![w] = IdleWallet]
  /\ UNCHANGED << ledger, sent, projection, handler, boot, overlapped, faults >>

(* http.ts syncWalletMatches takes the known orders and the trade ids before  *)
(* it awaits the updates of the range, and uses them after.  The range is     *)
(* always in order (WalletMatchProofs!InOrder), so no request is answered 400. *)
BeginSync(w, h) ==
  /\ wallet[w].pc = "answered" /\ handler[h].pc = "idle"
  /\ wallet' = [wallet EXCEPT ![w].pc = "syncing"]
  /\ handler' = [handler EXCEPT ![h] =
       [IdleHandler EXCEPT !.pc = "updates", !.to = w,
          !.begin = wallet[w].offset, !.end = wallet[w].end,
          !.known = known, !.seen = {q \in Pair : trades[q] > 0}]]
  /\ overlapped' = (overlapped \/ Serving)
  /\ UNCHANGED << ledger, sent, projection, boot, faults >>

Offsets(begin, end) == (begin + 1)..end
(* Mutant: the ids of the recorded trades are not consulted.                  *)
NewInUnchecked(h) == {matches[i] : i \in Offsets(handler[h].begin, handler[h].end)}

NewIn(h) ==
  {matches[i] : i \in Offsets(handler[h].begin, handler[h].end)} \ handler[h].seen

Recorded(new) == [q \in Pair |-> IF q \in new THEN trades[q] + 1 ELSE trades[q]]

SyncUpdates(h) ==
  LET resolved == \A i \in Offsets(handler[h].begin, handler[h].end) :
                    Both(matches[i]) \subseteq handler[h].known
      w == handler[h].to
  IN /\ handler[h].pc = "updates"
     /\ \/ /\ resolved
           /\ trades' = Recorded(NewIn(h))
           /\ handler' = [handler EXCEPT ![h].pc = "read", ![h].known = {}, ![h].seen = {}]
           /\ UNCHANGED wallet
        \/ /\ ~resolved                              \* throws before it records any
           /\ handler' = [handler EXCEPT ![h] = IdleHandler]
           /\ wallet' = IF w = Nobody THEN wallet ELSE [wallet EXCEPT ![w] = Skipped(w)]
           /\ UNCHANGED trades
     /\ UNCHANGED << ledger, sent, known, cache, boot, overlapped, faults >>

-------------------------------------------------------------------------------
(* scheduler.ts runPass and settlement.ts settle: one pass at a time plans    *)
(* from the cache, submits, and records each match whose answer it gets; a    *)
(* failure refreshes and goes on.  VenueService has the rest of it.           *)
BeginPass(h) ==
  /\ handler[h].pc = "idle" /\ ~\E g \in Handlers : InPass(g)
  /\ handler' = [handler EXCEPT ![h].pc = "read", ![h].then = "match"]
  /\ overlapped' = (overlapped \/ Serving \/ Running)
  /\ UNCHANGED << ledger, sent, projection, wallet, boot, faults >>

Submit(h) ==
  /\ handler[h].pc = "settle" /\ handler[h].plans # << >>
  /\ sent' = sent \cup {[to |-> h, pair |-> Head(handler[h].plans)]}
  /\ handler' = [handler EXCEPT ![h].pc = "await"]
  /\ UNCHANGED << ledger, projection, wallet, boot, overlapped, faults >>

(* Mutant: the trade is recorded without awaiting the ledger's answer.        *)
RecordTradeEarly(h) ==
  /\ handler[h].pc \in {"await", "record"}
  /\ trades' = Recorded({Head(handler[h].plans)})
  /\ handler' = [handler EXCEPT ![h] = Settling(h)]
  /\ UNCHANGED << ledger, sent, known, cache, wallet, boot, overlapped, faults >>

RecordTrade(h) ==
  /\ handler[h].pc = "record"
  /\ trades' = Recorded({Head(handler[h].plans)})
  /\ handler' = [handler EXCEPT ![h] = Settling(h)]
  /\ UNCHANGED << ledger, sent, known, cache, wallet, boot, overlapped, faults >>

EndPass(h) ==
  /\ handler[h].pc = "settle" /\ handler[h].plans = << >>
  /\ handler' = [handler EXCEPT ![h] = IdleHandler]
  /\ UNCHANGED << ledger, sent, projection, wallet, boot, overlapped, faults >>

-------------------------------------------------------------------------------
Disowned(c) == {IF m.to = c THEN [m EXCEPT !.to = Nobody] ELSE m : m \in sent}
Orphaned(w) == [h \in Handlers |->
  IF handler[h].to = w THEN [handler[h] EXCEPT !.to = Nobody] ELSE handler[h]]
Fault == faults < MaxFaults /\ faults' = faults + 1

(* A call of a browser fails: the service cannot know, and goes on; a match   *)
(* that was sent is still decided.                                            *)
GivesUp(w) ==
  /\ Fault
  /\ wallet[w].pc \in {"planning", "executing", "answered", "syncing"}
  /\ wallet' = [wallet EXCEPT ![w] = IF @.pc = "planning" THEN IdleWallet ELSE Skipped(w)]
  /\ sent' = Disowned(w)
  /\ handler' = Orphaned(w)
  /\ UNCHANGED << ledger, projection, boot, overlapped >>

(* A read of an activity fails: the request is answered 500, the pass ends.   *)
ReadFails(h) ==
  LET w == handler[h].to
  IN /\ Fault
     /\ handler[h].pc \in {"read", "apply", "end", "reply", "updates"}
     /\ handler' = [handler EXCEPT ![h] = IdleHandler]
     /\ wallet' = IF w = Nobody THEN wallet
                    ELSE [wallet EXCEPT ![w] =
                            IF @.pc = "planning" THEN IdleWallet ELSE Skipped(w)]
     /\ UNCHANGED << ledger, sent, projection, boot, overlapped >>

(* The answer of a submission of the pass is lost, or late.                   *)
SettleFails(h) ==
  /\ Fault
  /\ handler[h].pc \in {"await", "record"}
  /\ handler' = [handler EXCEPT ![h] = Recovering(h)]
  /\ sent' = Disowned(h)
  /\ UNCHANGED << ledger, projection, wallet, boot, overlapped >>

(* The service restarts: main refreshes before it listens, and trades start   *)
(* empty.  Browsers lose the calls they await and keep their offsets.         *)
Restart ==
  /\ Fault
  /\ handler' = [h \in Handlers |-> IdleHandler]
  /\ known' = open /\ cache' = open /\ trades' = [q \in Pair |-> 0]
  /\ sent' = {IF m.to \in Handlers THEN [m EXCEPT !.to = Nobody] ELSE m : m \in sent}
  /\ wallet' = [w \in Wallets |-> CASE wallet[w].pc = "planning" -> IdleWallet
                                    [] wallet[w].pc = "syncing" -> Skipped(w)
                                    [] OTHER -> wallet[w]]
  /\ boot' = Len(matches)
  /\ UNCHANGED << ledger, overlapped >>

Next ==
  \/ \E o \in Orders : Place(o) \/ Withdraw(o)
  \/ \E m \in sent : LedgerMatches(m) \/ LedgerRefuses(m)
  \/ \E h \in Handlers :
        \/ ReadOrders(h) \/ RefreshDone(h) \/ ReadEnd(h) \/ PlanReply(h) \/ SyncUpdates(h)
        \/ BeginPass(h) \/ Submit(h) \/ RecordTrade(h) \/ EndPass(h)
        \/ ReadFails(h) \/ SettleFails(h)
  \/ \E w \in Wallets :
        \/ Execute(w) \/ Finish(w) \/ GivesUp(w)
        \/ \E h \in Handlers : AskPlan(w, h) \/ BeginSync(w, h)
  \/ Restart

Spec == Init /\ [][Next]_vars

-------------------------------------------------------------------------------
HandlerState == [pc : {"idle", "read", "apply", "end", "reply", "updates",
                       "settle", "await", "record"},
                 then : {"reply", "plan", "match", "settle"},
                 to : Wallets \cup {Nobody}, snap : SUBSET Orders, plans : Seq(Pair),
                 begin : Nat, end : Nat, known : SUBSET Orders, seen : SUBSET Pair]
WalletState == [pc : {"idle", "planning", "ready", "executing", "answered", "syncing"},
                plans : Seq(Pair), start : Nat, offset : Nat, end : Nat]

(* Every variable has its type, and an order is not both new and active.      *)
WalletTypeOK ==
  /\ fresh \in SUBSET Orders /\ open \in SUBSET Orders /\ fresh \cap open = {}
  /\ matches \in Seq(Pair) /\ sent \in SUBSET Submission
  /\ known \in SUBSET Orders /\ cache \in SUBSET Orders /\ trades \in [Pair -> Nat]
  /\ handler \in [Handlers -> HandlerState] /\ wallet \in [Wallets -> WalletState]
  /\ boot \in Nat /\ overlapped \in BOOLEAN /\ faults \in 0..MaxFaults

(* match-sync always resolves the orders of its range (tradeFromTransaction   *)
(* does not throw), as long as the range begins no earlier than the service:  *)
(* whoever planned the matches in it, the orders were known when the request  *)
(* arrived, although all of them are archived by then.                        *)
SyncResolves ==
  \A h \in Handlers :
    handler[h].pc = "updates" /\ handler[h].begin >= boot =>
      \A i \in Offsets(handler[h].begin, handler[h].end) :
        Both(matches[i]) \subseteq handler[h].known

(* A wallet's offset leaves no match behind: all matches between the end it   *)
(* was planned at and its offset are recorded, its own and those of others,   *)
(* whatever calls failed on the way, unless the service restarted meanwhile.  *)
NoGap ==
  \A w \in Wallets :
    wallet[w].start >= boot =>
      \A i \in Offsets(wallet[w].start, wallet[w].offset) : trades[matches[i]] > 0

(* Only what the ledger matched is recorded as a trade.                       *)
TradesHappened ==
  \A q \in Pair : trades[q] > 0 => \E i \in 1..Len(matches) : matches[i] = q

(* A trade is recorded once, whatever fails and is retried, as long as the    *)
(* activities that record do not overlap: the passes of the service, the runs *)
(* of wallets, and requests whose caller has gone.                            *)
RecordedOnce == ~overlapped => \A q \in Pair : trades[q] <= 1

(* The stable trade id keeps a trade from being recorded twice.               *)
OneRecordPerTrade == \A q \in Pair : trades[q] <= 1
===============================================================================
