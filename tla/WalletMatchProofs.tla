--------------------------- MODULE WalletMatchProofs ---------------------------
(* Proofs about the wallet path, for any orders, wallets, activities of the   *)
(* service and number of faults: a sync resolves every match of its range,    *)
(* and an offset leaves no match behind.                                      *)
EXTENDS WalletMatch, TLAPS

-------------------------------------------------------------------------------
(* The inductive invariant.                                                   *)

Shapes ==
  /\ handler \in [Handlers -> HandlerState] /\ wallet \in [Wallets -> WalletState]
  /\ sent \in SUBSET Submission /\ overlapped \in BOOLEAN /\ faults \in 0..MaxFaults

(* Every order of a match made since the service started is known to it.      *)
DataOK ==
  /\ fresh \in SUBSET Orders /\ open \in SUBSET Orders /\ fresh \cap open = {}
  /\ matches \in Seq(Pair) /\ trades \in [Pair -> Nat]
  /\ known \in SUBSET Orders /\ cache \subseteq known /\ known \cap fresh = {}
  /\ boot \in Nat /\ boot <= Len(matches)
  /\ \A i \in Offsets(boot, Len(matches)) : Both(matches[i]) \subseteq known
  /\ TradesHappened

(* A planned pair is never of orders still to come, and those of its orders   *)
(* that are active are known to this process, also when an earlier one        *)
(* planned it: what is active at start-up is known.                           *)
Sound(q) == Both(q) \cap fresh = {} /\ Both(q) \cap open \subseteq known
PlansOK(plans) == \A i \in 1..Len(plans) : Sound(plans[i])
AllRecorded(begin, end) == \A i \in Offsets(begin, end) : trades[matches[i]] > 0

(* What a request found recorded, and what it recorded, stays recorded.       *)
HandlerOK(r) ==
  /\ PlansOK(r.plans) /\ r.snap \cap fresh = {}
  /\ r.begin <= r.end /\ r.end <= Len(matches)
  /\ r.pc = "idle" => r = IdleHandler
  /\ r.pc = "updates" => r.then = "reply"
  /\ r.pc \in {"end", "reply"} => r.then = "plan"
  /\ r.pc \in {"settle", "await", "record"} => r.then = "settle"
  /\ r.then \in {"match", "settle"} => r.to = Nobody
  /\ r.pc \in {"await", "record"} => r.plans # << >>
  /\ r.pc = "record" => \E i \in 1..Len(matches) : matches[i] = r.plans[1]
  /\ \A q \in r.seen : trades[q] > 0
  /\ r.pc = "updates" /\ r.begin >= boot =>
       \A i \in Offsets(r.begin, r.end) : Both(matches[i]) \subseteq r.known
  /\ r.pc \in {"read", "apply"} /\ r.then = "reply" /\ r.begin >= boot =>
       AllRecorded(r.begin, r.end)

(* Offsets are in order, so no sync is answered 400.                          *)
InOrder(r) ==
  /\ r.start <= r.offset /\ r.offset <= Len(matches)
  /\ r.pc \in {"answered", "syncing"} => r.offset < r.end /\ r.end <= Len(matches)

WalletOK(r) ==
  /\ PlansOK(r.plans) /\ InOrder(r)
  /\ r.pc \in {"executing", "answered", "syncing"} => r.plans # << >>
  /\ r.start >= boot => AllRecorded(r.start, r.offset)

(* A request with a caller has the await of its caller, and no other has it.  *)
CallsInPlace ==
  /\ \A h \in Handlers, w \in Wallets : handler[h].to = w =>
       \/ handler[h].then = "plan" /\ wallet[w].pc = "planning"
       \/ /\ handler[h].then = "reply" /\ wallet[w].pc = "syncing"
          /\ handler[h].begin = wallet[w].offset /\ handler[h].end = wallet[w].end
  /\ \A g, h \in Handlers, w \in Wallets : handler[g].to = w /\ handler[h].to = w => g = h

(* Likewise a submission.                                                     *)
SubmissionsInPlace ==
  /\ \A m \in sent : m.to \in Wallets => wallet[m.to].pc = "executing"
  /\ \A m \in sent : m.to \in Handlers =>
       handler[m.to].pc = "await" /\ m.pair = handler[m.to].plans[1]
  /\ \A m, n \in sent : m.to # Nobody /\ m.to = n.to => m = n

WalletInv ==
  /\ Shapes /\ DataOK
  /\ \A h \in Handlers : HandlerOK(handler[h])
  /\ \A w \in Wallets : WalletOK(wallet[w])
  /\ \A m \in sent : Sound(m.pair)
  /\ CallsInPlace /\ SubmissionsInPlace

(* How every step but a restart moves the data that records depend on.        *)
Advance ==
  /\ DataOK'
  /\ fresh' \subseteq fresh /\ open' \subseteq open \cup fresh /\ known \subseteq known'
  /\ boot' = boot /\ Len(matches) <= Len(matches')
  /\ \A i \in 1..Len(matches) : matches'[i] = matches[i]
  /\ \A q \in Pair : trades[q] > 0 => trades'[q] > 0

-------------------------------------------------------------------------------
LEMMA TailOf ==
  ASSUME NEW S, NEW s \in Seq(S), s # << >>
  PROVE  /\ Len(s) \in Nat /\ Len(s) > 0 /\ Head(s) = s[1] /\ s[1] \in S
         /\ Tail(s) \in Seq(S) /\ Len(Tail(s)) = Len(s) - 1
         /\ \A i \in 1..Len(Tail(s)) : Tail(s)[i] = s[i + 1]
OBVIOUS

LEMMA PlansFromBook ==
  ASSUME NEW book \in SUBSET Orders, NEW plans \in PlansOf(book)
  PROVE  /\ plans \in Seq(Pair)
         /\ \A i \in 1..Len(plans) : Both(plans[i]) \subseteq book
BY WalletAssumption DEF PlansOf

LEMMA Idle ==
  /\ IdleHandler \in HandlerState /\ IdleHandler.plans = << >>
  /\ IdleWallet \in WalletState
BY WalletAssumption DEF IdleHandler, IdleWallet, HandlerState, WalletState

LEMMA Lengths ==
  ASSUME DataOK
  PROVE  Len(matches) \in Nat /\ \A i \in 1..Len(matches) : matches[i] \in Pair
BY DEF DataOK

LEMMA Extends ==
  ASSUME DataOK'
  PROVE  Len(matches') \in Nat /\ \A i \in 1..Len(matches') : matches'[i] \in Pair
BY DEF DataOK

LEMMA IdleOK ==
  ASSUME DataOK'
  PROVE  HandlerOK(IdleHandler)' /\ WalletOK(IdleWallet)'
<1>1. HandlerOK(IdleHandler)'
  BY Extends DEF HandlerOK, IdleHandler, PlansOK, Offsets
<1>2. WalletOK(IdleWallet)'
  BY Extends DEF WalletOK, IdleWallet, PlansOK, InOrder, AllRecorded, Offsets
<1> QED BY <1>1, <1>2

LEMMA Unmoved ==
  ASSUME DataOK, UNCHANGED << ledger, projection, boot >>
  PROVE  Advance
BY DEF DataOK, Advance, ledger, projection, TradesHappened, Offsets, Pair, Both

(* Recording matches that happened.                                           *)
LEMMA RecordingAdvances ==
  ASSUME DataOK, NEW new \in SUBSET Pair, trades' = Recorded(new),
         \A q \in new : \E i \in 1..Len(matches) : matches[i] = q,
         UNCHANGED << fresh, open, matches, known, cache, boot >>
  PROVE  Advance
<1>1. /\ trades' \in [Pair -> Nat]
      /\ \A q \in Pair : trades[q] > 0 => trades'[q] > 0
      /\ \A q \in Pair : trades'[q] > 0 => trades[q] > 0 \/ q \in new
  BY DEF Recorded, DataOK
<1>2. TradesHappened'
  BY <1>1 DEF DataOK, TradesHappened
<1>3. DataOK'
  BY <1>1, <1>2 DEF DataOK, Offsets
<1> QED BY <1>1, <1>3, Lengths DEF Advance

LEMMA SoundKept ==
  ASSUME NEW q \in Pair, Sound(q), Advance
  PROVE  Sound(q)'
BY DEF Sound, Advance, Both

LEMMA RecordedKept ==
  ASSUME DataOK, NEW begin \in Nat, NEW end \in Nat, end <= Len(matches), Advance,
         AllRecorded(begin, end)
  PROVE  AllRecorded(begin, end)'
<1>1. SUFFICES ASSUME NEW i \in Offsets(begin, end)
               PROVE  trades'[matches'[i]] > 0
  BY DEF AllRecorded, Offsets
<1>2. i \in 1..Len(matches) /\ trades[matches[i]] > 0
  BY Lengths DEF AllRecorded, Offsets
<1> QED BY <1>2, Lengths DEF Advance

(* The record of an activity, or of a wallet, stays good as the data advance. *)
LEMMA HandlerStays ==
  ASSUME DataOK, Advance, NEW r \in HandlerState, HandlerOK(r)
  PROVE  HandlerOK(r)'
<1>1. PlansOK(r.plans)'
  BY SoundKept DEF HandlerOK, PlansOK, HandlerState
<1>2. r.pc \in {"read", "apply"} /\ r.then = "reply" /\ r.begin >= boot =>
        AllRecorded(r.begin, r.end)'
  BY RecordedKept DEF HandlerOK, HandlerState
<1>3. /\ r.pc = "updates" /\ r.begin >= boot =>
           \A i \in Offsets(r.begin, r.end) : Both(matches'[i]) \subseteq r.known
      /\ r.pc = "record" => \E i \in 1..Len(matches') : matches'[i] = r.plans[1]
      /\ r.end <= Len(matches')
  BY Lengths, Extends DEF HandlerOK, HandlerState, Advance, Offsets
<1>4. \A q \in r.seen : trades'[q] > 0
  BY DEF HandlerOK, HandlerState, Advance
<1>5. r.snap \cap fresh' = {} /\ boot' = boot
  BY DEF HandlerOK, Advance
<1> QED BY <1>1, <1>2, <1>3, <1>4, <1>5 DEF HandlerOK

LEMMA WalletStays ==
  ASSUME DataOK, Advance, NEW r \in WalletState, WalletOK(r)
  PROVE  WalletOK(r)'
<1>1. PlansOK(r.plans)'
  BY SoundKept DEF WalletOK, PlansOK, WalletState
<1>2. r.start >= boot => AllRecorded(r.start, r.offset)'
  BY RecordedKept DEF WalletOK, InOrder, WalletState
<1>3. InOrder(r)'
  BY Lengths, Extends DEF WalletOK, InOrder, WalletState, Advance
<1>4. boot' = boot
  BY DEF Advance
<1> QED BY <1>1, <1>2, <1>3, <1>4 DEF WalletOK

(* A step that is not a restart has only to account for what it changes.      *)
LEMMA Assemble ==
  ASSUME WalletInv, Advance, Shapes', CallsInPlace', SubmissionsInPlace',
         \A h \in Handlers : handler'[h] = handler[h] \/ HandlerOK(handler[h])',
         \A w \in Wallets : wallet'[w] = wallet[w] \/ WalletOK(wallet[w])',
         \A m \in sent' : m.pair \in {n.pair : n \in sent} \/ Sound(m.pair)'
  PROVE  WalletInv'
<1>1. ASSUME NEW h \in Handlers, handler'[h] = handler[h]
      PROVE  HandlerOK(handler[h])'
  <2>1. PICK r : r = handler[h]
    OBVIOUS
  <2>2. HandlerOK(r)'
    BY <2>1, HandlerStays DEF WalletInv, Shapes
  <2> QED BY <1>1, <2>1, <2>2
<1>2. ASSUME NEW w \in Wallets, wallet'[w] = wallet[w]
      PROVE  WalletOK(wallet[w])'
  <2>1. PICK r : r = wallet[w]
    OBVIOUS
  <2>2. WalletOK(r)'
    BY <2>1, WalletStays DEF WalletInv, Shapes
  <2> QED BY <1>2, <2>1, <2>2
<1>3. \A m \in sent' : Sound(m.pair)'
  BY SoundKept DEF WalletInv, Shapes, Submission
<1> QED BY <1>1, <1>2, <1>3 DEF WalletInv, Advance

(* Calls and submissions that a step leaves where they are.                   *)
LEMMA CallsKept ==
  ASSUME WalletInv, wallet' = wallet,
         \A h \in Handlers : handler'[h].to \in Wallets =>
           /\ handler'[h].to = handler[h].to /\ handler'[h].then = handler[h].then
           /\ \/ handler[h].then = "plan"
              \/ handler'[h].begin = handler[h].begin /\ handler'[h].end = handler[h].end
  PROVE  CallsInPlace'
BY DEF WalletInv, CallsInPlace

LEMMA SubmissionsKept ==
  ASSUME WalletInv, sent' \subseteq sent,
         \A h \in Handlers : handler[h].pc = "await" => handler'[h] = handler[h],
         \A w \in Wallets : wallet[w].pc = "executing" => wallet'[w].pc = "executing"
  PROVE  SubmissionsInPlace'
BY DEF WalletInv, SubmissionsInPlace

-------------------------------------------------------------------------------
(* The ledger.                                                                *)

LEMMA PlacePreserves ==
  ASSUME WalletInv, NEW o \in Orders, Place(o)
  PROVE  WalletInv'
<1>1. Advance
  BY DEF WalletInv, Place, Advance, DataOK, TradesHappened, Offsets, projection
<1>2. Shapes' /\ CallsInPlace' /\ SubmissionsInPlace'
  BY DEF WalletInv, Place, Shapes, CallsInPlace, SubmissionsInPlace
<1>3. UNCHANGED << handler, wallet, sent >>
  BY DEF Place
<1> QED BY <1>1, <1>2, <1>3, Assemble

LEMMA WithdrawPreserves ==
  ASSUME WalletInv, NEW o \in Orders, Withdraw(o)
  PROVE  WalletInv'
<1>1. Advance
  BY DEF WalletInv, Withdraw, Advance, DataOK, TradesHappened, Offsets, projection
<1>2. Shapes' /\ CallsInPlace' /\ SubmissionsInPlace'
  BY DEF WalletInv, Withdraw, Shapes, CallsInPlace, SubmissionsInPlace
<1>3. UNCHANGED << handler, wallet, sent >>
  BY DEF Withdraw
<1> QED BY <1>1, <1>2, <1>3, Assemble

(* The caller of a submission, and what it has left to do.                    *)
LEMMA Caller ==
  ASSUME WalletInv, NEW m \in sent
  PROVE  /\ m \in Submission /\ m.pair \in Pair
         /\ m.to \in Wallets =>
              /\ m.to \notin Handlers
              /\ wallet[m.to] \in WalletState /\ WalletOK(wallet[m.to])
              /\ wallet[m.to].pc = "executing" /\ wallet[m.to].plans # << >>
              /\ \A h \in Handlers : handler[h].to # m.to
         /\ m.to \in Handlers =>
              /\ handler[m.to] \in HandlerState /\ HandlerOK(handler[m.to])
              /\ handler[m.to].pc = "await" /\ handler[m.to].plans # << >>
              /\ handler[m.to].then = "settle" /\ handler[m.to].to = Nobody
              /\ m.pair = handler[m.to].plans[1]
<1>1. m \in Submission /\ m.pair \in Pair
  BY DEF WalletInv, Shapes, Submission
<1>2. ASSUME m.to \in Wallets
      PROVE  /\ m.to \notin Handlers
             /\ wallet[m.to] \in WalletState /\ WalletOK(wallet[m.to])
             /\ wallet[m.to].pc = "executing"
  BY <1>2, WalletAssumption DEF WalletInv, Shapes, SubmissionsInPlace
<1>3. ASSUME m.to \in Wallets
      PROVE  wallet[m.to].plans # << >> /\ \A h \in Handlers : handler[h].to # m.to
  BY <1>2, <1>3 DEF WalletInv, CallsInPlace, WalletOK
<1>4. ASSUME m.to \in Handlers
      PROVE  /\ handler[m.to] \in HandlerState /\ HandlerOK(handler[m.to])
             /\ handler[m.to].pc = "await" /\ m.pair = handler[m.to].plans[1]
  BY <1>4 DEF WalletInv, Shapes, SubmissionsInPlace
<1>5. ASSUME m.to \in Handlers
      PROVE  /\ handler[m.to].plans # << >>
             /\ handler[m.to].then = "settle" /\ handler[m.to].to = Nobody
  BY <1>4, <1>5 DEF HandlerOK
<1> QED BY <1>1, <1>2, <1>3, <1>4, <1>5

(* After a plan fails, a wallet and a pass go on in order.                    *)
LEMMA SkippedOK ==
  ASSUME WalletInv, Advance, NEW w \in Wallets, wallet[w].plans # << >>,
         wallet'[w] = Skipped(w)
  PROVE  /\ wallet'[w] \in WalletState /\ wallet'[w].pc = "ready"
         /\ WalletOK(wallet[w])'
<1>1. PICK r : r = wallet[w]
  OBVIOUS
<1>2. r \in WalletState /\ WalletOK(r) /\ r.plans # << >> /\ DataOK
  BY <1>1 DEF WalletInv, Shapes
<1>3. PICK s : s = [r EXCEPT !.pc = "ready", !.plans = Tail(@), !.end = 0]
  OBVIOUS
<1>4. r.plans \in Seq(Pair)
  BY <1>2 DEF WalletState
<1>5. /\ s \in WalletState /\ s.pc = "ready" /\ s.plans = Tail(r.plans)
      /\ s.start = r.start /\ s.offset = r.offset
  BY <1>2, <1>3, <1>4, TailOf DEF WalletState
<1>6. WalletOK(r)'
  BY <1>2, WalletStays
<1>7. PlansOK(s.plans)'
  <2>1. \A i \in 1..Len(s.plans) : i + 1 \in 1..Len(r.plans) /\ s.plans[i] = r.plans[i + 1]
    BY <1>2, <1>4, <1>5, TailOf
  <2> QED BY <1>6, <2>1 DEF WalletOK, PlansOK
<1>8. InOrder(s)'
  BY <1>5, <1>6 DEF WalletOK, InOrder
<1>9. wallet'[w] = s
  BY <1>1, <1>3 DEF Skipped
<1>10. WalletOK(s)'
  BY <1>5, <1>6, <1>7, <1>8 DEF WalletOK
<1> QED BY <1>5, <1>9, <1>10

LEMMA PassGoesOn ==
  ASSUME WalletInv, Advance, NEW h \in Handlers, handler[h].pc \in {"await", "record"},
         handler'[h] \in {Settling(h), Recovering(h)}
  PROVE  /\ handler'[h] \in HandlerState /\ handler'[h].pc \in {"settle", "read"}
         /\ handler'[h].to = Nobody /\ HandlerOK(handler[h])'
<1>1. PICK r : r = handler[h]
  OBVIOUS
<1>2. /\ r \in HandlerState /\ HandlerOK(r) /\ DataOK /\ r.plans # << >>
      /\ r.then = "settle" /\ r.to = Nobody
  BY <1>1 DEF WalletInv, Shapes, HandlerOK
<1>3. PICK pc \in {"settle", "read"} :
        handler'[h] = [r EXCEPT !.pc = pc, !.plans = Tail(@)]
  BY <1>1 DEF Settling, Recovering
<1>4. PICK s : s = [r EXCEPT !.pc = pc, !.plans = Tail(@)]
  OBVIOUS
<1>5. r.plans \in Seq(Pair)
  BY <1>2 DEF HandlerState
<1>6. /\ s \in HandlerState /\ s.pc = pc /\ s.plans = Tail(r.plans) /\ s.then = "settle"
      /\ s.to = Nobody /\ s.snap = r.snap /\ s.seen = r.seen
      /\ s.begin = r.begin /\ s.end = r.end
  BY <1>2, <1>4, <1>5, TailOf DEF HandlerState
<1>7. HandlerOK(r)'
  BY <1>2, HandlerStays
<1>8. PlansOK(s.plans)'
  <2>1. \A i \in 1..Len(s.plans) : i + 1 \in 1..Len(r.plans) /\ s.plans[i] = r.plans[i + 1]
    BY <1>2, <1>5, <1>6, TailOf
  <2> QED BY <1>7, <2>1 DEF HandlerOK, PlansOK
<1>9. HandlerOK(s)'
  BY <1>6, <1>7, <1>8 DEF HandlerOK
<1> QED BY <1>3, <1>4, <1>6, <1>9

LEMMA LedgerMatchesPreserves ==
  ASSUME WalletInv, NEW m \in sent, LedgerMatches(m)
  PROVE  WalletInv'
<1> USE DEF projection
<1>1. m \in Submission /\ m.pair \in Pair /\ Sound(m.pair) /\ DataOK
  BY Caller DEF WalletInv
<1>2. /\ matches' = Append(matches, m.pair) /\ Len(matches') = Len(matches) + 1
      /\ \A i \in 1..Len(matches) : matches'[i] = matches[i]
      /\ matches'[Len(matches) + 1] = m.pair /\ matches' \in Seq(Pair)
  BY <1>1, Lengths DEF LedgerMatches, DataOK
<1>3. PICK rest \in {{}} \cup {{o} : o \in fresh} :
        open' = (open \ Both(m.pair)) \cup rest /\ fresh' = fresh \ rest
  BY DEF LedgerMatches
<1>4. UNCHANGED << known, cache, trades, boot, overlapped, faults >> /\ sent' = sent \ {m}
  BY DEF LedgerMatches
<1>5. Both(m.pair) \subseteq known
  BY <1>1 DEF LedgerMatches, Sound
<1>6. DataOK'
  <2>1. /\ fresh' \in SUBSET Orders /\ open' \in SUBSET Orders /\ fresh' \cap open' = {}
        /\ fresh' \subseteq fresh
    BY <1>1, <1>3 DEF DataOK
  <2>2. \A i \in Offsets(boot, Len(matches')) : Both(matches'[i]) \subseteq known
    BY <1>1, <1>2, <1>5, Lengths DEF DataOK, Offsets
  <2>3. TradesHappened'
    BY <1>1, <1>2, <1>4, Lengths DEF DataOK, TradesHappened
  <2>4. /\ trades' \in [Pair -> Nat] /\ known' \in SUBSET Orders /\ cache' \subseteq known'
        /\ known' \cap fresh' = {} /\ boot' \in Nat
    BY <1>1, <1>4, <2>1 DEF DataOK
  <2>5. boot' <= Len(matches') /\ matches' \in Seq(Pair)
    BY <1>1, <1>2, <1>4, Lengths DEF DataOK
  <2>6. \A i \in Offsets(boot', Len(matches')) : Both(matches'[i]) \subseteq known'
    BY <1>4, <2>2
  <2> QED BY <2>1, <2>3, <2>4, <2>5, <2>6 DEF DataOK
<1>7. Advance
  BY <1>1, <1>2, <1>3, <1>4, <1>6, Lengths DEF Advance
<1>8. /\ wallet' = IF m.to \in Wallets
           THEN [wallet EXCEPT ![m.to].pc = "answered", ![m.to].end = Len(matches) + 1]
           ELSE wallet
      /\ handler' = IF m.to \in Handlers THEN [handler EXCEPT ![m.to].pc = "record"] ELSE handler
  BY DEF LedgerMatches
<1>9. \A n \in sent' : n \in sent /\ (n.to # Nobody => n.to # m.to)
  BY <1>4 DEF WalletInv, SubmissionsInPlace
<1>10. CASE m.to \in Wallets
  <2>1. PICK w \in Wallets : w = m.to
    BY <1>10
  <2>2. /\ handler' = handler
        /\ \A v \in Wallets \ {w} : wallet'[v] = wallet[v]
        /\ wallet'[w] = [wallet[w] EXCEPT !.pc = "answered", !.end = Len(matches) + 1]
    BY <1>8, <2>1, Caller DEF WalletInv, Shapes
  <2>3. PICK r : r = wallet[w]
    OBVIOUS
  <2>4. /\ r \in WalletState /\ WalletOK(r) /\ r.plans # << >>
        /\ \A h \in Handlers : handler[h].to # w
    BY <2>1, <2>3, Caller
  <2>5. PICK s : s = [r EXCEPT !.pc = "answered", !.end = Len(matches) + 1]
    OBVIOUS
  <2>6. /\ s \in WalletState /\ s.pc = "answered" /\ s.plans = r.plans
        /\ s.start = r.start /\ s.offset = r.offset /\ s.end = Len(matches) + 1
    <3>1. Len(matches) + 1 \in Nat
      BY <1>1, Lengths
    <3> QED BY <2>4, <2>5, <3>1 DEF WalletState
  <2>7. WalletOK(s)'
    <3>1. WalletOK(r)'
      BY <1>1, <1>7, <2>4, WalletStays
    <3>2. InOrder(s)'
      BY <1>1, <1>2, <2>4, <2>6, <3>1, Lengths DEF WalletOK, InOrder, WalletState
    <3> QED BY <2>4, <2>6, <3>1, <3>2 DEF WalletOK
  <2>8. Shapes'
    BY <1>4, <1>8, <1>10, <2>2, <2>3, <2>5, <2>6 DEF WalletInv, Shapes
  <2>9. CallsInPlace'
    BY <2>2, <2>4 DEF WalletInv, CallsInPlace
  <2>10. SubmissionsInPlace'
    BY <1>9, <2>1, <2>2, WalletAssumption DEF WalletInv, SubmissionsInPlace
  <2> QED BY <1>4, <1>7, <2>2, <2>3, <2>5, <2>7, <2>8, <2>9, <2>10, Assemble
<1>11. CASE m.to \in Handlers
  <2>1. PICK h \in Handlers : h = m.to
    BY <1>11
  <2>2. /\ wallet' = wallet
        /\ \A g \in Handlers \ {h} : handler'[g] = handler[g]
        /\ handler'[h] = [handler[h] EXCEPT !.pc = "record"]
    BY <1>8, <2>1, Caller DEF WalletInv, Shapes
  <2>3. PICK r : r = handler[h]
    OBVIOUS
  <2>4. /\ r \in HandlerState /\ HandlerOK(r) /\ r.plans # << >> /\ r.then = "settle"
        /\ r.to = Nobody /\ m.pair = r.plans[1]
    BY <2>1, <2>3, Caller
  <2>5. PICK s : s = [r EXCEPT !.pc = "record"]
    OBVIOUS
  <2>6. /\ s \in HandlerState /\ s.pc = "record" /\ s.then = "settle" /\ s.to = Nobody
        /\ s.plans = r.plans /\ s.snap = r.snap /\ s.seen = r.seen
        /\ s.begin = r.begin /\ s.end = r.end
    BY <2>4, <2>5 DEF HandlerState
  <2>7. HandlerOK(s)'
    <3>1. HandlerOK(r)'
      BY <1>1, <1>7, <2>4, HandlerStays
    <3>2. \E i \in 1..Len(matches') : matches'[i] = s.plans[1]
      BY <1>1, <1>2, <2>4, <2>6, Lengths
    <3> QED BY <2>4, <2>6, <3>1, <3>2 DEF HandlerOK
  <2>8. Shapes'
    BY <1>4, <1>8, <1>11, <2>2, <2>3, <2>5, <2>6 DEF WalletInv, Shapes
  <2>9. CallsInPlace'
    BY <2>2, <2>3, <2>4, <2>5, <2>6, WalletAssumption, CallsKept
  <2>10. SubmissionsInPlace'
    BY <1>9, <2>1, <2>2, WalletAssumption DEF WalletInv, SubmissionsInPlace
  <2> QED BY <1>4, <1>7, <2>2, <2>3, <2>5, <2>7, <2>8, <2>9, <2>10, Assemble
<1>12. CASE m.to = Nobody
  <2>1. UNCHANGED << handler, wallet >>
    BY <1>8, <1>12, WalletAssumption
  <2>2. Shapes' /\ CallsInPlace' /\ SubmissionsInPlace'
    BY <1>4, <2>1 DEF WalletInv, Shapes, CallsInPlace, SubmissionsInPlace
  <2> QED BY <1>4, <1>7, <2>1, <2>2, Assemble
<1> QED BY <1>1, <1>10, <1>11, <1>12 DEF Submission

LEMMA LedgerRefusesPreserves ==
  ASSUME WalletInv, NEW m \in sent, LedgerRefuses(m)
  PROVE  WalletInv'
<1>1. Advance
  BY Unmoved DEF WalletInv, LedgerRefuses
<1>2. sent' = sent \ {m} /\ UNCHANGED << overlapped, faults >>
  BY DEF LedgerRefuses
<1>3. \A n \in sent' : n \in sent /\ (n.to # Nobody => n.to # m.to)
  BY <1>2 DEF WalletInv, SubmissionsInPlace
<1>4. CASE m.to \in Wallets
  <2>1. PICK w \in Wallets : w = m.to
    BY <1>4
  <2>2. /\ handler' = handler /\ wallet' = [wallet EXCEPT ![w] = Skipped(w)]
        /\ wallet[w].plans # << >> /\ \A h \in Handlers : handler[h].to # w
    BY <2>1, Caller DEF LedgerRefuses
  <2>3. wallet'[w] = Skipped(w) /\ \A v \in Wallets \ {w} : wallet'[v] = wallet[v]
    BY <2>2 DEF WalletInv, Shapes
  <2>4. wallet'[w] \in WalletState /\ WalletOK(wallet[w])'
    BY <1>1, <2>2, <2>3, SkippedOK
  <2>5. Shapes'
    BY <1>2, <2>2, <2>3, <2>4 DEF WalletInv, Shapes
  <2>6. CallsInPlace'
    BY <2>2, <2>3 DEF WalletInv, CallsInPlace
  <2>7. SubmissionsInPlace'
    BY <1>3, <2>1, <2>2, <2>3, WalletAssumption DEF WalletInv, SubmissionsInPlace
  <2> QED BY <1>1, <1>2, <2>2, <2>3, <2>4, <2>5, <2>6, <2>7, Assemble
<1>5. CASE m.to \in Handlers
  <2>1. PICK h \in Handlers : h = m.to
    BY <1>5
  <2>2. /\ wallet' = wallet /\ handler' = [handler EXCEPT ![h] = Recovering(h)]
        /\ handler[h].pc = "await"
    BY <1>5, <2>1, Caller DEF LedgerRefuses
  <2>3. handler'[h] = Recovering(h) /\ \A g \in Handlers \ {h} : handler'[g] = handler[g]
    BY <2>2 DEF WalletInv, Shapes
  <2>4. handler'[h] \in HandlerState /\ handler'[h].to = Nobody /\ HandlerOK(handler[h])'
    BY <1>1, <2>2, <2>3, PassGoesOn
  <2>5. Shapes'
    BY <1>2, <2>2, <2>3, <2>4 DEF WalletInv, Shapes
  <2>6. CallsInPlace'
    BY <2>2, <2>3, <2>4, WalletAssumption, CallsKept
  <2>7. SubmissionsInPlace'
    BY <1>3, <2>1, <2>2, <2>3, WalletAssumption DEF WalletInv, SubmissionsInPlace
  <2> QED BY <1>1, <1>2, <2>2, <2>3, <2>4, <2>5, <2>6, <2>7, Assemble
<1>6. CASE m.to = Nobody
  <2>1. UNCHANGED << handler, wallet >>
    BY <1>6, WalletAssumption DEF LedgerRefuses
  <2>2. Shapes' /\ CallsInPlace' /\ SubmissionsInPlace'
    BY <1>2, <2>1 DEF WalletInv, Shapes, CallsInPlace, SubmissionsInPlace
  <2> QED BY <1>1, <1>2, <2>1, <2>2, Assemble
<1> QED BY <1>4, <1>5, <1>6, Caller DEF Submission

-------------------------------------------------------------------------------
(* An activity of the service moves on by itself.                             *)
LEMMA HandlerMoves ==
  ASSUME WalletInv, Advance, NEW h \in Handlers, NEW r \in HandlerState,
         handler' = [handler EXCEPT ![h] = r], HandlerOK(r)',
         UNCHANGED << sent, wallet, faults >>, overlapped' \in BOOLEAN,
         handler[h].pc # "await",
         \/ r.to = Nobody
         \/ /\ r.to = handler[h].to /\ r.then = handler[h].then
            /\ \/ handler[h].then = "plan"
               \/ r.begin = handler[h].begin /\ r.end = handler[h].end
  PROVE  WalletInv'
<1>1. handler'[h] = r /\ \A g \in Handlers \ {h} : handler'[g] = handler[g]
  BY DEF WalletInv, Shapes
<1>2. Shapes'
  BY DEF WalletInv, Shapes
<1>3. CallsInPlace'
  BY <1>1, WalletAssumption, CallsKept
<1>4. SubmissionsInPlace'
  BY <1>1, SubmissionsKept
<1>5. HandlerOK(handler[h])'
  BY <1>1
<1> QED BY <1>1, <1>2, <1>3, <1>4, <1>5, Assemble

(* A step of the service alone leaves the data as they are.                   *)
LEMMA ReadOrdersPreserves ==
  ASSUME WalletInv, NEW h \in Handlers, ReadOrders(h)
  PROVE  WalletInv'
<1>1. Advance /\ DataOK
  BY Unmoved DEF WalletInv, ReadOrders
<1>2. PICK r : r = handler[h]
  OBVIOUS
<1>3. r \in HandlerState /\ r.pc = "read" /\ HandlerOK(r)'
  BY <1>1, <1>2, HandlerStays DEF WalletInv, Shapes, ReadOrders
<1>4. PICK s : s = [r EXCEPT !.pc = "apply", !.snap = open]
  OBVIOUS
<1>5. /\ s \in HandlerState /\ s.pc = "apply" /\ s.snap = open /\ s.plans = r.plans
      /\ s.then = r.then /\ s.to = r.to /\ s.begin = r.begin /\ s.end = r.end /\ s.seen = r.seen
  BY <1>1, <1>3, <1>4 DEF HandlerState, DataOK
<1>6. s.snap \cap fresh' = {}
  BY <1>1, <1>5 DEF DataOK, ReadOrders, ledger
<1>7. HandlerOK(s)'
  BY <1>3, <1>5, <1>6 DEF HandlerOK
<1> QED BY <1>1, <1>2, <1>3, <1>4, <1>5, <1>7, HandlerMoves DEF ReadOrders, WalletInv, Shapes

LEMMA ReadEndPreserves ==
  ASSUME WalletInv, NEW h \in Handlers, ReadEnd(h)
  PROVE  WalletInv'
<1>1. Advance /\ DataOK /\ matches' = matches
  BY Unmoved DEF WalletInv, ReadEnd, ledger
<1>2. PICK r : r = handler[h]
  OBVIOUS
<1>3. r \in HandlerState /\ r.pc = "end" /\ HandlerOK(r) /\ HandlerOK(r)'
  BY <1>1, <1>2, HandlerStays DEF WalletInv, Shapes, ReadEnd
<1>4. PICK s : s = [r EXCEPT !.pc = "reply", !.end = Len(matches)]
  OBVIOUS
<1>5. /\ s \in HandlerState /\ s.pc = "reply" /\ s.end = Len(matches) /\ s.plans = r.plans
      /\ s.then = r.then /\ s.to = r.to /\ s.begin = r.begin /\ s.snap = r.snap /\ s.seen = r.seen
  BY <1>1, <1>3, <1>4, Lengths DEF HandlerState
<1>6. r.then = "plan" /\ s.begin <= s.end
  BY <1>1, <1>3, <1>5, Lengths DEF HandlerOK, HandlerState
<1>7. HandlerOK(s)'
  BY <1>1, <1>3, <1>5, <1>6, Lengths DEF HandlerOK
<1> QED BY <1>1, <1>2, <1>3, <1>4, <1>5, <1>6, <1>7, HandlerMoves DEF ReadEnd, WalletInv, Shapes

LEMMA BeginPassPreserves ==
  ASSUME WalletInv, NEW h \in Handlers, BeginPass(h)
  PROVE  WalletInv'
<1>1. Advance /\ DataOK
  BY Unmoved DEF WalletInv, BeginPass
<1>2. PICK r : r = handler[h]
  OBVIOUS
<1>3. r \in HandlerState /\ r.pc = "idle" /\ r = IdleHandler /\ HandlerOK(r)'
  BY <1>1, <1>2, HandlerStays DEF WalletInv, Shapes, BeginPass, HandlerOK
<1>4. PICK s : s = [r EXCEPT !.pc = "read", !.then = "match"]
  OBVIOUS
<1>5. /\ s \in HandlerState /\ s.pc = "read" /\ s.then = "match" /\ s.to = Nobody
      /\ s.plans = r.plans /\ s.begin = r.begin /\ s.end = r.end
      /\ s.snap = r.snap /\ s.seen = r.seen
  BY <1>3, <1>4 DEF HandlerState, IdleHandler
<1>6. HandlerOK(s)'
  BY <1>3, <1>5 DEF HandlerOK
<1>7. overlapped' \in BOOLEAN
  BY DEF BeginPass, WalletInv, Shapes, Serving, Running
<1> QED BY <1>1, <1>2, <1>3, <1>4, <1>5, <1>6, <1>7, HandlerMoves DEF BeginPass

LEMMA EndPassPreserves ==
  ASSUME WalletInv, NEW h \in Handlers, EndPass(h)
  PROVE  WalletInv'
<1>1. Advance
  BY Unmoved DEF WalletInv, EndPass
<1>2. HandlerOK(IdleHandler)'
  BY <1>1, IdleOK DEF Advance
<1>3. IdleHandler.to = Nobody
  BY DEF IdleHandler
<1> QED BY <1>1, <1>2, <1>3, Idle, HandlerMoves DEF EndPass, WalletInv, Shapes

LEMMA RecordTradePreserves ==
  ASSUME WalletInv, NEW h \in Handlers, RecordTrade(h)
  PROVE  WalletInv'
<1>1. DataOK /\ handler[h].pc = "record" /\ handler[h] \in HandlerState
  BY DEF WalletInv, RecordTrade, Shapes
<1>2. /\ handler[h].plans # << >> /\ handler[h].plans \in Seq(Pair)
      /\ \E i \in 1..Len(matches) : matches[i] = handler[h].plans[1]
  BY <1>1 DEF WalletInv, HandlerOK, HandlerState
<1>3. PICK q \in Pair : q = Head(handler[h].plans) /\ \E i \in 1..Len(matches) : matches[i] = q
  BY <1>2, TailOf
<1>4. trades' = Recorded({q}) /\ UNCHANGED << ledger, known, cache, boot >>
  BY <1>3 DEF RecordTrade
<1>5. Advance
  BY <1>1, <1>3, <1>4, RecordingAdvances DEF ledger
<1>6. PICK r : r = Settling(h)
  OBVIOUS
<1>7. handler' = [handler EXCEPT ![h] = r]
  BY <1>6 DEF RecordTrade
<1>8. handler'[h] = Settling(h)
  BY <1>6, <1>7 DEF WalletInv, Shapes
<1>9. r \in HandlerState /\ r.to = Nobody /\ HandlerOK(r)'
  BY <1>1, <1>5, <1>6, <1>8, PassGoesOn
<1> QED BY <1>1, <1>5, <1>7, <1>9, HandlerMoves DEF RecordTrade, WalletInv, Shapes

LEMMA SubmitPreserves ==
  ASSUME WalletInv, NEW h \in Handlers, Submit(h)
  PROVE  WalletInv'
<1>1. Advance /\ DataOK
  BY Unmoved DEF WalletInv, Submit
<1>2. PICK r : r = handler[h]
  OBVIOUS
<1>3. /\ r \in HandlerState /\ r.pc = "settle" /\ r.plans # << >> /\ HandlerOK(r)
      /\ HandlerOK(r)'
  BY <1>1, <1>2, HandlerStays DEF WalletInv, Shapes, Submit
<1>4. r.plans \in Seq(Pair) /\ r.then = "settle" /\ r.to = Nobody
  BY <1>3 DEF HandlerState, HandlerOK
<1>5. PICK s : s = [r EXCEPT !.pc = "await"]
  OBVIOUS
<1>6. /\ s \in HandlerState /\ s.pc = "await" /\ s.then = "settle" /\ s.to = Nobody
      /\ s.plans = r.plans /\ s.begin = r.begin /\ s.end = r.end
      /\ s.snap = r.snap /\ s.seen = r.seen
  BY <1>3, <1>4, <1>5 DEF HandlerState
<1>7. HandlerOK(s)'
  BY <1>3, <1>6 DEF HandlerOK
<1>8. /\ Head(r.plans) = r.plans[1] /\ r.plans[1] \in Pair /\ Len(r.plans) \in Nat
      /\ Len(r.plans) > 0
  BY <1>3, <1>4, TailOf
<1>9. Sound(r.plans[1])
  BY <1>3, <1>8 DEF HandlerOK, PlansOK
<1>10. PICK m \in Submission : m = [to |-> h, pair |-> r.plans[1]]
  BY <1>8 DEF Submission
<1>11. sent' = sent \cup {m} /\ m.to = h /\ m.pair = r.plans[1] /\ Sound(m.pair)'
  BY <1>1, <1>2, <1>8, <1>9, <1>10, SoundKept DEF Submit
<1>12. handler' = [handler EXCEPT ![h] = s] /\ wallet' = wallet
  BY <1>2, <1>5 DEF Submit
<1>13. handler'[h] = s /\ \A g \in Handlers \ {h} : handler'[g] = handler[g]
  BY <1>12 DEF WalletInv, Shapes
<1>14. Shapes'
  BY <1>6, <1>11, <1>12 DEF WalletInv, Shapes, Submit
<1>15. CallsInPlace'
  BY <1>6, <1>12, <1>13, WalletAssumption, CallsKept
<1>16. \A n \in sent : n.to # h
  BY <1>2, <1>3 DEF WalletInv, SubmissionsInPlace
<1>17. SubmissionsInPlace'
  BY <1>6, <1>11, <1>12, <1>13, <1>16, WalletAssumption DEF WalletInv, SubmissionsInPlace
<1> QED BY <1>1, <1>7, <1>11, <1>12, <1>13, <1>14, <1>15, <1>17, Assemble

(* An activity ends and answers its caller, if it still has one.              *)
LEMMA AnswerMoves ==
  ASSUME WalletInv, Advance, NEW h \in Handlers, NEW w \in Wallets, handler[h].to = w,
         handler' = [handler EXCEPT ![h] = IdleHandler],
         NEW r \in WalletState, wallet' = [wallet EXCEPT ![w] = r],
         r.pc \in {"ready", "idle"}, WalletOK(r)',
         UNCHANGED << sent, overlapped >>, faults' \in 0..MaxFaults
  PROVE  WalletInv'
<1>1. /\ handler'[h] = IdleHandler /\ \A g \in Handlers \ {h} : handler'[g] = handler[g]
      /\ wallet'[w] = r /\ \A v \in Wallets \ {w} : wallet'[v] = wallet[v]
  BY DEF WalletInv, Shapes
<1>2. Shapes'
  BY Idle DEF WalletInv, Shapes
<1>3. IdleHandler.to \notin Wallets
  BY WalletAssumption DEF IdleHandler
<1>4. \A g \in Handlers \ {h} : handler[g].to # w
  BY DEF WalletInv, CallsInPlace
<1>5. CallsInPlace'
  BY <1>1, <1>3, <1>4 DEF WalletInv, CallsInPlace
<1>6. wallet[w].pc # "executing" /\ handler[h].pc # "await"
  BY WalletAssumption DEF WalletInv, CallsInPlace, HandlerOK
<1>7. SubmissionsInPlace'
  BY <1>1, <1>6, SubmissionsKept
<1>8. HandlerOK(handler[h])' /\ WalletOK(wallet[w])'
  BY <1>1, IdleOK DEF Advance
<1> QED BY <1>1, <1>2, <1>5, <1>7, <1>8, Assemble

(* The caller that awaits an activity.                                        *)
LEMMA Awaiting ==
  ASSUME WalletInv, NEW h \in Handlers
  PROVE  /\ handler[h] \in HandlerState /\ HandlerOK(handler[h])
         /\ handler[h].to \in Wallets \/ handler[h].to = Nobody
         /\ handler[h].to \in Wallets =>
              /\ handler[h].to # Nobody
              /\ wallet[handler[h].to] \in WalletState /\ WalletOK(wallet[handler[h].to])
              /\ handler[h].then = "plan" => wallet[handler[h].to].pc = "planning"
              /\ handler[h].then = "reply" =>
                   /\ wallet[handler[h].to].pc = "syncing"
                   /\ wallet[handler[h].to].plans # << >>
                   /\ handler[h].begin = wallet[handler[h].to].offset
                   /\ handler[h].end = wallet[handler[h].to].end
<1>1. handler[h] \in HandlerState /\ HandlerOK(handler[h])
  BY DEF WalletInv, Shapes
<1>2. handler[h].to \in Wallets \/ handler[h].to = Nobody
  BY <1>1 DEF HandlerState
<1>3. ASSUME NEW w \in Wallets, handler[h].to = w
      PROVE  /\ w # Nobody /\ wallet[w] \in WalletState /\ WalletOK(wallet[w])
             /\ handler[h].then = "plan" => wallet[w].pc = "planning"
             /\ handler[h].then = "reply" =>
                  /\ wallet[w].pc = "syncing" /\ wallet[w].plans # << >>
                  /\ handler[h].begin = wallet[w].offset /\ handler[h].end = wallet[w].end
  <2>1. w # Nobody /\ wallet[w] \in WalletState /\ WalletOK(wallet[w])
    BY WalletAssumption DEF WalletInv, Shapes
  <2>2. \/ handler[h].then = "plan" /\ wallet[w].pc = "planning"
        \/ /\ handler[h].then = "reply" /\ wallet[w].pc = "syncing"
           /\ handler[h].begin = wallet[w].offset /\ handler[h].end = wallet[w].end
    BY <1>3 DEF WalletInv, CallsInPlace
  <2>3. wallet[w].pc = "syncing" => wallet[w].plans # << >>
    BY <2>1 DEF WalletOK
  <2> QED BY <2>1, <2>2, <2>3
<1> QED BY <1>1, <1>2, <1>3

(* What is planned of the cache is of orders known.                           *)
LEMMA PlannedOK ==
  ASSUME DataOK, NEW plans \in PlansOf(cache)
  PROVE  plans \in Seq(Pair) /\ PlansOK(plans)
<1>1. cache \in SUBSET Orders
  BY DEF DataOK
<1>2. plans \in Seq(Pair) /\ \A i \in 1..Len(plans) : Both(plans[i]) \subseteq cache
  BY <1>1, PlansFromBook
<1> QED BY <1>2 DEF DataOK, PlansOK, Sound

LEMMA PlanReplyPreserves ==
  ASSUME WalletInv, NEW h \in Handlers, PlanReply(h)
  PROVE  WalletInv'
<1>1. Advance /\ DataOK
  BY Unmoved DEF WalletInv, PlanReply
<1>2. /\ handler' = [handler EXCEPT ![h] = IdleHandler] /\ handler[h].pc = "reply"
      /\ UNCHANGED << ledger, sent, projection, boot, overlapped, faults >>
  BY DEF PlanReply
<1>3. CASE handler[h].to = Nobody
  <2>1. wallet' = wallet
    BY <1>3 DEF PlanReply
  <2>2. HandlerOK(IdleHandler)' /\ IdleHandler.to = Nobody
    BY <1>1, IdleOK DEF Advance, IdleHandler
  <2> QED BY <1>1, <1>2, <2>1, <2>2, Idle, HandlerMoves DEF WalletInv, Shapes
<1>4. CASE handler[h].to \in Wallets
  <2>1. PICK w \in Wallets : w = handler[h].to
    BY <1>4
  <2>2. PICK plans \in PlansOf(cache) :
          wallet' = [wallet EXCEPT ![w] =
            [pc |-> "ready", plans |-> plans, start |-> handler[h].end,
             offset |-> handler[h].end, end |-> 0]]
    BY <2>1, WalletAssumption DEF PlanReply
  <2>3. PICK e \in Nat : e = handler[h].end /\ e <= Len(matches)
    BY Awaiting DEF HandlerState, HandlerOK
  <2>4. PICK r : r = [pc |-> "ready", plans |-> plans, start |-> e, offset |-> e, end |-> 0]
    OBVIOUS
  <2>5. plans \in Seq(Pair) /\ PlansOK(plans)
    BY <1>1, PlannedOK
  <2>6. r \in WalletState
    BY <2>3, <2>4, <2>5 DEF WalletState
  <2>7. WalletOK(r)
    BY <2>3, <2>4, <2>5 DEF WalletOK, InOrder, AllRecorded, Offsets
  <2>8. WalletOK(r)'
    BY <1>1, <2>6, <2>7, WalletStays
  <2>9. r.pc = "ready" /\ wallet' = [wallet EXCEPT ![w] = r]
    BY <2>2, <2>3, <2>4
  <2> QED BY <1>1, <1>2, <2>1, <2>6, <2>8, <2>9, AnswerMoves DEF WalletInv, Shapes
<1> QED BY <1>3, <1>4, Awaiting

(* A refresh adds what it read to the known orders.                           *)
LEMMA RefreshAdvances ==
  ASSUME WalletInv, NEW h \in Handlers, Refreshed(h), UNCHANGED << ledger, boot >>
  PROVE  Advance /\ handler[h].pc = "apply"
<1>1. DataOK /\ handler[h] \in HandlerState /\ handler[h].snap \cap fresh = {}
  BY DEF WalletInv, Shapes, HandlerOK
<1>2. PICK snap \in SUBSET Orders : snap = handler[h].snap
  BY <1>1 DEF HandlerState
<1>3. /\ known' = known \cup snap /\ cache' = snap /\ trades' = trades
      /\ handler[h].pc = "apply" /\ snap \cap fresh = {}
  BY <1>1, <1>2 DEF Refreshed
<1>4. DataOK'
  BY <1>1, <1>3 DEF DataOK, ledger, TradesHappened, Offsets
<1> QED BY <1>1, <1>3, <1>4, Lengths DEF Advance, ledger

LEMMA RefreshDonePreserves ==
  ASSUME WalletInv, NEW h \in Handlers, RefreshDone(h)
  PROVE  WalletInv'
<1>1. /\ Advance /\ DataOK /\ DataOK' /\ handler[h].pc = "apply"
      /\ UNCHANGED << sent, overlapped, faults >>
  BY RefreshAdvances DEF RefreshDone, Advance, WalletInv
<1>2. PICK r : r = handler[h]
  OBVIOUS
<1>3. r \in HandlerState /\ r.pc = "apply" /\ HandlerOK(r) /\ HandlerOK(r)'
  BY <1>1, <1>2, HandlerStays DEF WalletInv, Shapes
<1>4. overlapped' \in BOOLEAN
  BY <1>1 DEF WalletInv, Shapes
<1>5. CASE r.then = "plan"
  <2>1. wallet' = wallet /\ handler' = [handler EXCEPT ![h].pc = "end", ![h].snap = {}]
    BY <1>2, <1>5 DEF RefreshDone
  <2>2. PICK s : s = [r EXCEPT !.pc = "end", !.snap = {}]
    OBVIOUS
  <2>3. /\ s \in HandlerState /\ s.pc = "end" /\ s.snap = {} /\ s.plans = r.plans
        /\ s.then = "plan" /\ s.to = r.to /\ s.begin = r.begin /\ s.end = r.end
        /\ s.seen = r.seen
    BY <1>3, <1>5, <2>2 DEF HandlerState
  <2>4. HandlerOK(s)'
    BY <1>3, <2>3 DEF HandlerOK
  <2>5. handler' = [handler EXCEPT ![h] = s]
    BY <1>2, <2>1, <2>2
  <2> QED BY <1>1, <1>2, <1>4, <1>5, <2>1, <2>3, <2>4, <2>5, HandlerMoves
<1>6. CASE r.then = "match"
  <2>1. PICK plans \in PlansOf(cache') :
          /\ handler' = [handler EXCEPT ![h].pc = "settle", ![h].then = "settle",
                                        ![h].plans = plans, ![h].snap = {}]
          /\ wallet' = wallet
    BY <1>2, <1>6 DEF RefreshDone
  <2>2. cache' \in SUBSET Orders /\ cache' \subseteq known' /\ known' \cap fresh' = {}
    BY <1>1 DEF DataOK
  <2>3. plans \in Seq(Pair) /\ PlansOK(plans)'
    <3>1. plans \in Seq(Pair) /\ \A i \in 1..Len(plans) : Both(plans[i]) \subseteq cache'
      BY <2>2, PlansFromBook
    <3> QED BY <2>2, <3>1 DEF PlansOK, Sound
  <2>4. PICK s : s = [r EXCEPT !.pc = "settle", !.then = "settle", !.plans = plans, !.snap = {}]
    OBVIOUS
  <2>5. /\ s \in HandlerState /\ s.pc = "settle" /\ s.snap = {} /\ s.plans = plans
        /\ s.then = "settle" /\ s.to = r.to /\ s.begin = r.begin /\ s.end = r.end
        /\ s.seen = r.seen
    BY <1>3, <2>3, <2>4 DEF HandlerState
  <2>6. r.to = Nobody
    BY <1>3, <1>6 DEF HandlerOK
  <2>7. HandlerOK(s)'
    BY <1>3, <2>3, <2>5, <2>6 DEF HandlerOK
  <2>8. handler' = [handler EXCEPT ![h] = s]
    BY <1>2, <2>1, <2>4
  <2> QED BY <1>1, <1>4, <2>1, <2>5, <2>6, <2>7, <2>8, HandlerMoves
<1>7. CASE r.then = "settle"
  <2>1. wallet' = wallet /\ handler' = [handler EXCEPT ![h].pc = "settle", ![h].snap = {}]
    BY <1>2, <1>7 DEF RefreshDone
  <2>2. PICK s : s = [r EXCEPT !.pc = "settle", !.snap = {}]
    OBVIOUS
  <2>3. /\ s \in HandlerState /\ s.pc = "settle" /\ s.snap = {} /\ s.plans = r.plans
        /\ s.then = "settle" /\ s.to = r.to /\ s.begin = r.begin /\ s.end = r.end
        /\ s.seen = r.seen
    BY <1>3, <1>7, <2>2 DEF HandlerState
  <2>4. HandlerOK(s)' /\ s.to = Nobody
    BY <1>3, <1>7, <2>3 DEF HandlerOK
  <2>5. handler' = [handler EXCEPT ![h] = s]
    BY <1>2, <2>1, <2>2
  <2> QED BY <1>1, <1>4, <2>1, <2>3, <2>4, <2>5, HandlerMoves
<1>8. CASE r.then = "reply"
  <2>1. /\ handler' = [handler EXCEPT ![h] = IdleHandler]
        /\ wallet' = IF handler[h].to = Nobody THEN wallet
                       ELSE [wallet EXCEPT ![handler[h].to] = Synced(handler[h].to)]
    BY <1>2, <1>8 DEF RefreshDone
  <2>2. CASE r.to = Nobody
    <3>1. HandlerOK(IdleHandler)' /\ IdleHandler.to = Nobody /\ wallet' = wallet
      BY <1>1, <1>2, <2>1, <2>2, IdleOK DEF IdleHandler
    <3> QED BY <1>1, <1>4, <2>1, <3>1, Idle, HandlerMoves
  <2>3. CASE r.to \in Wallets
    <3>1. PICK w \in Wallets : w = handler[h].to
      BY <1>2, <2>3
    <3>2. wallet' = [wallet EXCEPT ![w] = Synced(w)]
      BY <2>1, <2>3, <3>1, WalletAssumption
    <3>3. PICK v : v = wallet[w]
      OBVIOUS
    <3>4. /\ v \in WalletState /\ WalletOK(v) /\ v.pc = "syncing" /\ v.plans # << >>
          /\ r.begin = v.offset /\ r.end = v.end
      BY <1>2, <1>8, <3>1, <3>3, Awaiting
    <3>5. WalletOK(v)'
      BY <1>1, <3>4, WalletStays
    <3>6. PICK s : s = [v EXCEPT !.pc = "ready", !.plans = Tail(@), !.end = 0, !.offset = v.end]
      OBVIOUS
    <3>7. /\ s \in WalletState /\ s.pc = "ready" /\ s.plans = Tail(v.plans)
          /\ s.start = v.start /\ s.offset = v.end /\ v.plans \in Seq(Pair)
      BY <3>4, <3>6, TailOf DEF WalletState
    <3>8. PlansOK(s.plans)'
      <4>1. \A i \in 1..Len(s.plans) : i + 1 \in 1..Len(v.plans) /\ s.plans[i] = v.plans[i + 1]
        BY <3>4, <3>7, TailOf
      <4> QED BY <3>5, <4>1 DEF WalletOK, PlansOK
    <3>9. InOrder(s)'
      BY <3>4, <3>5, <3>7, Extends, <1>1 DEF WalletOK, InOrder, WalletState
    <3>10. s.start >= boot' => AllRecorded(s.start, s.offset)'
      <4>1. /\ v.start \in Nat /\ v.offset \in Nat /\ v.end \in Nat /\ boot' \in Nat
            /\ v.start <= v.offset
        BY <1>1, <3>4 DEF WalletState, DataOK, WalletOK, InOrder
      <4>2. v.start >= boot' => AllRecorded(v.start, v.offset)'
        BY <3>5 DEF WalletOK
      <4>3. v.offset >= boot' => AllRecorded(v.offset, v.end)'
        BY <1>3, <1>8, <3>4 DEF HandlerOK
      <4> QED BY <3>7, <4>1, <4>2, <4>3 DEF AllRecorded, Offsets
    <3>11. WalletOK(s)'
      BY <3>7, <3>8, <3>9, <3>10 DEF WalletOK
    <3>12. wallet' = [wallet EXCEPT ![w] = s]
      BY <3>2, <3>3, <3>6 DEF Synced, Skipped
    <3> QED BY <1>1, <2>1, <3>1, <3>7, <3>11, <3>12, AnswerMoves DEF WalletInv, Shapes
  <2> QED BY <1>3, <2>2, <2>3 DEF HandlerState
<1> QED BY <1>3, <1>5, <1>6, <1>7, <1>8 DEF HandlerState

(* What a sync records are matches of the ledger, and after it every match of *)
(* its range is recorded.                                                     *)
LEMMA SyncUpdatesPreserves ==
  ASSUME WalletInv, NEW h \in Handlers, SyncUpdates(h)
  PROVE  WalletInv'
<1>1. PICK r : r = handler[h]
  OBVIOUS
<1>2. /\ r \in HandlerState /\ HandlerOK(r) /\ r.pc = "updates" /\ r.then = "reply"
      /\ r.begin \in Nat /\ r.end \in Nat /\ r.end <= Len(matches)
  BY <1>1 DEF WalletInv, Shapes, SyncUpdates, HandlerOK, HandlerState
<1>3. /\ DataOK
      /\ UNCHANGED << fresh, open, matches, known, cache, boot, sent, overlapped, faults >>
  BY DEF WalletInv, SyncUpdates, ledger
<1>4. overlapped' \in BOOLEAN
  BY <1>3 DEF WalletInv, Shapes
<1>5. \A i \in Offsets(r.begin, r.end) : i \in 1..Len(matches) /\ matches[i] \in Pair
  BY <1>2, <1>3, Lengths DEF Offsets
<1>6. CASE trades' = Recorded(NewIn(h)) /\ wallet' = wallet
           /\ handler' = [handler EXCEPT ![h].pc = "read", ![h].known = {}, ![h].seen = {}]
  <2>1. PICK new \in SUBSET Pair :
          /\ new = NewIn(h) /\ \A q \in new : \E i \in 1..Len(matches) : matches[i] = q
    <3>1. \A q \in NewIn(h) : q \in Pair /\ \E i \in 1..Len(matches) : matches[i] = q
      BY <1>1, <1>5 DEF NewIn
    <3> QED BY <3>1
  <2>2. Advance
    BY <1>3, <1>6, <2>1, RecordingAdvances
  <2>3. PICK s : s = [r EXCEPT !.pc = "read", !.known = {}, !.seen = {}]
    OBVIOUS
  <2>4. /\ s \in HandlerState /\ s.pc = "read" /\ s.plans = r.plans /\ s.snap = r.snap
        /\ s.then = "reply" /\ s.to = r.to /\ s.begin = r.begin /\ s.end = r.end
        /\ s.seen = {}
    BY <1>2, <2>3 DEF HandlerState
  <2>5. HandlerOK(r)'
    BY <1>2, <1>3, <2>2, HandlerStays
  <2>6. AllRecorded(r.begin, r.end)'
    <3>1. SUFFICES ASSUME NEW i \in Offsets(r.begin, r.end)
                   PROVE  trades'[matches[i]] > 0
      BY <1>3 DEF AllRecorded
    <3>2. matches[i] \in Pair /\ (matches[i] \in r.seen \/ matches[i] \in new)
      BY <1>1, <1>5, <2>1 DEF NewIn
    <3>3. CASE matches[i] \in r.seen
      BY <2>2, <3>2, <3>3, <1>2 DEF HandlerOK, Advance
    <3>4. CASE matches[i] \in new
      BY <1>3, <1>6, <2>1, <3>2, <3>4 DEF Recorded, DataOK
    <3> QED BY <3>2, <3>3, <3>4
  <2>7. HandlerOK(s)'
    BY <2>4, <2>5, <2>6 DEF HandlerOK
  <2>8. handler' = [handler EXCEPT ![h] = s]
    BY <1>1, <1>6, <2>3
  <2> QED BY <1>1, <1>2, <1>3, <1>4, <1>6, <2>2, <2>4, <2>7, <2>8, HandlerMoves
<1>7. CASE /\ handler' = [handler EXCEPT ![h] = IdleHandler] /\ trades' = trades
           /\ wallet' = IF r.to = Nobody THEN wallet
                          ELSE [wallet EXCEPT ![r.to] = Skipped(r.to)]
  <2>1. Advance
    BY <1>3, <1>7, Unmoved DEF ledger, projection
  <2>2. CASE r.to = Nobody
    <3>1. HandlerOK(IdleHandler)' /\ IdleHandler.to = Nobody /\ wallet' = wallet
      BY <1>7, <2>1, <2>2, IdleOK DEF Advance, IdleHandler
    <3> QED BY <1>1, <1>2, <1>3, <1>4, <1>7, <2>1, <3>1, Idle, HandlerMoves
  <2>3. CASE r.to \in Wallets
    <3>1. PICK w \in Wallets : w = handler[h].to /\ w = r.to
      BY <1>1, <2>3
    <3>2. wallet[w].plans # << >>
      BY <1>1, <1>2, <3>1, Awaiting
    <3>3. PICK v : v = Skipped(w)
      OBVIOUS
    <3>4. wallet' = [wallet EXCEPT ![w] = v]
      BY <1>7, <2>3, <3>1, <3>3, WalletAssumption
    <3>5. wallet'[w] = v
      BY <3>4 DEF WalletInv, Shapes
    <3>6. v \in WalletState /\ v.pc = "ready" /\ WalletOK(v)'
      BY <2>1, <3>2, <3>3, <3>5, SkippedOK
    <3> QED BY <1>3, <1>7, <2>1, <3>1, <3>4, <3>6, AnswerMoves DEF WalletInv, Shapes
  <2> QED BY <1>2, <2>2, <2>3 DEF HandlerState
<1> QED BY <1>1, <1>6, <1>7 DEF SyncUpdates

-------------------------------------------------------------------------------
(* The browser.                                                               *)
LEMMA WalletMoves ==
  ASSUME WalletInv, Advance, NEW w \in Wallets, NEW r \in WalletState,
         wallet' = [wallet EXCEPT ![w] = r], WalletOK(r)',
         wallet[w].pc \in {"ready", "idle"}, r.pc # "executing",
         UNCHANGED << sent, handler, overlapped, faults >>
  PROVE  WalletInv'
<1>1. wallet'[w] = r /\ \A v \in Wallets \ {w} : wallet'[v] = wallet[v]
  BY DEF WalletInv, Shapes
<1>2. Shapes' /\ CallsInPlace'
  BY <1>1 DEF WalletInv, Shapes, CallsInPlace
<1>3. SubmissionsInPlace'
  BY <1>1, SubmissionsKept
<1>4. WalletOK(wallet[w])'
  BY <1>1
<1> QED BY <1>1, <1>2, <1>3, <1>4, Assemble

LEMMA FinishPreserves ==
  ASSUME WalletInv, NEW w \in Wallets, Finish(w)
  PROVE  WalletInv'
<1>1. Advance
  BY Unmoved DEF WalletInv, Finish
<1>2. WalletOK(IdleWallet)' /\ IdleWallet.pc # "executing"
  BY <1>1, IdleOK DEF Advance, IdleWallet
<1> QED BY <1>1, <1>2, Idle, WalletMoves DEF Finish

LEMMA ExecutePreserves ==
  ASSUME WalletInv, NEW w \in Wallets, Execute(w)
  PROVE  WalletInv'
<1>1. Advance /\ DataOK
  BY Unmoved DEF WalletInv, Execute
<1>2. PICK r : r = wallet[w]
  OBVIOUS
<1>3. /\ r \in WalletState /\ r.pc = "ready" /\ r.plans # << >> /\ WalletOK(r)
      /\ WalletOK(r)'
  BY <1>1, <1>2, WalletStays DEF WalletInv, Shapes, Execute
<1>4. PICK s : s = [r EXCEPT !.pc = "executing"]
  OBVIOUS
<1>5. /\ s \in WalletState /\ s.pc = "executing" /\ s.plans = r.plans
      /\ s.start = r.start /\ s.offset = r.offset /\ r.plans \in Seq(Pair)
  BY <1>3, <1>4 DEF WalletState
<1>6. WalletOK(s)'
  BY <1>3, <1>5 DEF WalletOK, InOrder
<1>7. /\ Head(r.plans) = r.plans[1] /\ r.plans[1] \in Pair /\ Len(r.plans) \in Nat
      /\ Len(r.plans) > 0
  BY <1>3, <1>5, TailOf
<1>8. Sound(r.plans[1])
  BY <1>3, <1>7 DEF WalletOK, PlansOK
<1>9. PICK m \in Submission : m = [to |-> w, pair |-> r.plans[1]]
  BY <1>7 DEF Submission
<1>10. sent' = sent \cup {m} /\ m.to = w /\ m.pair = r.plans[1] /\ Sound(m.pair)'
  BY <1>1, <1>2, <1>7, <1>8, <1>9, SoundKept DEF Execute
<1>11. /\ wallet' = [wallet EXCEPT ![w] = s] /\ handler' = handler
       /\ UNCHANGED << overlapped, faults >>
  BY <1>2, <1>4 DEF Execute
<1>12. wallet'[w] = s /\ \A v \in Wallets \ {w} : wallet'[v] = wallet[v]
  BY <1>11 DEF WalletInv, Shapes
<1>13. Shapes'
  BY <1>5, <1>10, <1>11 DEF WalletInv, Shapes
<1>14. CallsInPlace'
  BY <1>2, <1>3, <1>11, <1>12 DEF WalletInv, CallsInPlace
<1>15. \A n \in sent : n.to # w
  BY <1>2, <1>3 DEF WalletInv, SubmissionsInPlace
<1>16. SubmissionsInPlace'
  BY <1>5, <1>10, <1>11, <1>12, <1>15, WalletAssumption DEF WalletInv, SubmissionsInPlace
<1> QED BY <1>1, <1>6, <1>10, <1>11, <1>12, <1>13, <1>14, <1>16, Assemble

(* A call of a browser reaches an idle activity.                              *)
LEMMA CallMoves ==
  ASSUME WalletInv, Advance, NEW w \in Wallets, NEW h \in Handlers,
         NEW r \in HandlerState, NEW v \in WalletState,
         handler[h].pc = "idle", wallet[w].pc \in {"idle", "answered"},
         handler' = [handler EXCEPT ![h] = r], HandlerOK(r)',
         wallet' = [wallet EXCEPT ![w] = v], WalletOK(v)', r.to = w,
         \/ r.then = "plan" /\ v.pc = "planning"
         \/ r.then = "reply" /\ v.pc = "syncing" /\ r.begin = v.offset /\ r.end = v.end,
         UNCHANGED << sent, faults >>, overlapped' \in BOOLEAN
  PROVE  WalletInv'
<1>1. /\ handler'[h] = r /\ \A g \in Handlers \ {h} : handler'[g] = handler[g]
      /\ wallet'[w] = v /\ \A u \in Wallets \ {w} : wallet'[u] = wallet[u]
  BY DEF WalletInv, Shapes
<1>2. Shapes'
  BY DEF WalletInv, Shapes
<1>3. \A g \in Handlers : handler[g].to # w
  BY DEF WalletInv, CallsInPlace
<1>4. CallsInPlace'
  BY <1>1, <1>3 DEF WalletInv, CallsInPlace
<1>5. SubmissionsInPlace'
  BY <1>1, SubmissionsKept
<1>6. HandlerOK(handler[h])' /\ WalletOK(wallet[w])'
  BY <1>1
<1> QED BY <1>1, <1>2, <1>4, <1>5, <1>6, Assemble

LEMMA AskPlanPreserves ==
  ASSUME WalletInv, NEW w \in Wallets, NEW h \in Handlers, AskPlan(w, h)
  PROVE  WalletInv'
<1>1. Advance /\ DataOK
  BY Unmoved DEF WalletInv, AskPlan
<1>2. PICK r, v : r = handler[h] /\ v = wallet[w]
  OBVIOUS
<1>3. /\ r \in HandlerState /\ r.pc = "idle" /\ r = IdleHandler /\ HandlerOK(r)'
      /\ v \in WalletState /\ v.pc = "idle" /\ WalletOK(v)'
  BY <1>1, <1>2, HandlerStays, WalletStays DEF WalletInv, Shapes, AskPlan, HandlerOK
<1>4. PICK s, u : /\ s = [r EXCEPT !.pc = "read", !.then = "plan", !.to = w]
                  /\ u = [v EXCEPT !.pc = "planning"]
  OBVIOUS
<1>5. /\ s \in HandlerState /\ s.pc = "read" /\ s.then = "plan" /\ s.to = w
      /\ s.plans = r.plans /\ s.begin = r.begin /\ s.end = r.end
      /\ s.snap = r.snap /\ s.seen = r.seen
  BY <1>3, <1>4 DEF HandlerState
<1>6. /\ u \in WalletState /\ u.pc = "planning" /\ u.plans = v.plans /\ u.start = v.start
      /\ u.offset = v.offset
  BY <1>3, <1>4 DEF WalletState
<1>7. HandlerOK(s)'
  BY <1>3, <1>5 DEF HandlerOK
<1>8. WalletOK(u)'
  BY <1>3, <1>6 DEF WalletOK, InOrder
<1>9. overlapped' \in BOOLEAN
  BY DEF AskPlan, WalletInv, Shapes, Serving, Running
<1>10. handler' = [handler EXCEPT ![h] = s] /\ wallet' = [wallet EXCEPT ![w] = u]
  BY <1>2, <1>4 DEF AskPlan
<1> QED BY <1>1, <1>2, <1>3, <1>5, <1>6, <1>7, <1>8, <1>9, <1>10, CallMoves DEF AskPlan

LEMMA BeginSyncPreserves ==
  ASSUME WalletInv, NEW w \in Wallets, NEW h \in Handlers, BeginSync(w, h)
  PROVE  WalletInv'
<1>1. Advance /\ DataOK /\ UNCHANGED << matches, trades, boot, fresh >>
  BY Unmoved DEF WalletInv, BeginSync, ledger, projection
<1>2. PICK v : v = wallet[w]
  OBVIOUS
<1>3. /\ v \in WalletState /\ v.pc = "answered" /\ WalletOK(v) /\ WalletOK(v)'
      /\ handler[h].pc = "idle"
  BY <1>1, <1>2, WalletStays DEF WalletInv, Shapes, BeginSync
<1>4. PICK u : u = [v EXCEPT !.pc = "syncing"]
  OBVIOUS
<1>5. /\ u \in WalletState /\ u.pc = "syncing" /\ u.plans = v.plans /\ u.start = v.start
      /\ u.offset = v.offset /\ u.end = v.end
  BY <1>3, <1>4 DEF WalletState
<1>6. WalletOK(u)'
  BY <1>3, <1>5 DEF WalletOK, InOrder
<1>7. PICK seen \in SUBSET Pair : seen = {q \in Pair : trades[q] > 0}
  OBVIOUS
<1>8. PICK s : s = [IdleHandler EXCEPT !.pc = "updates", !.to = w, !.begin = v.offset,
                      !.end = v.end, !.known = known, !.seen = seen]
  OBVIOUS
<1>9. /\ v.offset \in Nat /\ v.end \in Nat /\ v.offset <= v.end /\ v.end <= Len(matches)
  BY <1>3 DEF WalletOK, InOrder, WalletState
<1>10. /\ s \in HandlerState /\ s.pc = "updates" /\ s.then = "reply" /\ s.to = w
       /\ s.plans = << >> /\ s.begin = v.offset /\ s.end = v.end
       /\ s.snap = {} /\ s.seen = seen /\ s.known = known
  <2>1. s = [pc |-> "updates", then |-> "reply", to |-> w, snap |-> {}, plans |-> << >>,
              begin |-> v.offset, end |-> v.end, known |-> known, seen |-> seen]
    BY <1>8 DEF IdleHandler
  <2>2. known \in SUBSET Orders /\ << >> \in Seq(Pair)
    BY <1>1 DEF DataOK
  <2> QED BY <1>7, <1>9, <2>1, <2>2 DEF HandlerState
<1>11. s.begin >= boot => \A i \in Offsets(s.begin, s.end) : Both(matches[i]) \subseteq known
  BY <1>1, <1>9, <1>10, Lengths DEF DataOK, Offsets
<1>12. HandlerOK(s)'
  BY <1>1, <1>7, <1>9, <1>10, <1>11 DEF HandlerOK, PlansOK
<1>13. overlapped' \in BOOLEAN
  BY DEF BeginSync, WalletInv, Shapes, Serving
<1>14. /\ handler' = [handler EXCEPT ![h] = s] /\ wallet' = [wallet EXCEPT ![w] = u]
       /\ UNCHANGED << sent, faults >>
  BY <1>2, <1>4, <1>7, <1>8 DEF BeginSync
<1> QED BY <1>1, <1>2, <1>3, <1>5, <1>6, <1>10, <1>12, <1>13, <1>14, CallMoves

-------------------------------------------------------------------------------
(* What fails.                                                                *)
LEMMA FaultCounted ==
  ASSUME WalletInv, Fault
  PROVE  faults' \in 0..MaxFaults
BY WalletAssumption DEF Fault, WalletInv, Shapes

LEMMA ReadFailsPreserves ==
  ASSUME WalletInv, NEW h \in Handlers, ReadFails(h)
  PROVE  WalletInv'
<1>1. PICK r : r = handler[h]
  OBVIOUS
<1>2. /\ r \in HandlerState /\ HandlerOK(r)
      /\ r.pc \in {"read", "apply", "end", "reply", "updates"}
  BY <1>1 DEF WalletInv, Shapes, ReadFails
<1>3. /\ handler' = [handler EXCEPT ![h] = IdleHandler]
      /\ wallet' = IF r.to = Nobody THEN wallet
                    ELSE [wallet EXCEPT ![r.to] =
                            IF @.pc = "planning" THEN IdleWallet ELSE Skipped(r.to)]
      /\ UNCHANGED << ledger, sent, projection, boot, overlapped >>
  BY <1>1 DEF ReadFails
<1>4. Advance /\ faults' \in 0..MaxFaults
  BY <1>3, FaultCounted, Unmoved DEF WalletInv, ReadFails
<1>5. CASE r.to = Nobody
  <2>1. HandlerOK(IdleHandler)' /\ wallet' = wallet
    BY <1>3, <1>4, <1>5, IdleOK DEF Advance
  <2>2. /\ handler'[h] = IdleHandler /\ IdleHandler.to = Nobody
        /\ \A g \in Handlers \ {h} : handler'[g] = handler[g]
    BY <1>3 DEF WalletInv, Shapes, IdleHandler
  <2>3. Shapes'
    BY <1>3, <1>4, <2>1, Idle DEF WalletInv, Shapes
  <2>4. CallsInPlace'
    BY <2>1, <2>2, WalletAssumption, CallsKept
  <2>5. SubmissionsInPlace'
    BY <1>1, <1>2, <1>3, <2>1, <2>2, SubmissionsKept
  <2> QED BY <1>3, <1>4, <2>1, <2>2, <2>3, <2>4, <2>5, Assemble
<1>6. CASE r.to \in Wallets
  <2>1. PICK w \in Wallets : w = handler[h].to /\ w = r.to
    BY <1>1, <1>6
  <2>2. PICK v : v = IF wallet[w].pc = "planning" THEN IdleWallet ELSE Skipped(w)
    OBVIOUS
  <2>3. wallet' = [wallet EXCEPT ![w] = v]
    BY <1>3, <1>6, <2>1, <2>2, WalletAssumption DEF WalletInv, Shapes
  <2>4. wallet'[w] = v
    BY <2>3 DEF WalletInv, Shapes
  <2>5. CASE wallet[w].pc = "planning"
    <3>1. v \in WalletState /\ v.pc = "idle" /\ WalletOK(v)'
      BY <1>4, <2>2, <2>5, Idle, IdleOK DEF Advance, IdleWallet
    <3> QED BY <1>3, <1>4, <2>1, <2>3, <3>1, AnswerMoves
  <2>6. CASE wallet[w].pc # "planning"
    <3>1. wallet[w].pc = "syncing" /\ wallet[w].plans # << >>
      BY <2>1, <2>6 DEF WalletInv, CallsInPlace, WalletOK
    <3>2. v \in WalletState /\ v.pc = "ready" /\ WalletOK(v)'
      BY <1>4, <2>2, <2>4, <2>6, <3>1, SkippedOK
    <3> QED BY <1>3, <1>4, <2>1, <2>3, <3>2, AnswerMoves
  <2> QED BY <2>5, <2>6
<1> QED BY <1>2, <1>5, <1>6 DEF HandlerState

(* A submission given up on keeps its pair and loses its caller.              *)
LEMMA DisownedOf ==
  ASSUME WalletInv, NEW c \in Wallets \cup Handlers, sent' = Disowned(c)
  PROVE  /\ sent' \in SUBSET Submission
         /\ \A m \in sent' : m.pair \in {n.pair : n \in sent}
         /\ \A m \in sent' : m.to # Nobody => m \in sent /\ m.to # c
<1>1. SUFFICES ASSUME NEW m \in sent'
               PROVE  /\ m \in Submission /\ m.pair \in {n.pair : n \in sent}
                      /\ m.to # Nobody => m \in sent /\ m.to # c
  OBVIOUS
<1>2. PICK n \in sent : m = IF n.to = c THEN [n EXCEPT !.to = Nobody] ELSE n
  BY DEF Disowned
<1>3. n \in Submission
  BY DEF WalletInv, Shapes
<1>4. CASE n.to = c
  <2>1. m \in Submission /\ m.to = Nobody /\ m.pair = n.pair
    BY <1>2, <1>3, <1>4 DEF Submission
  <2> QED BY <2>1
<1>5. CASE n.to # c
  BY <1>2, <1>3, <1>5
<1> QED BY <1>4, <1>5

LEMMA SettleFailsPreserves ==
  ASSUME WalletInv, NEW h \in Handlers, SettleFails(h)
  PROVE  WalletInv'
<1>1. Advance /\ faults' \in 0..MaxFaults
  BY FaultCounted, Unmoved DEF WalletInv, SettleFails
<1>2. /\ wallet' = wallet /\ handler' = [handler EXCEPT ![h] = Recovering(h)]
      /\ overlapped' = overlapped /\ sent' = Disowned(h)
      /\ handler[h].pc \in {"await", "record"}
  BY DEF SettleFails
<1>3. handler'[h] = Recovering(h) /\ \A g \in Handlers \ {h} : handler'[g] = handler[g]
  BY <1>2 DEF WalletInv, Shapes
<1>4. /\ handler'[h] \in HandlerState /\ handler'[h].to = Nobody /\ HandlerOK(handler[h])'
  BY <1>1, <1>2, <1>3, PassGoesOn
<1>5. /\ sent' \in SUBSET Submission
      /\ \A m \in sent' : m.pair \in {n.pair : n \in sent}
      /\ \A m \in sent' : m.to # Nobody => m \in sent /\ m.to # h
  BY <1>2, DisownedOf
<1>6. Shapes'
  BY <1>1, <1>2, <1>3, <1>4, <1>5 DEF WalletInv, Shapes
<1>7. CallsInPlace'
  BY <1>2, <1>3, <1>4, WalletAssumption, CallsKept
<1>8. SubmissionsInPlace'
  BY <1>2, <1>3, <1>5, WalletAssumption DEF WalletInv, SubmissionsInPlace
<1> QED BY <1>1, <1>2, <1>3, <1>4, <1>5, <1>6, <1>7, <1>8, Assemble

LEMMA GivesUpPreserves ==
  ASSUME WalletInv, NEW w \in Wallets, GivesUp(w)
  PROVE  WalletInv'
<1>1. Advance /\ faults' \in 0..MaxFaults
  BY FaultCounted, Unmoved DEF WalletInv, GivesUp
<1>2. PICK v : v = IF wallet[w].pc = "planning" THEN IdleWallet ELSE Skipped(w)
  OBVIOUS
<1>3. /\ wallet' = [wallet EXCEPT ![w] = v] /\ handler' = Orphaned(w)
      /\ overlapped' = overlapped /\ sent' = Disowned(w)
      /\ wallet[w].pc \in {"planning", "executing", "answered", "syncing"}
  BY <1>2 DEF GivesUp, WalletInv, Shapes
<1>4. wallet'[w] = v /\ \A u \in Wallets \ {w} : wallet'[u] = wallet[u]
  BY <1>3 DEF WalletInv, Shapes
<1>5. v \in WalletState /\ v.pc \in {"idle", "ready"} /\ WalletOK(wallet[w])'
  <2>1. CASE wallet[w].pc = "planning"
    BY <1>1, <1>2, <1>4, <2>1, Idle, IdleOK DEF Advance, IdleWallet
  <2>2. CASE wallet[w].pc # "planning"
    <3>1. wallet[w].plans # << >>
      BY <1>3, <2>2 DEF WalletInv, WalletOK
    <3> QED BY <1>1, <1>2, <1>4, <2>2, <3>1, SkippedOK
  <2> QED BY <2>1, <2>2
<1>6. /\ sent' \in SUBSET Submission
      /\ \A m \in sent' : m.pair \in {n.pair : n \in sent}
      /\ \A m \in sent' : m.to # Nobody => m \in sent /\ m.to # w
  BY <1>3, DisownedOf
<1>7. ASSUME NEW h \in Handlers
      PROVE  /\ handler'[h] \in HandlerState /\ HandlerOK(handler[h])'
             /\ handler'[h].to # w
             /\ handler'[h].to \in Wallets => handler'[h] = handler[h]
             /\ handler[h].pc = "await" => handler'[h] = handler[h]
  <2>1. PICK r : r = handler[h]
    OBVIOUS
  <2>2. r \in HandlerState /\ HandlerOK(r) /\ HandlerOK(r)'
    BY <1>1, <2>1, HandlerStays DEF WalletInv, Shapes
  <2>3. PICK s : s = [r EXCEPT !.to = Nobody]
    OBVIOUS
  <2>4. /\ s \in HandlerState /\ s.pc = r.pc /\ s.then = r.then /\ s.to = Nobody
        /\ s.plans = r.plans /\ s.begin = r.begin /\ s.end = r.end
        /\ s.snap = r.snap /\ s.seen = r.seen /\ s.known = r.known
    BY <2>2, <2>3 DEF HandlerState
  <2>5. CASE r.to = w
    <3>1. handler'[h] = s
      BY <1>3, <2>1, <2>3, <2>5 DEF Orphaned
    <3>2. r.pc # "idle" /\ r.pc # "await"
      BY <2>2, <2>5, WalletAssumption DEF HandlerOK, IdleHandler
    <3>3. HandlerOK(s)'
      BY <2>2, <2>4, <3>2 DEF HandlerOK
    <3> QED BY <2>1, <2>4, <3>1, <3>2, <3>3, WalletAssumption
  <2>6. CASE r.to # w
    <3>1. handler'[h] = r
      BY <1>3, <2>1, <2>6 DEF Orphaned
    <3> QED BY <2>1, <2>2, <2>6, <3>1
  <2> QED BY <2>5, <2>6
<1>8. handler' \in [Handlers -> HandlerState]
  BY <1>3, <1>7 DEF Orphaned
<1>9. Shapes'
  BY <1>1, <1>3, <1>5, <1>6, <1>8 DEF WalletInv, Shapes
<1>10. CallsInPlace'
  BY <1>4, <1>7 DEF WalletInv, CallsInPlace
<1>11. SubmissionsInPlace'
  BY <1>4, <1>6, <1>7, WalletAssumption DEF WalletInv, SubmissionsInPlace
<1> QED BY <1>1, <1>4, <1>5, <1>6, <1>7, <1>9, <1>10, <1>11, Assemble

(* A restarted service knows the active orders, which is all that the plans   *)
(* of wallets and the submissions under way can still need.                   *)
LEMMA RestartPreserves ==
  ASSUME WalletInv, Restart
  PROVE  WalletInv'
<1>1. /\ DataOK /\ Len(matches) \in Nat /\ UNCHANGED << fresh, open, matches, overlapped >>
      /\ boot' = Len(matches) /\ known' = open /\ cache' = open
      /\ handler' = [h \in Handlers |-> IdleHandler] /\ faults' \in 0..MaxFaults
  BY Lengths, FaultCounted DEF WalletInv, Restart, ledger
<1>2. trades' \in [Pair -> Nat] /\ \A q \in Pair : trades'[q] = 0
  BY DEF Restart
<1>3. TradesHappened'
  BY <1>2 DEF TradesHappened
<1>4. DataOK'
  BY <1>1, <1>2, <1>3 DEF DataOK, Offsets
<1>5. /\ sent' \in SUBSET Submission
      /\ \A m \in sent' : m.pair \in {n.pair : n \in sent}
      /\ \A m \in sent' : m.to # Nobody => m \in sent /\ m.to \notin Handlers
  <2>1. SUFFICES ASSUME NEW m \in sent'
                 PROVE  /\ m \in Submission /\ m.pair \in {n.pair : n \in sent}
                        /\ m.to # Nobody => m \in sent /\ m.to \notin Handlers
    OBVIOUS
  <2>2. PICK n \in sent : m = IF n.to \in Handlers THEN [n EXCEPT !.to = Nobody] ELSE n
    BY DEF Restart
  <2>3. n \in Submission
    BY DEF WalletInv, Shapes
  <2>4. CASE n.to \in Handlers
    <3>1. m \in Submission /\ m.to = Nobody /\ m.pair = n.pair
      BY <2>2, <2>3, <2>4 DEF Submission
    <3> QED BY <3>1
  <2>5. CASE n.to \notin Handlers
    BY <2>2, <2>3, <2>5
  <2> QED BY <2>4, <2>5
<1>6. \A q \in Pair : Sound(q) => Sound(q)'
  BY <1>1 DEF Sound, Both
<1>7. \A m \in sent' : Sound(m.pair)'
  BY <1>5, <1>6 DEF WalletInv, Shapes, Submission
<1>8. ASSUME NEW r \in WalletState, WalletOK(r)
      PROVE  WalletOK(r)'
  <2>1. PlansOK(r.plans)'
    BY <1>6, <1>8 DEF WalletOK, PlansOK, WalletState
  <2>2. InOrder(r)'
    BY <1>1, <1>8 DEF WalletOK, InOrder
  <2>3. r.start >= boot' => AllRecorded(r.start, r.offset)'
    BY <1>1, <2>2 DEF InOrder, AllRecorded, Offsets, WalletState
  <2> QED BY <1>8, <2>1, <2>2, <2>3 DEF WalletOK
<1>9. ASSUME NEW w \in Wallets
      PROVE  /\ wallet'[w] \in WalletState /\ WalletOK(wallet[w])'
             /\ wallet[w].pc = "executing" => wallet'[w] = wallet[w]
  <2>1. PICK r : r = wallet[w]
    OBVIOUS
  <2>2. r \in WalletState /\ WalletOK(r) /\ WalletOK(r)'
    BY <1>8, <2>1 DEF WalletInv, Shapes
  <2>3. CASE r.pc = "planning"
    BY <1>4, <2>1, <2>3, Idle, IdleOK DEF Restart
  <2>4. CASE r.pc = "syncing"
    <3>1. PICK s : s = [r EXCEPT !.pc = "ready", !.plans = Tail(@), !.end = 0]
      OBVIOUS
    <3>2. wallet'[w] = s
      BY <2>1, <2>4, <3>1 DEF Restart, Skipped
    <3>3. r.plans \in Seq(Pair) /\ r.plans # << >>
      BY <2>2, <2>4 DEF WalletState, WalletOK
    <3>4. /\ s \in WalletState /\ s.pc = "ready" /\ s.plans = Tail(r.plans)
          /\ s.start = r.start /\ s.offset = r.offset
      BY <2>2, <3>1, <3>3, TailOf DEF WalletState
    <3>5. PlansOK(s.plans)'
      <4>1. \A i \in 1..Len(s.plans) : i + 1 \in 1..Len(r.plans) /\ s.plans[i] = r.plans[i + 1]
        BY <3>3, <3>4, TailOf
      <4> QED BY <2>2, <4>1 DEF WalletOK, PlansOK
    <3>6. WalletOK(s)'
      BY <2>2, <3>4, <3>5 DEF WalletOK, InOrder
    <3> QED BY <2>1, <2>4, <3>2, <3>4, <3>6
  <2>5. CASE r.pc \notin {"planning", "syncing"}
    <3>1. wallet'[w] = r
      BY <2>1, <2>5 DEF Restart
    <3> QED BY <2>1, <2>2, <3>1
  <2> QED BY <2>3, <2>4, <2>5
<1>10. wallet' \in [Wallets -> WalletState]
  BY <1>9 DEF Restart
<1>11. Shapes'
  BY <1>1, <1>5, <1>10, Idle DEF WalletInv, Shapes
<1>12. \A h \in Handlers : HandlerOK(handler[h])' /\ handler'[h].to = Nobody
  BY <1>1, <1>4, IdleOK DEF IdleHandler
<1>13. CallsInPlace'
  BY <1>12, WalletAssumption DEF CallsInPlace
<1>14. SubmissionsInPlace'
  BY <1>5, <1>9, WalletAssumption DEF WalletInv, SubmissionsInPlace
<1> QED BY <1>4, <1>7, <1>9, <1>11, <1>12, <1>13, <1>14 DEF WalletInv

-------------------------------------------------------------------------------
LEMMA InitHolds == Init => WalletInv
<1>1. SUFFICES ASSUME Init PROVE WalletInv
  OBVIOUS
<1>2. trades \in [Pair -> Nat] /\ \A q \in Pair : trades[q] = 0
  BY <1>1 DEF Init
<1>3. Shapes
  <2>1. handler \in [Handlers -> HandlerState] /\ wallet \in [Wallets -> WalletState]
    BY <1>1, Idle DEF Init
  <2>2. sent = {} /\ overlapped \in BOOLEAN /\ faults = 0
    BY <1>1 DEF Init
  <2>3. 0 \in 0..MaxFaults
    BY WalletAssumption
  <2> QED BY <2>1, <2>2, <2>3 DEF Shapes
<1>4. DataOK
  BY <1>1, <1>2 DEF Init, DataOK, TradesHappened, Offsets
<1>5. HandlerOK(IdleHandler)
  BY <1>4, Lengths DEF HandlerOK, IdleHandler, PlansOK, Offsets
<1>6. WalletOK(IdleWallet)
  BY <1>4, Lengths DEF WalletOK, IdleWallet, PlansOK, InOrder, AllRecorded, Offsets
<1>7. \A h \in Handlers : handler[h].to = Nobody /\ HandlerOK(handler[h])
  BY <1>1, <1>5 DEF Init, IdleHandler
<1>8. \A w \in Wallets : WalletOK(wallet[w])
  BY <1>1, <1>6 DEF Init
<1>9. CallsInPlace
  BY <1>7, WalletAssumption DEF CallsInPlace
<1>10. SubmissionsInPlace /\ \A m \in sent : Sound(m.pair)
  BY <1>1 DEF Init, SubmissionsInPlace
<1> QED BY <1>3, <1>4, <1>7, <1>8, <1>9, <1>10 DEF WalletInv

LEMMA StutterPreserves == WalletInv /\ UNCHANGED vars => WalletInv'
<1>1. SUFFICES ASSUME WalletInv, UNCHANGED vars PROVE WalletInv'
  OBVIOUS
<1>2. /\ UNCHANGED << fresh, open, matches, sent, known, cache, trades, handler, wallet,
                      boot, overlapped, faults >>
  BY <1>1 DEF vars
<1>3. Advance /\ Shapes' /\ CallsInPlace' /\ SubmissionsInPlace'
  BY <1>1, <1>2, Unmoved
     DEF WalletInv, Shapes, CallsInPlace, SubmissionsInPlace, ledger, projection
<1> QED BY <1>1, <1>2, <1>3, Assemble

LEMMA NextPreserves == WalletInv /\ Next => WalletInv'
<1>1. SUFFICES ASSUME WalletInv, Next PROVE WalletInv'
  OBVIOUS
<1>2. CASE \E o \in Orders : Place(o) \/ Withdraw(o)
  BY <1>1, <1>2, PlacePreserves, WithdrawPreserves
<1>3. CASE \E m \in sent : LedgerMatches(m) \/ LedgerRefuses(m)
  BY <1>1, <1>3, LedgerMatchesPreserves, LedgerRefusesPreserves
<1>4. CASE \E h \in Handlers :
             \/ ReadOrders(h) \/ RefreshDone(h) \/ ReadEnd(h) \/ PlanReply(h)
             \/ SyncUpdates(h)
  BY <1>1, <1>4, ReadOrdersPreserves, RefreshDonePreserves, ReadEndPreserves,
     PlanReplyPreserves, SyncUpdatesPreserves
<1>5. CASE \E h \in Handlers :
             \/ BeginPass(h) \/ Submit(h) \/ RecordTrade(h) \/ EndPass(h)
             \/ ReadFails(h) \/ SettleFails(h)
  BY <1>1, <1>5, BeginPassPreserves, SubmitPreserves, RecordTradePreserves,
     EndPassPreserves, ReadFailsPreserves, SettleFailsPreserves
<1>6. CASE \E w \in Wallets : Execute(w) \/ Finish(w) \/ GivesUp(w)
  BY <1>1, <1>6, ExecutePreserves, FinishPreserves, GivesUpPreserves
<1>7. CASE \E w \in Wallets, h \in Handlers : AskPlan(w, h) \/ BeginSync(w, h)
  BY <1>1, <1>7, AskPlanPreserves, BeginSyncPreserves
<1>8. CASE Restart
  BY <1>1, <1>8, RestartPreserves
<1> QED BY <1>1, <1>2, <1>3, <1>4, <1>5, <1>6, <1>7, <1>8 DEF Next

(* WalletInv holds in every state of the wallet path.                         *)
THEOREM WalletInvariance == Spec => []WalletInv
<1>1. Init => WalletInv
  BY InitHolds
<1>2. WalletInv /\ [Next]_vars => WalletInv'
  BY NextPreserves, StutterPreserves
<1> QED BY <1>1, <1>2, PTL DEF Spec

(* The variables keep their types, and an order is not both new and active.   *)
THEOREM WalletTypeCorrect == Spec => []WalletTypeOK
<1>1. WalletInv => WalletTypeOK
  <2>1. SUFFICES ASSUME WalletInv PROVE WalletTypeOK
    OBVIOUS
  <2>2. Shapes /\ DataOK
    BY <2>1 DEF WalletInv
  <2> QED BY <2>2 DEF Shapes, DataOK, WalletTypeOK
<1> QED BY <1>1, WalletInvariance, PTL

(* match-sync resolves the orders of every match of its range, if the service *)
(* has not restarted since the range began (http.ts, tradeFromTransaction).   *)
THEOREM SyncsResolve == Spec => []SyncResolves
<1>1. WalletInv => SyncResolves
  BY DEF WalletInv, HandlerOK, SyncResolves
<1> QED BY <1>1, WalletInvariance, PTL

(* The offset of a run of the wallet leaves no match behind, whatever answers *)
(* were lost on the way (hooks.ts, runMatchPass).                             *)
THEOREM NoMatchLeftBehind == Spec => []NoGap
<1>1. WalletInv => NoGap
  BY DEF WalletInv, WalletOK, AllRecorded, NoGap
<1> QED BY <1>1, WalletInvariance, PTL

(* Only what the ledger matched is recorded as a trade, by a pass or a sync.  *)
THEOREM OnlyMatchesRecorded == Spec => []TradesHappened
<1>1. WalletInv => TradesHappened
  BY DEF WalletInv, DataOK
<1> QED BY <1>1, WalletInvariance, PTL

-------------------------------------------------------------------------------
(* One record per trade.  A pair that matched is gone for good, and while one *)
(* activity at a time may record, what it is about to record is not recorded. *)

Gone == \A i \in 1..Len(matches) : Both(matches[i]) \cap (open \cup fresh) = {}

Alone == \A g, h \in Handlers : handler[g].pc # "idle" /\ handler[h].pc # "idle" => g = h

OwesRecords ==
  /\ Alone
  /\ \A q \in Pair : trades[q] <= 1
  /\ \A h \in Handlers : handler[h].pc = "updates" =>
       \A q \in Pair : trades[q] > 0 => q \in handler[h].seen
  /\ \A h \in Handlers : handler[h].pc = "record" => trades[handler[h].plans[1]] = 0

OnceInv == Gone /\ (~overlapped => OwesRecords)

(* A step that neither records nor begins to.                                 *)
LEMMA OnceKept ==
  ASSUME OnceInv, Gone', trades' = trades, overlapped' = overlapped,
         \A h \in Handlers :
           /\ handler'[h].pc # "idle" => handler[h].pc # "idle"
           /\ handler'[h].pc \in {"updates", "record"} =>
                /\ handler'[h].pc = handler[h].pc /\ handler'[h].seen = handler[h].seen
                /\ handler'[h].plans = handler[h].plans
  PROVE  OnceInv'
<1>1. SUFFICES ASSUME ~overlapped PROVE OwesRecords'
  BY DEF OnceInv
<1>2. OwesRecords
  BY <1>1 DEF OnceInv
<1>3. Alone'
  BY <1>2 DEF OwesRecords, Alone
<1> QED BY <1>2, <1>3 DEF OwesRecords

(* Of the activities, only h moves on, and not to record.                     *)
LEMMA OnceMoves ==
  ASSUME OnceInv, Shapes, UNCHANGED << ledger, trades, overlapped >>,
         NEW h \in Handlers, handler[h].pc # "idle",
         NEW s, s.pc \notin {"updates", "record"}, handler' = [handler EXCEPT ![h] = s]
  PROVE  OnceInv'
<1>1. Gone'
  BY DEF OnceInv, Gone, ledger
<1>2. handler'[h] = s /\ \A g \in Handlers : g # h => handler'[g] = handler[g]
  BY DEF Shapes
<1> QED BY <1>1, <1>2, OnceKept

(* One activity begins: with another under way, the history says overlapped.  *)
LEMMA OnceBegins ==
  ASSUME OnceInv, Shapes, UNCHANGED << ledger, trades >>, NEW h \in Handlers,
         overlapped' \in BOOLEAN, overlapped \/ Serving => overlapped',
         NEW s, s.pc # "record", handler' = [handler EXCEPT ![h] = s],
         s.pc = "updates" => s.seen = {q \in Pair : trades[q] > 0}
  PROVE  OnceInv'
<1>1. Gone'
  BY DEF OnceInv, Gone, ledger
<1>2. SUFFICES ASSUME ~overlapped' PROVE OwesRecords'
  BY <1>1 DEF OnceInv
<1>3. OwesRecords /\ \A g \in Handlers : handler[g].pc = "idle"
  BY <1>2 DEF OnceInv, Serving, Shapes
<1>4. handler'[h] = s /\ \A g \in Handlers : g # h => handler'[g].pc = "idle"
  BY <1>3 DEF Shapes
<1>5. Alone'
  BY <1>4 DEF Alone
<1> QED BY <1>3, <1>4, <1>5 DEF OwesRecords

(* The one activity that records: what is new to it was not on record.        *)
LEMMA OnceRecords ==
  ASSUME OnceInv, DataOK, Shapes, UNCHANGED << ledger, overlapped >>,
         NEW h \in Handlers, handler[h].pc # "idle",
         NEW s, s.pc \notin {"updates", "record"}, handler' = [handler EXCEPT ![h] = s],
         NEW new, trades' = Recorded(new),
         ~overlapped => \A q \in Pair \cap new : trades[q] = 0
  PROVE  OnceInv'
<1>1. Gone'
  BY DEF OnceInv, Gone, ledger
<1>2. SUFFICES ASSUME ~overlapped PROVE OwesRecords'
  BY <1>1 DEF OnceInv
<1>3. OwesRecords /\ \A q \in Pair \cap new : trades[q] = 0
  BY <1>2 DEF OnceInv
<1>4. handler'[h] = s /\ \A g \in Handlers : g # h => handler'[g] = handler[g]
  BY DEF Shapes
<1>5. \A g \in Handlers : g # h => handler'[g].pc = "idle"
  BY <1>3, <1>4 DEF OwesRecords, Alone
<1>6. \A q \in Pair : trades'[q] <= 1
  BY <1>3 DEF OwesRecords, Recorded, DataOK
<1>7. Alone'
  BY <1>5 DEF Alone
<1> QED BY <1>4, <1>5, <1>6, <1>7 DEF OwesRecords

(* A pair settles once: its orders are neither active nor still to come.      *)
LEMMA OnceMatches ==
  ASSUME WalletInv, OnceInv, NEW m \in sent, LedgerMatches(m)
  PROVE  OnceInv'
<1>1. DataOK /\ Shapes /\ m.pair \in Pair
  BY Caller DEF WalletInv
<1>2. /\ Both(m.pair) \subseteq open /\ matches' = Append(matches, m.pair)
      /\ \E rest \in SUBSET fresh : /\ open' = (open \ Both(m.pair)) \cup rest
                                    /\ fresh' = fresh \ rest
      /\ trades' = trades /\ overlapped' = overlapped
  BY DEF LedgerMatches, projection
<1>3. /\ open' \cup fresh' \subseteq open \cup fresh
      /\ Both(m.pair) \cap (open' \cup fresh') = {}
  BY <1>1, <1>2 DEF DataOK
<1>4. Gone'
  <2>1. \A i \in 1..Len(matches') :
          \/ i \in 1..Len(matches) /\ matches'[i] = matches[i]
          \/ matches'[i] = m.pair
    BY <1>1, <1>2 DEF DataOK
  <2> QED BY <1>3, <2>1 DEF OnceInv, Gone
<1>5. trades[m.pair] = 0
  <2>1. \A i \in 1..Len(matches) : matches[i] # m.pair
    BY <1>2 DEF OnceInv, Gone, Both
  <2> QED BY <1>1, <2>1 DEF DataOK, TradesHappened
<1>6. CASE m.to \notin Handlers
  BY <1>2, <1>4, <1>6, OnceKept DEF LedgerMatches
<1>7. CASE m.to \in Handlers
  <2>1. PICK r, s : r = handler[m.to] /\ s = [r EXCEPT !.pc = "record"]
    OBVIOUS
  <2>2. r \in HandlerState /\ r.pc = "await" /\ m.pair = r.plans[1]
    BY <1>7, <2>1, Caller
  <2>3. s.pc = "record" /\ s.plans = r.plans
    BY <2>1, <2>2 DEF HandlerState
  <2>4. handler' = [handler EXCEPT ![m.to] = s]
    BY <1>7, <2>1 DEF LedgerMatches
  <2>5. handler'[m.to] = s /\ \A g \in Handlers : g # m.to => handler'[g] = handler[g]
    BY <1>1, <1>7, <2>4 DEF Shapes
  <2>6. SUFFICES ASSUME ~overlapped PROVE OwesRecords'
    BY <1>2, <1>4 DEF OnceInv
  <2>7. OwesRecords
    BY <2>6 DEF OnceInv
  <2>8. Alone'
    BY <2>1, <2>2, <2>5, <2>7, <1>7 DEF OwesRecords, Alone
  <2> QED BY <1>2, <1>5, <1>7, <2>2, <2>3, <2>5, <2>7, <2>8 DEF OwesRecords
<1> QED BY <1>6, <1>7

(* The steps of one activity that is under way.                               *)
LEMMA OnceServes ==
  ASSUME WalletInv, OnceInv, NEW h \in Handlers,
         \/ ReadOrders(h) \/ RefreshDone(h) \/ ReadEnd(h) \/ PlanReply(h)
         \/ Submit(h) \/ EndPass(h) \/ ReadFails(h) \/ SettleFails(h)
  PROVE  OnceInv'
<1>1. Shapes /\ UNCHANGED << ledger, trades, overlapped >> /\ handler[h].pc # "idle"
  BY DEF WalletInv, ReadOrders, RefreshDone, Refreshed, ReadEnd, PlanReply, Submit, EndPass,
         ReadFails, SettleFails, projection
<1>2. PICK r : r = handler[h]
  OBVIOUS
<1>3. r \in HandlerState
  BY <1>1, <1>2 DEF Shapes
<1>4. \E s : s.pc \notin {"updates", "record"} /\ handler' = [handler EXCEPT ![h] = s]
  <2>1. CASE ReadOrders(h)
    <3>1. PICK s : s = [r EXCEPT !.pc = "apply", !.snap = open]
      OBVIOUS
    <3> QED BY <1>2, <1>3, <2>1, <3>1 DEF ReadOrders, HandlerState
  <2>2. CASE RefreshDone(h)
    <3>1. CASE handler' = [handler EXCEPT ![h].pc = "end", ![h].snap = {}]
      <4>1. PICK s : s = [r EXCEPT !.pc = "end", !.snap = {}]
        OBVIOUS
      <4>2. s.pc = "end"
        BY <1>3, <4>1 DEF HandlerState
      <4>3. handler' = [handler EXCEPT ![h] = s]
        BY <1>2, <3>1, <4>1
      <4> QED BY <4>2, <4>3
    <3>2. ASSUME NEW plans,
                 handler' = [handler EXCEPT ![h].pc = "settle", ![h].then = "settle",
                                            ![h].plans = plans, ![h].snap = {}]
          PROVE  \E s : s.pc = "settle" /\ handler' = [handler EXCEPT ![h] = s]
      <4>1. PICK s : s = [r EXCEPT !.pc = "settle", !.then = "settle",
                                   !.plans = plans, !.snap = {}]
        OBVIOUS
      <4>2. s.pc = "settle"
        BY <1>3, <4>1 DEF HandlerState
      <4>3. handler' = [handler EXCEPT ![h] = s]
        BY <1>2, <3>2, <4>1
      <4> QED BY <4>2, <4>3
    <3>3. CASE handler' = [handler EXCEPT ![h].pc = "settle", ![h].snap = {}]
      <4>1. PICK s : s = [r EXCEPT !.pc = "settle", !.snap = {}]
        OBVIOUS
      <4>2. s.pc = "settle"
        BY <1>3, <4>1 DEF HandlerState
      <4>3. handler' = [handler EXCEPT ![h] = s]
        BY <1>2, <3>3, <4>1
      <4> QED BY <4>2, <4>3
    <3>4. CASE handler' = [handler EXCEPT ![h] = IdleHandler]
      BY <3>4 DEF IdleHandler
    <3> QED BY <2>2, <3>1, <3>2, <3>3, <3>4 DEF RefreshDone
  <2>3. CASE ReadEnd(h)
    <3>1. PICK s : s = [r EXCEPT !.pc = "reply", !.end = Len(matches)]
      OBVIOUS
    <3> QED BY <1>2, <1>3, <2>3, <3>1 DEF ReadEnd, HandlerState
  <2>4. CASE PlanReply(h) \/ EndPass(h) \/ ReadFails(h)
    BY <2>4 DEF PlanReply, EndPass, ReadFails, IdleHandler
  <2>5. CASE Submit(h)
    <3>1. PICK s : s = [r EXCEPT !.pc = "await"]
      OBVIOUS
    <3> QED BY <1>2, <1>3, <2>5, <3>1 DEF Submit, HandlerState
  <2>6. CASE SettleFails(h)
    <3>1. PICK s : s = [r EXCEPT !.pc = "read", !.plans = Tail(@)]
      OBVIOUS
    <3> QED BY <1>2, <1>3, <2>6, <3>1 DEF SettleFails, Recovering, HandlerState
  <2> QED BY <2>1, <2>2, <2>3, <2>4, <2>5, <2>6
<1> QED BY <1>1, <1>4, OnceMoves

LEMMA OnceRefused ==
  ASSUME WalletInv, OnceInv, NEW m \in sent, LedgerRefuses(m)
  PROVE  OnceInv'
<1>1. Shapes /\ UNCHANGED << ledger, trades, overlapped >>
  BY DEF WalletInv, LedgerRefuses, projection
<1>2. CASE m.to \notin Handlers
  <2>1. Gone'
    BY <1>1 DEF OnceInv, Gone, ledger
  <2> QED BY <1>1, <1>2, <2>1, OnceKept DEF LedgerRefuses
<1>3. CASE m.to \in Handlers
  <2>1. PICK r, s : r = handler[m.to] /\ s = [r EXCEPT !.pc = "read", !.plans = Tail(@)]
    OBVIOUS
  <2>2. r \in HandlerState /\ r.pc = "await"
    BY <1>3, <2>1, Caller
  <2>3. s.pc = "read" /\ handler' = [handler EXCEPT ![m.to] = s]
    BY <1>3, <2>1, <2>2 DEF LedgerRefuses, Recovering, HandlerState
  <2> QED BY <1>1, <1>3, <2>1, <2>2, <2>3, OnceMoves
<1> QED BY <1>2, <1>3

LEMMA OnceBegun ==
  ASSUME WalletInv, OnceInv, NEW h \in Handlers,
         BeginPass(h) \/ \E w \in Wallets : AskPlan(w, h) \/ BeginSync(w, h)
  PROVE  OnceInv'
<1>1. /\ Shapes /\ UNCHANGED << ledger, trades >> /\ overlapped' \in BOOLEAN
      /\ overlapped \/ Serving => overlapped'
  BY DEF WalletInv, Shapes, BeginPass, AskPlan, BeginSync, projection, Serving, Running
<1>2. PICK r : r = handler[h]
  OBVIOUS
<1>3. r \in HandlerState
  BY <1>1, <1>2 DEF Shapes
<1>4. CASE BeginPass(h)
  <2>1. PICK s : s = [r EXCEPT !.pc = "read", !.then = "match"]
    OBVIOUS
  <2>2. s.pc = "read" /\ handler' = [handler EXCEPT ![h] = s]
    BY <1>2, <1>3, <1>4, <2>1 DEF BeginPass, HandlerState
  <2> QED BY <1>1, <2>2, OnceBegins
<1>5. ASSUME NEW w \in Wallets, AskPlan(w, h) PROVE OnceInv'
  <2>1. PICK s : s = [r EXCEPT !.pc = "read", !.then = "plan", !.to = w]
    OBVIOUS
  <2>2. s.pc = "read" /\ handler' = [handler EXCEPT ![h] = s]
    BY <1>2, <1>3, <1>5, <2>1 DEF AskPlan, HandlerState
  <2> QED BY <1>1, <2>2, OnceBegins
<1>6. ASSUME NEW w \in Wallets, BeginSync(w, h) PROVE OnceInv'
  <2>1. PICK s : s = [IdleHandler EXCEPT !.pc = "updates", !.to = w,
                        !.begin = wallet[w].offset, !.end = wallet[w].end,
                        !.known = known, !.seen = {q \in Pair : trades[q] > 0}]
    OBVIOUS
  <2>2. s.pc = "updates" /\ s.seen = {q \in Pair : trades[q] > 0}
    BY <2>1 DEF IdleHandler
  <2>3. handler' = [handler EXCEPT ![h] = s]
    BY <1>6, <2>1 DEF BeginSync
  <2> QED BY <1>1, <2>2, <2>3, OnceBegins
<1> QED BY <1>4, <1>5, <1>6

LEMMA OnceSynced ==
  ASSUME WalletInv, OnceInv, NEW h \in Handlers, SyncUpdates(h)
  PROVE  OnceInv'
<1>1. /\ Shapes /\ DataOK /\ UNCHANGED << ledger, overlapped >>
      /\ handler[h].pc = "updates"
  BY DEF WalletInv, SyncUpdates
<1>2. PICK r : r = handler[h]
  OBVIOUS
<1>3. r \in HandlerState
  BY <1>1, <1>2 DEF Shapes
<1>4. CASE trades' = Recorded(NewIn(h))
           /\ handler' = [handler EXCEPT ![h].pc = "read", ![h].known = {}, ![h].seen = {}]
  <2>1. PICK s : s = [r EXCEPT !.pc = "read", !.known = {}, !.seen = {}]
    OBVIOUS
  <2>2. s.pc = "read" /\ handler' = [handler EXCEPT ![h] = s]
    BY <1>2, <1>3, <1>4, <2>1 DEF HandlerState
  <2>3. ~overlapped => \A q \in Pair \cap NewIn(h) : trades[q] = 0
    BY <1>1 DEF OnceInv, OwesRecords, NewIn, DataOK
  <2> QED BY <1>1, <1>4, <2>2, <2>3, OnceRecords
<1>5. CASE trades' = trades /\ handler' = [handler EXCEPT ![h] = IdleHandler]
  BY <1>1, <1>5, OnceMoves DEF IdleHandler
<1> QED BY <1>4, <1>5 DEF SyncUpdates

LEMMA OnceRecorded ==
  ASSUME WalletInv, OnceInv, NEW h \in Handlers, RecordTrade(h)
  PROVE  OnceInv'
<1>1. /\ Shapes /\ DataOK /\ UNCHANGED << ledger, overlapped >>
      /\ handler[h].pc = "record" /\ HandlerOK(handler[h])
      /\ trades' = Recorded({Head(handler[h].plans)})
  BY DEF WalletInv, RecordTrade
<1>2. PICK r, s : r = handler[h] /\ s = [r EXCEPT !.pc = "settle", !.plans = Tail(@)]
  OBVIOUS
<1>3. r \in HandlerState
  BY <1>1, <1>2 DEF Shapes
<1>4. s.pc = "settle" /\ handler' = [handler EXCEPT ![h] = s]
  BY <1>2, <1>3 DEF RecordTrade, Settling, HandlerState
<1>5. Head(r.plans) = r.plans[1]
  BY <1>1, <1>2, <1>3 DEF HandlerOK, HandlerState
<1>6. ~overlapped => trades[Head(handler[h].plans)] = 0
  BY <1>1, <1>2, <1>5 DEF OnceInv, OwesRecords
<1> QED BY <1>1, <1>4, <1>6, OnceRecords

(* Wallets, orders that come and go, and the end of the process.              *)
LEMMA OnceElse ==
  ASSUME WalletInv, OnceInv,
         \/ \E o \in Orders : Place(o) \/ Withdraw(o)
         \/ \E w \in Wallets : Execute(w) \/ Finish(w) \/ GivesUp(w)
         \/ Restart \/ UNCHANGED vars
  PROVE  OnceInv'
<1>1. /\ open' \cup fresh' \subseteq open \cup fresh /\ matches' = matches
      /\ overlapped' = overlapped
  BY DEF Place, Withdraw, Execute, Finish, GivesUp, Restart, ledger, vars
<1>2. Gone'
  BY <1>1 DEF OnceInv, Gone
<1>3. CASE Restart
  <2>1. \A q \in Pair : trades'[q] = 0
    BY <1>3 DEF Restart
  <2>2. \A h \in Handlers : handler'[h].pc = "idle"
    BY <1>3 DEF Restart, IdleHandler
  <2> QED BY <1>2, <2>1, <2>2 DEF OnceInv, OwesRecords, Alone
<1>4. CASE ~Restart
  <2>1. trades' = trades
    BY <1>4 DEF Place, Withdraw, Execute, Finish, GivesUp, projection, vars
  <2>2. handler' = handler \/ \E w \in Wallets : handler' = Orphaned(w)
    BY <1>4 DEF Place, Withdraw, Execute, Finish, GivesUp, vars
  <2>3. ASSUME NEW w \in Wallets, handler' = Orphaned(w), NEW h \in Handlers
        PROVE  /\ handler'[h].pc = handler[h].pc /\ handler'[h].seen = handler[h].seen
               /\ handler'[h].plans = handler[h].plans
    <3>1. PICK r, s : r = handler[h] /\ s = [r EXCEPT !.to = Nobody]
      OBVIOUS
    <3>2. s.pc = r.pc /\ s.seen = r.seen /\ s.plans = r.plans
      BY <3>1 DEF WalletInv, Shapes, HandlerState
    <3>3. handler'[h] \in {r, s}
      BY <2>3, <3>1 DEF Orphaned
    <3> QED BY <3>1, <3>2, <3>3
  <2> QED BY <1>1, <1>2, <2>1, <2>2, <2>3, OnceKept
<1> QED BY <1>3, <1>4

(* While the activities that record do not overlap, no trade is on record     *)
(* twice, whatever answers are lost, calls given up and processes restarted   *)
(* (http.ts, syncWalletMatches; settlement.ts, settle).                       *)
THEOREM NothingRecordedTwice == Spec => []RecordedOnce
<1>1. Init => OnceInv
  BY DEF Init, OnceInv, OwesRecords, Alone, Gone, IdleHandler
<1>2. WalletInv /\ OnceInv /\ [Next]_vars => OnceInv'
  BY OnceMatches, OnceRefused, OnceServes, OnceBegun, OnceSynced, OnceRecorded, OnceElse
     DEF Next
<1>3. OnceInv => RecordedOnce
  BY DEF OnceInv, OwesRecords, RecordedOnce
<1> QED BY <1>1, <1>2, <1>3, WalletInvariance, PTL DEF Spec

===============================================================================
