---------------------------- MODULE WiringProofs ----------------------------
(***************************************************************************)
(* The service on either ledger, for any calls, token lives, skew, traders *)
(* and terms.  The cached token is valid for the calls it is given to.  In *)
(* memory, where nothing is undone when a settlement throws half-way,      *)
(* nobody pays or is paid the quote but in a recorded trade, and value is  *)
(* neither created nor lost.  A pass is followed plan by plan.             *)
(***************************************************************************)
EXTENDS Wiring, MatcherProofs

-----------------------------------------------------------------------------
\* The tokens

\* The life of a token as it is cached: it is refreshed no later than it was
\* asked for, or the skew ahead of its end.
LEMMA RefreshAhead ==
  ASSUME NEW since \in Nat, NEW late \in Nat, NEW life \in Nat, NEW expires \in Nat,
         since <= late, since + life <= expires
  PROVE  LET refreshAt == since + Longest(0, life - Skew)
         IN  /\ refreshAt \in Nat
             /\ refreshAt <= late \/ refreshAt + Skew <= expires
BY TokenAssumption DEF Longest

\* A call's record, and that its token is in time.
CallRecords == [pc : {"idle", "fetch", "issued", "fresh", "cached"},
                since : Nat, life : Nat, expires : Nat]

InTime(r) == /\ r.since <= clock
             /\ r.pc = "issued" => r.since + r.life <= r.expires
             /\ r.pc = "cached" => r.since + Skew < r.expires

LEMMA OneCallMoves ==
  ASSUME TokenInv, NEW c \in Calls, NEW r \in CallRecords, InTime(r),
         calls' = [calls EXCEPT ![c] = r], UNCHANGED <<clock, cached>>
  PROVE  TokenInv'
<1>1. calls' \in [Calls -> CallRecords]
  BY DEF TokenInv, CallRecords
<1>2. ASSUME NEW d \in Calls PROVE InTime(calls'[d])
  <2>1. CASE d = c
    BY <2>1 DEF TokenInv
  <2>2. CASE d # c
    BY <2>2 DEF TokenInv, InTime
  <2> QED
    BY <2>1, <2>2
<1> QED
  BY <1>1, <1>2 DEF TokenInv, CallRecords, InTime

LEMMA TokenInitInv == TokenInit => TokenInv
BY TokenAssumption DEF TokenInit, TokenInv, Resting

LEMMA TokenStepInv == TokenInv /\ [TokenNext]_tokenVars => TokenInv'
<1> SUFFICES ASSUME TokenInv, [TokenNext]_tokenVars PROVE TokenInv'
  OBVIOUS
<1> USE TokenAssumption
<1>1. CASE ClockTicks
  BY <1>1 DEF ClockTicks, TokenInv
<1>2. ASSUME NEW c \in Calls, GetToken(c) PROVE TokenInv'
  <2>1. ASSUME NEW k \in cached, clock < k.refreshAt,
               calls' = [calls EXCEPT ![c] = [Resting EXCEPT !.pc = "cached",
                            !.since = clock, !.expires = k.expires]]
        PROVE  TokenInv'
    <3> DEFINE r == [pc |-> "cached", since |-> clock, life |-> 0, expires |-> k.expires]
    <3>1. calls' = [calls EXCEPT ![c] = r] /\ UNCHANGED <<clock, cached>>
      BY <1>2, <2>1 DEF GetToken, Resting
    <3>2. r \in CallRecords /\ InTime(r)
      BY <2>1 DEF TokenInv, CallRecords, InTime
    <3> HIDE DEF r
    <3> QED
      BY <3>1, <3>2, OneCallMoves
  <2>2. CASE calls' = [calls EXCEPT ![c] = [Resting EXCEPT !.pc = "fetch", !.since = clock]]
    <3> DEFINE r == [pc |-> "fetch", since |-> clock, life |-> 0, expires |-> 0]
    <3>1. calls' = [calls EXCEPT ![c] = r] /\ UNCHANGED <<clock, cached>>
      BY <1>2, <2>2 DEF GetToken, Resting
    <3>2. r \in CallRecords /\ InTime(r)
      BY DEF TokenInv, CallRecords, InTime
    <3> HIDE DEF r
    <3> QED
      BY <3>1, <3>2, OneCallMoves
  <2> QED
    BY <1>2, <2>1, <2>2 DEF GetToken
<1>3. ASSUME NEW c \in Calls, NEW n \in Lives, Issue(c, n) PROVE TokenInv'
  <2> DEFINE r == calls'[c]
  <2>1. /\ calls' = [d \in Calls |-> IF d = c THEN r ELSE calls[d]]
        /\ UNCHANGED <<clock, cached>>
    BY <1>3 DEF Issue, TokenInv
  <2>2. r = [pc |-> "issued", since |-> calls[c].since, life |-> n, expires |-> clock + n]
    <3>1. r = [calls[c] EXCEPT !.pc = "issued", !.life = n, !.expires = clock + n]
      BY <1>3 DEF Issue, TokenInv
    <3>2. calls[c] = [pc |-> calls[c].pc, since |-> calls[c].since,
                      life |-> calls[c].life, expires |-> calls[c].expires]
      BY DEF TokenInv
    <3> HIDE DEF r
    <3> QED
      BY <3>1, <3>2
  <2>3. r \in CallRecords /\ InTime(r)
    <3>1. n \in Nat /\ clock \in Nat
          /\ calls[c].since \in Nat /\ calls[c].since <= clock
      BY DEF TokenInv
    <3> HIDE DEF r
    <3> QED
      BY <2>2, <3>1 DEF CallRecords, InTime
  <2>4. calls' = [calls EXCEPT ![c] = r]
    <3> HIDE DEF r
    <3> QED
      BY <2>1 DEF TokenInv
  <2> HIDE DEF r
  <2> QED
    BY <2>1, <2>3, <2>4, OneCallMoves
<1>4. ASSUME NEW c \in Calls, Fetched(c) PROVE TokenInv'
  <2>1. LET refreshAt == calls[c].since + Longest(0, calls[c].life - Skew)
        IN  /\ refreshAt \in Nat
            /\ refreshAt <= clock \/ refreshAt + Skew <= calls[c].expires
    BY <1>4, RefreshAhead DEF Fetched, TokenInv
  <2> QED
    BY <1>4, <2>1 DEF Fetched, TokenInv
<1>5. ASSUME NEW c \in Calls, Over(c) PROVE TokenInv'
  <2>1. Resting \in CallRecords /\ InTime(Resting)
    BY DEF Resting, TokenInv, CallRecords, InTime
  <2> QED
    BY <1>5, <2>1, OneCallMoves DEF Over
<1>6. CASE UNCHANGED tokenVars
  BY <1>6 DEF tokenVars, TokenInv
<1> QED
  BY <1>1, <1>2, <1>3, <1>4, <1>5, <1>6 DEF TokenNext

\* The inductive invariant of auth.ts's cache and the calls that use it.
THEOREM TokensInvariance == TokenSpec => []TokenInv
BY TokenInitInv, TokenStepInv, PTL DEF TokenSpec

\* A call that reaches the ledger within the skew carries a valid token,
\* however fetches overlapped and answers were delayed.
THEOREM CachedTokensAreValid == TokenSpec => []CachedIsValid
<1>1. TokenInv => CachedIsValid
  BY TokenAssumption DEF TokenInv, CachedIsValid
<1> QED
  BY <1>1, TokensInvariance, PTL


-----------------------------------------------------------------------------
\* The store's holdings: numbered from below the counter, without end, and of
\* any amount, nothing included, unlike a contract's.

Lot == [id : Nat, owner : Parties, instrument : Instruments, amount : Nat]

Stored(H, id) == IsFiniteSet(H) /\ H \subseteq Lot /\ \A h \in H : h.id < id

Held(H, Q, j) == Value(HeldBy(H, Q, j))

LEMMA HeldNat ==
  ASSUME NEW H, NEW id, Stored(H, id), NEW Q, NEW j
  PROVE  /\ IsFiniteSet(HeldBy(H, Q, j)) /\ \A h \in HeldBy(H, Q, j) : h.amount \in Nat
         /\ Held(H, Q, j) \in Nat
<1>1. IsFiniteSet(HeldBy(H, Q, j)) /\ \A h \in HeldBy(H, Q, j) : h.amount \in Nat
  BY FS_Subset DEF Stored, HeldBy, Lot
<1> QED
  BY <1>1, ValueNat DEF Held

\* A holding is put in.
LEMMA PutHolding ==
  ASSUME NEW H, NEW id \in Nat, Stored(H, id), NEW h \in Lot, h.id = id
  PROVE  /\ Stored(H \cup {h}, id + 1)
         /\ \A Q, j : Held(H \cup {h}, Q, j)
              = Held(H, Q, j) + Share(h.owner, h.instrument, h.amount, Q, j)
<1>1. Stored(H \cup {h}, id + 1) /\ h \notin H
  <2>1. IsFiniteSet(H \cup {h})
    BY FS_AddElement DEF Stored
  <2>2. \A x \in H : x.id < id /\ x.id < id + 1
    BY DEF Stored, Lot
  <2> QED
    BY <2>1, <2>2 DEF Stored
<1>2. ASSUME NEW Q, NEW j
      PROVE  Held(H \cup {h}, Q, j)
               = Held(H, Q, j) + Share(h.owner, h.instrument, h.amount, Q, j)
  <2>1. /\ IsFiniteSet(HeldBy(H, Q, j)) /\ \A x \in HeldBy(H, Q, j) : x.amount \in Nat
        /\ Held(H, Q, j) \in Nat
    BY HeldNat
  <2>2. CASE h.owner \in Q /\ h.instrument = j
    <3>1. HeldBy(H \cup {h}, Q, j) = HeldBy(H, Q, j) \cup {h} /\ h \notin HeldBy(H, Q, j)
      BY <1>1, <2>2 DEF HeldBy
    <3>2. Value(HeldBy(H, Q, j) \cup {h}) = Value(HeldBy(H, Q, j)) + h.amount
      BY <2>1, <3>1, ValueAdd DEF Lot
    <3>3. Value(HeldBy(H \cup {h}, Q, j)) = Value(HeldBy(H, Q, j)) + h.amount
      BY <3>1, <3>2, Zenon
    <3> QED
      BY <2>2, <3>3 DEF Share, Held
  <2>3. CASE ~(h.owner \in Q /\ h.instrument = j)
    <3>1. HeldBy(H \cup {h}, Q, j) = HeldBy(H, Q, j)
      BY <2>3 DEF HeldBy
    <3> QED
      BY <2>1, <2>3, <3>1 DEF Share, Held
  <2> QED
    BY <2>2, <2>3
<1> QED
  BY <1>1, <1>2

\* All that p holds of i.
AllHeld(H, p, i) == {h \in H : h.owner = p /\ h.instrument = i}

\* It is archived.
LEMMA SpendAll ==
  ASSUME NEW H, NEW id, Stored(H, id), NEW p, NEW i
  PROVE  LET R == AllHeld(H, p, i)
         IN  /\ Stored(H \ R, id) /\ Value(R) \in Nat
             /\ \A Q, j : Held(H \ R, Q, j) = Held(H, Q, j) - Share(p, i, Value(R), Q, j)
<1> DEFINE R == AllHeld(H, p, i)
<1>1. Stored(H \ R, id)
  <2>1. IsFiniteSet(H \ R)
    BY FS_Difference DEF Stored
  <2> QED
    BY <2>1 DEF Stored
<1>2. Value(R) \in Nat
  <2>1. IsFiniteSet(R) /\ \A h \in R : h.amount \in Nat
    BY FS_Subset DEF Stored, AllHeld, Lot
  <2> HIDE DEF R
  <2> QED
    BY <2>1, ValueNat
<1>3. ASSUME NEW Q, NEW j
      PROVE  Held(H \ R, Q, j) = Held(H, Q, j) - Share(p, i, Value(R), Q, j)
  <2>1. /\ IsFiniteSet(HeldBy(H, Q, j)) /\ \A x \in HeldBy(H, Q, j) : x.amount \in Nat
        /\ Held(H, Q, j) \in Nat
    BY HeldNat
  <2>2. CASE p \in Q /\ i = j
    <3>1. HeldBy(H \ R, Q, j) = HeldBy(H, Q, j) \ R /\ R \in SUBSET HeldBy(H, Q, j)
      BY <2>2 DEF HeldBy, AllHeld
    <3> HIDE DEF R
    <3>2. Value(HeldBy(H, Q, j) \ R) = Value(HeldBy(H, Q, j)) - Value(R)
      BY <2>1, <3>1, ValueDiff
    <3>3. Value(HeldBy(H \ R, Q, j)) = Value(HeldBy(H, Q, j)) - Value(R)
      BY <3>1, <3>2, Zenon
    <3> QED
      BY <2>2, <3>3 DEF Share, Held
  <2>3. CASE ~(p \in Q /\ i = j)
    <3>1. HeldBy(H \ R, Q, j) = HeldBy(H, Q, j)
      BY <2>3 DEF HeldBy, AllHeld
    <3> HIDE DEF R
    <3> QED
      BY <2>1, <2>3, <3>1 DEF Share, Held
  <2> QED
    BY <2>2, <2>3
<1> QED
  BY <1>1, <1>2, <1>3

-----------------------------------------------------------------------------
\* transfer()

StoreOK(m) ==
  /\ m = [holdings |-> m.holdings, orders |-> m.orders, id |-> m.id, trades |-> m.trades]
  /\ m.id \in Nat /\ Stored(m.holdings, m.id)

\* n is m after p paid q this much of i.
Paid(m, n, i, p, q, amount) ==
  /\ StoreOK(n) /\ m.id <= n.id /\ n.orders = m.orders /\ n.trades = m.trades
  /\ \A Q, j : Held(n.holdings, Q, j)
       = (Held(m.holdings, Q, j) - Share(p, i, amount, Q, j)) + Share(q, i, amount, Q, j)

\* What is held once p has spent all it holds of i and has its change.
Leftover(H, id, p, i, change) ==
  (H \ AllHeld(H, p, i)) \cup {h \in {NewHolding(id, p, i, change)} : change > 0}

LEMMA ChangeKept ==
  ASSUME NEW H, NEW id \in Nat, Stored(H, id), NEW p \in Parties,
         NEW i \in Instruments, NEW amount \in Nat,
         NEW change, change = Value(AllHeld(H, p, i)) - amount, change >= 0
  PROVE  /\ Stored(Leftover(H, id, p, i, change), id + 1)
         /\ \A Q, j : Held(Leftover(H, id, p, i, change), Q, j)
                        = Held(H, Q, j) - Share(p, i, amount, Q, j)
<1> DEFINE R == AllHeld(H, p, i)
           h == NewHolding(id, p, i, change)
           K == Leftover(H, id, p, i, change)
<1> SUFFICES /\ Stored(K, id + 1)
             /\ \A Q, j : Held(K, Q, j) = Held(H, Q, j) - Share(p, i, amount, Q, j)
  OBVIOUS
<1>0. K = (H \ R) \cup {x \in {h} : change > 0}
  BY DEF Leftover
<1>1. /\ Stored(H \ R, id) /\ Value(R) \in Nat
      /\ \A Q, j : Held(H \ R, Q, j) = Held(H, Q, j) - Share(p, i, Value(R), Q, j)
  BY SpendAll
<1>2. change \in Nat
  BY <1>1
<1>3. \A Q, j : Held(H, Q, j) \in Nat
  BY HeldNat
<1> HIDE DEF R, K
<1>4. CASE change = 0
  <2>1. K = H \ R /\ Value(R) = amount
    BY <1>0, <1>1, <1>4 DEF R
  <2>2. Stored(H \ R, id + 1)
    <3>1. \A x \in H \ R : x.id < id + 1
      BY <1>1 DEF Stored, Lot
    <3> QED
      BY <1>1, <3>1 DEF Stored
  <2> QED
    BY <1>1, <2>1, <2>2
<1>5. CASE change > 0
  <2>1. K = (H \ R) \cup {h}
    BY <1>0, <1>5
  <2>2. h.id = id /\ h.amount = change /\ h.owner = p /\ h.instrument = i /\ h \in Lot
    BY <1>2 DEF NewHolding, Lot
  <2> HIDE DEF h, K
  <2>3. /\ Stored(K, id + 1)
        /\ \A Q, j : Held(K, Q, j) = Held(H \ R, Q, j) + Share(p, i, change, Q, j)
    BY <1>1, <1>2, <2>1, <2>2, PutHolding
  <2>4. ASSUME NEW Q, NEW j
        PROVE  Held(K, Q, j) = Held(H, Q, j) - Share(p, i, amount, Q, j)
    <3>1. /\ Held(K, Q, j) = Held(H \ R, Q, j) + Share(p, i, change, Q, j)
          /\ Held(H \ R, Q, j) = Held(H, Q, j) - Share(p, i, Value(R), Q, j)
      BY <1>1, <2>3
    <3>2. Share(p, i, Value(R), Q, j) = Share(p, i, change, Q, j) + Share(p, i, amount, Q, j)
      BY <1>1 DEF Share, R
    <3>3. Share(p, i, change, Q, j) \in Nat /\ Share(p, i, amount, Q, j) \in Nat
      BY <1>2 DEF Share
    <3> QED
      BY <1>3, <3>1, <3>2, <3>3
  <2> QED
    BY <2>3, <2>4
<1>6. change = 0 \/ change > 0
  BY <1>2
<1> QED
  BY <1>4, <1>5, <1>6

LEMMA MovesPay ==
  ASSUME NEW m, StoreOK(m), NEW i \in Instruments, NEW p \in Parties, NEW q \in Parties,
         NEW amount \in Nat,
         NEW n \in Moved(m, i, p, q, amount)
  PROVE  Paid(m, n, i, p, q, amount)
<1> DEFINE H == m.holdings
           R == AllHeld(H, p, i)
           change == Value(R) - amount
           K == Leftover(H, m.id, p, i, change)
           g == NewHolding(m.id + 1, q, i, amount)
<1>1. /\ change >= 0
      /\ n = [m EXCEPT !.holdings = (@ \ R)
                 \cup {h \in {NewHolding(m.id, p, i, change)} : change > 0} \cup {g},
                       !.id = @ + 2]
  BY DEF Moved, AllHeld
<1>2. n = [holdings |-> K \cup {g}, orders |-> m.orders, id |-> m.id + 2, trades |-> m.trades]
  BY <1>1 DEF StoreOK, Leftover
<1>3. m.id \in Nat /\ Stored(H, m.id)
  BY DEF StoreOK
<1>4. /\ Stored(K, m.id + 1)
      /\ \A Q, j : Held(K, Q, j) = Held(H, Q, j) - Share(p, i, amount, Q, j)
  <2> HIDE DEF H, change
  <2>1. change = Value(AllHeld(H, p, i)) - amount
    BY DEF change
  <2> QED
    BY <1>1, <1>3, <2>1, ChangeKept
<1>5. g.id = m.id + 1 /\ g.amount = amount /\ g.owner = q /\ g.instrument = i /\ g \in Lot
  BY <1>3 DEF NewHolding, Lot
<1> HIDE DEF K, g, change, H
<1>6. /\ Stored(K \cup {g}, (m.id + 1) + 1)
      /\ \A Q, j : Held(K \cup {g}, Q, j) = Held(K, Q, j) + Share(q, i, amount, Q, j)
  <2> DEFINE k == m.id + 1
  <2>1. k \in Nat /\ Stored(K, k) /\ g.id = k /\ g \in Lot
    BY <1>3, <1>4, <1>5
  <2> HIDE DEF k
  <2>2. /\ Stored(K \cup {g}, k + 1)
        /\ \A Q, j : Held(K \cup {g}, Q, j)
             = Held(K, Q, j) + Share(g.owner, g.instrument, g.amount, Q, j)
    BY <2>1, PutHolding
  <2> QED
    BY <1>5, <2>2 DEF k
<1>7. (m.id + 1) + 1 = m.id + 2 /\ m.id + 2 \in Nat /\ m.id <= m.id + 2
  BY <1>3
<1>8. StoreOK(n)
  BY <1>2, <1>6, <1>7 DEF StoreOK
<1> QED
  BY <1>2, <1>4, <1>6, <1>7, <1>8 DEF Paid, H

-----------------------------------------------------------------------------
\* Recorded trades, of which no two are of one buy

TradesOK(T) ==
  /\ IsFiniteSet(T)
  /\ \A t \in T : t.paid \in Nat
  /\ \A t, u \in T : t.buy.id = u.buy.id => t = u

Receipt(t) == [id |-> t.buy.id, amount |-> t.paid]
Receipts(T) == {Receipt(t) : t \in T}

BoughtBy(T, p) == {t \in T : t.buy.trader = p}
SoldBy(T, p) == {t \in T : t.sell.trader = p}

LEMMA ReceiptsNat ==
  ASSUME NEW T, TradesOK(T), NEW B \in SUBSET T
  PROVE  TradesOK(B) /\ IsFiniteSet(Receipts(B)) /\ Value(Receipts(B)) \in Nat
<1>1. TradesOK(B)
  BY FS_Subset DEF TradesOK
<1>2. IsFiniteSet(Receipts(B))
  <2> DEFINE f == [u \in B |-> Receipt(u)]
  <2>1. f \in Surjection(B, Receipts(B))
    BY DEF Surjection, Receipts
  <2> HIDE DEF f
  <2> QED
    BY <1>1, <2>1, FS_Surjection DEF TradesOK
<1>3. \A c \in Receipts(B) : c.amount \in Nat
  BY <1>1 DEF TradesOK, Receipts, Receipt
<1> QED
  BY <1>1, <1>2, <1>3, ValueNat

\* One more trade, of a buy of its own, adds its payment.
LEMMA ReceiptsGrow ==
  ASSUME NEW T, TradesOK(T), NEW t, t.paid \in Nat, \A u \in T : u.buy.id # t.buy.id
  PROVE  /\ TradesOK(T \cup {t})
         /\ Value(Receipts(T)) \in Nat
         /\ Value(Receipts(T \cup {t})) = Value(Receipts(T)) + t.paid
<1> DEFINE r == Receipt(t)
<1>0. \A u : Receipt(u).id = u.buy.id /\ Receipt(u).amount = u.paid
  BY DEF Receipt
<1>1. TradesOK(T \cup {t})
  <2>1. IsFiniteSet(T \cup {t})
    BY FS_AddElement DEF TradesOK
  <2> QED
    BY <2>1 DEF TradesOK
<1>2. IsFiniteSet(Receipts(T)) /\ Value(Receipts(T)) \in Nat
  BY ReceiptsNat
<1>3. /\ \A c \in Receipts(T) : c.amount \in Nat
      /\ r \notin Receipts(T) /\ r.amount = t.paid
      /\ Receipts(T \cup {t}) = Receipts(T) \cup {r}
  BY <1>0 DEF TradesOK, Receipts
<1> HIDE DEF r
<1>5. Value(Receipts(T) \cup {r}) = Value(Receipts(T)) + r.amount
  BY <1>2, <1>3, ValueAdd
<1> QED
  BY <1>1, <1>2, <1>3, <1>5

\* Of some of the trades, those with p on one side say, it adds to those it is of.
LEMMA SomeReceiptsGrow ==
  ASSUME NEW T, TradesOK(T), NEW t, t.paid \in Nat, \A u \in T : u.buy.id # t.buy.id,
         NEW B \in SUBSET T, NEW C, NEW n,
         \/ C = B \cup {t} /\ n = t.paid
         \/ C = B /\ n = 0
  PROVE  /\ Value(Receipts(B)) \in Nat
         /\ Value(Receipts(C)) = Value(Receipts(B)) + n
<1>1. TradesOK(B) /\ \A u \in B : u.buy.id # t.buy.id
  BY FS_Subset DEF TradesOK
<1>2. /\ Value(Receipts(B)) \in Nat
      /\ Value(Receipts(B \cup {t})) = Value(Receipts(B)) + t.paid
  BY <1>1, ReceiptsGrow
<1>3. CASE C = B \cup {t} /\ n = t.paid
  BY <1>2, <1>3
<1>4. CASE C = B /\ n = 0
  <2>1. \A x \in Nat : x = x + 0
    OBVIOUS
  <2> QED
    BY <1>2, <1>4, <2>1
<1> QED
  BY <1>3, <1>4

FaucetOK == faucet \in [Parties -> [Instruments -> Nat]]

\* What each party holds of the quote is what the faucet gave it and what the
\* trades brought and cost it.
Balanced(H, T) ==
  \A p \in Parties :
    Held(H, {p}, Market.quote) + Value(Receipts(BoughtBy(T, p)))
      = faucet[p][Market.quote] + Value(Receipts(SoldBy(T, p)))

LEMMA TradeBalances ==
  ASSUME FaucetOK, NEW H, NEW id, Stored(H, id), NEW K, NEW T, TradesOK(T), Balanced(H, T),
         NEW t, t.paid \in Nat, \A u \in T : u.buy.id # t.buy.id,
         \A Q : Held(K, Q, Market.quote)
           = (Held(H, Q, Market.quote)
                - Share(t.buy.trader, Market.quote, t.paid, Q, Market.quote))
               + Share(t.sell.trader, Market.quote, t.paid, Q, Market.quote)
  PROVE  Balanced(K, T \cup {t})
<1> DEFINE i == Market.quote
<1> SUFFICES ASSUME NEW p \in Parties
             PROVE  Held(K, {p}, i) + Value(Receipts(BoughtBy(T \cup {t}, p)))
                      = faucet[p][i] + Value(Receipts(SoldBy(T \cup {t}, p)))
  BY DEF Balanced
<1>1. /\ Held(H, {p}, i) \in Nat /\ faucet[p][i] \in Nat
      /\ Held(H, {p}, i) + Value(Receipts(BoughtBy(T, p)))
           = faucet[p][i] + Value(Receipts(SoldBy(T, p)))
  BY HeldNat, DarkPoolAssumption DEF FaucetOK, Balanced
<1> DEFINE b == Share(t.buy.trader, i, t.paid, {p}, i)
           s == Share(t.sell.trader, i, t.paid, {p}, i)
<1>2. Held(K, {p}, i) = (Held(H, {p}, i) - b) + s
  OBVIOUS
<1>3. b \in Nat /\ s \in Nat
  BY DEF Share
<1>4. /\ BoughtBy(T, p) \in SUBSET T
      /\ \/ BoughtBy(T \cup {t}, p) = BoughtBy(T, p) \cup {t} /\ b = t.paid
         \/ BoughtBy(T \cup {t}, p) = BoughtBy(T, p) /\ b = 0
  BY DEF BoughtBy, Share
<1>5. /\ SoldBy(T, p) \in SUBSET T
      /\ \/ SoldBy(T \cup {t}, p) = SoldBy(T, p) \cup {t} /\ s = t.paid
         \/ SoldBy(T \cup {t}, p) = SoldBy(T, p) /\ s = 0
  BY DEF SoldBy, Share
<1> HIDE DEF b, s, i
<1>6. /\ Value(Receipts(BoughtBy(T, p))) \in Nat
      /\ Value(Receipts(BoughtBy(T \cup {t}, p))) = Value(Receipts(BoughtBy(T, p))) + b
  <2> DEFINE B == BoughtBy(T, p)
             C == BoughtBy(T \cup {t}, p)
  <2>1. /\ B \in SUBSET T
        /\ \/ C = B \cup {t} /\ b = t.paid
           \/ C = B /\ b = 0
    BY <1>4
  <2> HIDE DEF B, C
  <2>2. Value(Receipts(B)) \in Nat /\ Value(Receipts(C)) = Value(Receipts(B)) + b
    BY <2>1, SomeReceiptsGrow
  <2> QED
    BY <2>2 DEF B, C
<1>7. /\ Value(Receipts(SoldBy(T, p))) \in Nat
      /\ Value(Receipts(SoldBy(T \cup {t}, p))) = Value(Receipts(SoldBy(T, p))) + s
  <2> DEFINE B == SoldBy(T, p)
             C == SoldBy(T \cup {t}, p)
  <2>1. /\ B \in SUBSET T
        /\ \/ C = B \cup {t} /\ s = t.paid
           \/ C = B /\ s = 0
    BY <1>5
  <2> HIDE DEF B, C
  <2>2. Value(Receipts(B)) \in Nat /\ Value(Receipts(C)) = Value(Receipts(B)) + s
    BY <2>1, SomeReceiptsGrow
  <2> QED
    BY <2>2 DEF B, C
<1> QED
  BY <1>1, <1>2, <1>3, <1>6, <1>7

-----------------------------------------------------------------------------
\* settle()

\* A payment leaves the totals where they are, and the other instruments alone.
Steady(m, n, i) ==
  /\ \A j : Held(n.holdings, Parties, j) = Held(m.holdings, Parties, j)
  /\ \A Q, j : j # i => Held(n.holdings, Q, j) = Held(m.holdings, Q, j)

LEMMA PaymentsKeep ==
  ASSUME NEW m, StoreOK(m), NEW n, NEW i, NEW p \in Parties, NEW q \in Parties,
         NEW amount \in Nat, Paid(m, n, i, p, q, amount)
  PROVE  Steady(m, n, i)
<1>1. \A Q, j : /\ Held(n.holdings, Q, j)
                     = (Held(m.holdings, Q, j) - Share(p, i, amount, Q, j))
                         + Share(q, i, amount, Q, j)
                /\ Held(m.holdings, Q, j) \in Nat
  BY HeldNat DEF Paid, StoreOK
<1>2. /\ \A j : /\ Share(p, i, amount, Parties, j) = Share(q, i, amount, Parties, j)
                /\ Share(q, i, amount, Parties, j) \in Nat
      /\ \A Q, j : j # i => Share(p, i, amount, Q, j) = 0 /\ Share(q, i, amount, Q, j) = 0
  BY DEF Share
<1>3. \A x, y \in Nat : (x - y) + y = x /\ (x - 0) + 0 = x
  OBVIOUS
<1>4. ASSUME NEW j PROVE Held(n.holdings, Parties, j) = Held(m.holdings, Parties, j)
  BY <1>1, <1>2, <1>3
<1>5. ASSUME NEW Q, NEW j, j # i PROVE Held(n.holdings, Q, j) = Held(m.holdings, Q, j)
  BY <1>1, <1>2, <1>3, <1>5
<1> QED
  BY <1>4, <1>5 DEF Steady

Trade(plan) ==
  [buy |-> plan.buy, sell |-> plan.sell, qty |-> plan.fillQty, paid |-> QuoteOwed(plan)]

PlanOK(plan) == /\ plan.buy.trader \in Parties /\ plan.sell.trader \in Parties
                /\ plan.fillQty \in Nat /\ QuoteOwed(plan) \in Nat

\* What one plan does to the store, whether or not its settlement throws: both
\* orders go, the totals stay, and the quote moves exactly when the trade is
\* recorded.
Settles(m, n, plan) ==
  /\ StoreOK(n) /\ m.id <= n.id
  /\ n.orders = m.orders \ {plan.buy, plan.sell}
  /\ \A j : Held(n.holdings, Parties, j) = Held(m.holdings, Parties, j)
  /\ \/ /\ n.trades = m.trades
        /\ \A Q : Held(n.holdings, Q, Market.quote) = Held(m.holdings, Q, Market.quote)
     \/ /\ n.trades = m.trades \cup {Trade(plan)}
        /\ \A Q : Held(n.holdings, Q, Market.quote)
             = (Held(m.holdings, Q, Market.quote)
                  - Share(plan.buy.trader, Market.quote, QuoteOwed(plan), Q, Market.quote))
                 + Share(plan.sell.trader, Market.quote, QuoteOwed(plan), Q, Market.quote)

LEMMA ArchivedStore ==
  ASSUME NEW m, StoreOK(m), NEW plan
  PROVE  LET a == Archived(m, plan)
         IN  /\ StoreOK(a) /\ a.holdings = m.holdings /\ a.id = m.id /\ a.trades = m.trades
             /\ a.orders = m.orders \ {plan.buy, plan.sell}
<1>1. Archived(m, plan) = [holdings |-> m.holdings, orders |-> m.orders \ {plan.buy, plan.sell},
                           id |-> m.id, trades |-> m.trades]
  BY DEF Archived, StoreOK
<1> QED
  BY <1>1 DEF StoreOK

LEMMA SettlesThePlan ==
  ASSUME NEW m, StoreOK(m), NEW plan, PlanOK(plan)
  PROVE  Settles(m, Settle(m, plan), plan)
<1> DEFINE a == Archived(m, plan)
           seller == plan.sell.trader
           buyer == plan.buy.trader
           based == Moved(a, Market.base, seller, buyer, plan.fillQty)
           PaidFrom(n) == Moved(n, Market.quote, buyer, seller, QuoteOwed(plan))
           paid == UNION {PaidFrom(n) : n \in based}
           last == CHOOSE n \in paid : TRUE
           first == CHOOSE n \in based : TRUE
<1>1. /\ StoreOK(a) /\ a.holdings = m.holdings /\ a.id = m.id /\ a.trades = m.trades
      /\ a.orders = m.orders \ {plan.buy, plan.sell}
  BY ArchivedStore
<1>2. Settle(m, plan) = IF paid # {} THEN [last EXCEPT !.trades = @ \cup {Trade(plan)}]
                        ELSE IF based # {} THEN first ELSE a
  BY DEF Settle, Trade
<1>3. /\ seller \in Parties /\ buyer \in Parties
      /\ plan.fillQty \in Nat /\ QuoteOwed(plan) \in Nat
      /\ Market.base \in Instruments /\ Market.quote \in Instruments
      /\ Market.base # Market.quote /\ m.id \in Nat
  BY DarkPoolAssumption DEF PlanOK, StoreOK
<1> HIDE DEF a, seller, buyer
<1>4. ASSUME NEW n \in based
      PROVE  /\ Paid(a, n, Market.base, seller, buyer, plan.fillQty)
             /\ StoreOK(n)
             /\ \A j : Held(n.holdings, Parties, j) = Held(m.holdings, Parties, j)
             /\ \A Q : Held(n.holdings, Q, Market.quote) = Held(m.holdings, Q, Market.quote)
  <2>1. Paid(a, n, Market.base, seller, buyer, plan.fillQty)
    BY <1>1, <1>3, MovesPay
  <2>2. Steady(a, n, Market.base)
    BY <1>1, <1>3, <2>1, PaymentsKeep
  <2> QED
    BY <1>1, <1>3, <2>1, <2>2 DEF Paid, Steady
<1> HIDE DEF based
<1>5. CASE paid # {}
  <2> DEFINE t == Trade(plan)
             r == [last EXCEPT !.trades = @ \cup {t}]
  <2>1. last \in paid
    BY <1>5
  <2>2. PICK n \in based : last \in PaidFrom(n)
    BY <2>1
  <2> HIDE DEF last, paid, t
  <2>3. Paid(n, last, Market.quote, buyer, seller, QuoteOwed(plan))
    BY <1>3, <1>4, <2>2, MovesPay
  <2>4. Steady(n, last, Market.quote)
    BY <1>3, <1>4, <2>3, PaymentsKeep
  <2>5. r = [holdings |-> last.holdings, orders |-> last.orders, id |-> last.id,
             trades |-> last.trades \cup {t}]
    <3>1. StoreOK(last)
      BY <2>3 DEF Paid
    <3> QED
      BY <3>1 DEF StoreOK
  <2> HIDE DEF r
  <2>6. /\ last.trades = m.trades /\ last.orders = m.orders \ {plan.buy, plan.sell}
        /\ m.id <= last.id
    <3>1. n.id \in Nat /\ last.id \in Nat /\ m.id <= n.id /\ n.id <= last.id
      BY <1>1, <1>4, <2>3 DEF Paid, StoreOK
    <3> QED
      BY <1>1, <1>3, <1>4, <2>3, <3>1 DEF Paid
  <2>7. StoreOK(r)
    BY <2>3, <2>5 DEF Paid, StoreOK
  <2>8. \A Q : Held(r.holdings, Q, Market.quote)
          = (Held(m.holdings, Q, Market.quote)
               - Share(buyer, Market.quote, QuoteOwed(plan), Q, Market.quote))
              + Share(seller, Market.quote, QuoteOwed(plan), Q, Market.quote)
    BY <1>4, <2>3, <2>5 DEF Paid
  <2>9. \A j : Held(r.holdings, Parties, j) = Held(m.holdings, Parties, j)
    BY <1>4, <2>4, <2>5 DEF Steady
  <2>10. r.trades = m.trades \cup {Trade(plan)} /\ r.orders = m.orders \ {plan.buy, plan.sell}
         /\ m.id <= r.id
    BY <2>5, <2>6 DEF t
  <2>11. Settles(m, r, plan)
    BY <2>7, <2>8, <2>9, <2>10 DEF Settles, buyer, seller
  <2> QED
    BY <1>2, <1>5, <2>11 DEF r, t
<1>6. CASE paid = {} /\ based # {}
  <2>1. first \in based /\ Settle(m, plan) = first
    BY <1>2, <1>6
  <2> HIDE DEF first
  <2>2. /\ first.trades = m.trades /\ first.orders = m.orders \ {plan.buy, plan.sell}
        /\ m.id <= first.id
    BY <1>1, <1>4, <2>1 DEF Paid
  <2>3. Settles(m, first, plan)
    BY <1>4, <2>1, <2>2 DEF Settles
  <2> QED
    BY <2>1, <2>3
<1>7. CASE paid = {} /\ based = {}
  <2>1. Settle(m, plan) = a
    BY <1>2, <1>7
  <2>2. Settles(m, a, plan)
    BY <1>1, <1>3 DEF Settles
  <2> QED
    BY <2>1, <2>2
<1> QED
  BY <1>5, <1>6, <1>7

-----------------------------------------------------------------------------
\* The pass

BookOK(O, id) ==
  Quoted(O) /\ Numbered(O) /\ \A o \in O : o.id < id /\ o.trader \in Parties

\* The recorded trades are of buys that are not in the book any more.
TradesLeft(T, O, id) ==
  \A t \in T : t.buy.id \in Nat /\ t.buy.id < id /\ \A o \in O : o.id # t.buy.id

\* The invariant of the service on its in-memory ledger.
StoreInv ==
  /\ nextId \in Nat \ {0} /\ Stored(holdings, nextId) /\ allocs = {}
  /\ FaucetOK /\ minted \in [Instruments -> Nat]
  /\ BookOK(orders, nextId)
  /\ TradesOK(trades) /\ TradesLeft(trades, orders, nextId)
  /\ \A i \in Instruments : Held(holdings, Parties, i) = minted[i]
  /\ Balanced(holdings, trades)

Matched == FindMatches(pool, orders, now)

FirstStore == [holdings |-> holdings, orders |-> orders, id |-> nextId, trades |-> trades]

Follows(f, plans, first) ==
  f = [n \in 0 .. Len(plans) |-> IF n = 0 THEN first ELSE Settle(f[n - 1], plans[n])]

LastStore == (CHOOSE f : Follows(f, Matched, FirstStore))[Len(Matched)]

LEMMA PassIsLast ==
  MockPass => /\ holdings' = LastStore.holdings /\ nextId' = LastStore.id
              /\ trades' = LastStore.trades
              /\ orders' = {o \in LastStore.orders : ~Expired(o)}
              /\ UNCHANGED <<allocs, minted, now, pool, chain, faucet>>
BY DEF MockPass, LastStore, Follows, Matched, FirstStore

LEMMA OwedType ==
  ASSUME NEW O, Quoted(O), NEW plan \in PlanOf(O)
  PROVE  QuoteOwed(plan) \in Nat
<1>1. /\ plan.fillQty \in Nat
      /\ plan.buy.limitPrice \in Nat /\ plan.sell.limitPrice \in Nat
  BY DEF PlanOf, Quoted, PosNat
<1> DEFINE price == DecMidpointPrice(plan.buy.limitPrice, plan.sell.limitPrice)
<1>2. price \in Nat
  BY <1>1 DEF DecMidpointPrice
<1> HIDE DEF price
<1>3. DecQuoteAmount(plan.fillQty, price) = QuoteAmount(plan.fillQty, price)
  BY <1>1, <1>2, DecimalsAgree
<1>4. QuoteAmount(plan.fillQty, price) \in Nat
  BY <1>1, <1>2, QuoteType
<1> QED
  BY <1>3, <1>4 DEF QuoteOwed, price

\* The plans of a book: each can be settled, and each has a buy of its own.
LEMMA MatchedPlans ==
  ASSUME BookOK(orders, nextId)
  PROVE  /\ Matched \in Seq(PlanOf(orders))
         /\ \A k \in 1 .. Len(Matched) : PlanOK(Matched[k]) /\ Matched[k].buy \in orders
         /\ \A j, k \in 1 .. Len(Matched) : Matched[j].buy = Matched[k].buy => j = k
<1>1. /\ Matched \in Seq(PlanOf(orders))
      /\ \A j, k \in DOMAIN Matched :
           Matched[j].buy = Matched[k].buy \/ Matched[j].sell = Matched[k].sell => j = k
  BY PlansFacts DEF Matched, BookOK
<1>2. DOMAIN Matched = 1 .. Len(Matched)
  BY <1>1
<1>3. ASSUME NEW k \in 1 .. Len(Matched) PROVE PlanOK(Matched[k]) /\ Matched[k].buy \in orders
  <2>1. Matched[k] \in PlanOf(orders)
    BY <1>1, <1>2
  <2>2. QuoteOwed(Matched[k]) \in Nat
    BY <2>1, OwedType DEF BookOK
  <2> QED
    BY <2>1, <2>2 DEF PlanOK, PlanOf, BookOK
<1> QED
  BY <1>1, <1>2, <1>3

\* The stores a pass can go through.
Stores(plans) ==
  {m \in [holdings : SUBSET Lot, orders : SUBSET orders, id : Nat,
          trades : SUBSET (trades \cup {Trade(plans[k]) : k \in 1 .. Len(plans)})] :
     Stored(m.holdings, m.id)}

LEMMA StoresSettle ==
  ASSUME NEW plans, NEW k \in 1 .. Len(plans), PlanOK(plans[k]), NEW m \in Stores(plans)
  PROVE  StoreOK(m) /\ Settle(m, plans[k]) \in Stores(plans)
<1> DEFINE n == Settle(m, plans[k])
<1>1. StoreOK(m)
  BY DEF Stores, StoreOK
<1>2. Settles(m, n, plans[k])
  BY <1>1, SettlesThePlan
<1> HIDE DEF n
<1>3. n = [holdings |-> n.holdings, orders |-> n.orders, id |-> n.id, trades |-> n.trades]
      /\ n.id \in Nat /\ Stored(n.holdings, n.id) /\ n.holdings \subseteq Lot
  BY <1>2 DEF Settles, StoreOK, Stored
<1>4. /\ n.orders \subseteq orders
      /\ n.trades \subseteq trades \cup {Trade(plans[j]) : j \in 1 .. Len(plans)}
  BY <1>2 DEF Settles, Stores
<1> QED
  BY <1>1, <1>3, <1>4 DEF Stores, n

LEMMA PassesFollow ==
  ASSUME NEW plans, Len(plans) \in Nat, \A k \in 1 .. Len(plans) : PlanOK(plans[k]),
         NEW first \in Stores(plans)
  PROVE  \E f : Follows(f, plans, first)
<1> DEFINE N == Len(plans)
           V == Stores(plans)
           step == [n \in 1 .. N |-> [m \in V |-> Settle(m, plans[n])]]
<1>1. Stepping(step, N, V)
  BY StoresSettle DEF Stepping
<1> HIDE DEF V
<1>2. PICK f : Walks(f, step, N, V, first)
  <2> HIDE DEF step, N
  <2> QED
    BY <1>1, StepsExist DEF N, V
<1>3. ASSUME NEW n \in 1 .. N PROVE f[n] = Settle(f[n - 1], plans[n])
  <2>1. f[n - 1] \in V /\ f[n] = step[n][f[n - 1]]
    BY <1>2 DEF Walks
  <2> QED
    BY <2>1
<1>4. f = [n \in 0 .. N |-> IF n = 0 THEN first ELSE Settle(f[n - 1], plans[n])]
  <2>1. \A n \in 0 .. N : n # 0 => n \in 1 .. N
    OBVIOUS
  <2> HIDE DEF step
  <2> QED
    BY <1>2, <1>3, <2>1 DEF Walks
<1> QED
  BY <1>4 DEF Follows

\* Where a pass stands after n plans.
Along(m, plans, n) ==
  /\ StoreOK(m) /\ nextId <= m.id /\ m.orders \subseteq orders
  /\ \A i \in Instruments : Held(m.holdings, Parties, i) = minted[i]
  /\ TradesOK(m.trades) /\ Balanced(m.holdings, m.trades)
  /\ \A t \in m.trades : t \in trades \/ \E k \in 1 .. n : t.buy = plans[k].buy
  /\ \A k \in 1 .. n : plans[k].buy \notin m.orders

\* A plan's buy is one no recorded trade is of yet.
LEMMA AlongNext ==
  ASSUME StoreInv, NEW n \in Nat, n < Len(Matched), NEW m, Along(m, Matched, n)
  PROVE  Along(Settle(m, Matched[n + 1]), Matched, n + 1)
<1> DEFINE plan == Matched[n + 1]
           t == Trade(plan)
           r == Settle(m, plan)
<1>1. /\ Len(Matched) \in Nat
      /\ \A k \in 1 .. Len(Matched) : PlanOK(Matched[k]) /\ Matched[k].buy \in orders
      /\ \A j, k \in 1 .. Len(Matched) : Matched[j].buy = Matched[k].buy => j = k
  BY MatchedPlans DEF StoreInv
<1>2. /\ n + 1 \in 1 .. Len(Matched)
      /\ \A k \in 1 .. n : k \in 1 .. Len(Matched) /\ k # n + 1
      /\ \A k \in 1 .. (n + 1) : k = n + 1 \/ k \in 1 .. n
      /\ \A k \in 1 .. n : k \in 1 .. (n + 1)
      /\ n + 1 \in 1 .. (n + 1)
  BY <1>1
<1>3. PlanOK(plan) /\ plan.buy \in orders
  BY <1>1, <1>2
<1>4. Settles(m, r, plan)
  BY <1>3, SettlesThePlan DEF Along
<1> HIDE DEF plan, r
<1>5. \A u \in m.trades : u.buy.id # plan.buy.id
  <2> SUFFICES ASSUME NEW u \in m.trades, u.buy.id = plan.buy.id PROVE FALSE
    OBVIOUS
  <2>1. CASE u \in trades
    BY <1>3, <2>1 DEF StoreInv, TradesLeft
  <2>2. CASE \E k \in 1 .. n : u.buy = Matched[k].buy
    <3>1. PICK k \in 1 .. n : u.buy = Matched[k].buy
      BY <2>2
    <3>2. k \in 1 .. Len(Matched) /\ k # n + 1 /\ Matched[k].buy \in orders
      BY <1>1, <1>2
    <3>3. Matched[k].buy = plan.buy
      BY <1>3, <3>1, <3>2 DEF StoreInv, BookOK, Numbered
    <3> QED
      BY <1>1, <1>2, <3>2, <3>3 DEF plan
  <2> QED
    BY <2>1, <2>2 DEF Along
<1>6. /\ t.buy = plan.buy /\ t.sell = plan.sell /\ t.paid = QuoteOwed(plan) /\ t.paid \in Nat
  BY <1>3 DEF Trade, PlanOK
<1> HIDE DEF t
<1>7. TradesOK(r.trades) /\ Balanced(r.holdings, r.trades)
  <2>1. CASE /\ r.trades = m.trades
             /\ \A Q : Held(r.holdings, Q, Market.quote) = Held(m.holdings, Q, Market.quote)
    BY <2>1 DEF Along, Balanced
  <2>2. CASE /\ r.trades = m.trades \cup {t}
             /\ \A Q : Held(r.holdings, Q, Market.quote)
                  = (Held(m.holdings, Q, Market.quote)
                       - Share(plan.buy.trader, Market.quote, QuoteOwed(plan), Q, Market.quote))
                      + Share(plan.sell.trader, Market.quote, QuoteOwed(plan), Q, Market.quote)
    <3>1. \A Q : Held(r.holdings, Q, Market.quote)
            = (Held(m.holdings, Q, Market.quote)
                 - Share(t.buy.trader, Market.quote, t.paid, Q, Market.quote))
                + Share(t.sell.trader, Market.quote, t.paid, Q, Market.quote)
      BY <1>6, <2>2
    <3>2. /\ FaucetOK /\ Stored(m.holdings, m.id)
          /\ TradesOK(m.trades) /\ Balanced(m.holdings, m.trades)
          /\ t.paid \in Nat /\ \A u \in m.trades : u.buy.id # t.buy.id
      BY <1>5, <1>6 DEF StoreInv, Along, StoreOK
    <3>3. TradesOK(m.trades \cup {t})
      BY <3>2, ReceiptsGrow
    <3>4. Balanced(r.holdings, m.trades \cup {t})
      BY <3>1, <3>2, TradeBalances
    <3> QED
      BY <2>2, <3>3, <3>4
  <2> QED
    BY <1>4, <2>1, <2>2 DEF Settles, t
<1>8. StoreOK(r) /\ nextId <= r.id /\ r.orders \subseteq orders
  <2>1. /\ nextId \in Nat /\ m.id \in Nat /\ r.id \in Nat
        /\ nextId <= m.id /\ m.id <= r.id /\ StoreOK(r)
    BY <1>4 DEF Along, StoreInv, Settles, StoreOK
  <2> QED
    BY <1>4, <2>1 DEF Along, Settles
<1>9. \A i \in Instruments : Held(r.holdings, Parties, i) = minted[i]
  BY <1>4 DEF Along, Settles
<1>10. ASSUME NEW u \in r.trades
       PROVE  u \in trades \/ \E k \in 1 .. (n + 1) : u.buy = Matched[k].buy
  <2>1. u \in m.trades \/ u = t
    BY <1>4 DEF Settles, t
  <2>2. CASE u \in m.trades
    BY <1>2, <2>2 DEF Along
  <2>3. CASE u = t
    BY <1>2, <1>6, <2>3 DEF plan
  <2> QED
    BY <2>1, <2>2, <2>3
<1>11. \A k \in 1 .. (n + 1) : Matched[k].buy \notin r.orders
  BY <1>2, <1>4 DEF Along, Settles, plan
<1> QED
  BY <1>7, <1>8, <1>9, <1>10, <1>11 DEF Along, r, plan

\* So a whole pass leaves the store as it should be.
LEMMA PassStands ==
  ASSUME StoreInv
  PROVE  Along(LastStore, Matched, Len(Matched))
<1> DEFINE N == Len(Matched)
           f == CHOOSE g : Follows(g, Matched, FirstStore)
           T == {n \in Nat : n <= N => Along(f[n], Matched, n)}
<1>1. N \in Nat /\ \A k \in 1 .. N : PlanOK(Matched[k])
  BY MatchedPlans DEF StoreInv
<1>2. FirstStore \in Stores(Matched)
  BY DEF StoreInv, FirstStore, Stores, Stored
<1>3. Follows(f, Matched, FirstStore)
  <2>1. \E g : Follows(g, Matched, FirstStore)
    BY <1>1, <1>2, PassesFollow
  <2> QED
    BY <2>1
<1>4. LastStore = f[N]
  BY DEF LastStore
<1> HIDE DEF f
<1>5. /\ f[0] = FirstStore
      /\ \A n \in Nat : n + 1 <= N => f[n + 1] = Settle(f[n], Matched[n + 1])
  BY <1>1, <1>3 DEF Follows
<1>6. 0 \in T
  <2>1. Along(FirstStore, Matched, 0)
    BY DEF Along, StoreInv, FirstStore, StoreOK
  <2> QED
    BY <1>5, <2>1
<1>7. ASSUME NEW n \in Nat, n \in T PROVE n + 1 \in T
  <2>1. n + 1 <= N => n < N /\ n <= N
    BY <1>1
  <2> QED
    BY <1>5, <1>7, <2>1, AlongNext
<1>8. Nat \subseteq T
  <2> HIDE DEF T
  <2> QED
    BY <1>6, <1>7, SetInduction
<1> QED
  BY <1>1, <1>4, <1>8

-----------------------------------------------------------------------------
\* The steps

LEMMA StoreInit == MockLedgerInit => StoreInv
<1> SUFFICES ASSUME MockLedgerInit PROVE StoreInv
  OBVIOUS
<1>1. /\ holdings = {} /\ allocs = {} /\ nextId = 1 /\ orders = {} /\ trades = {}
      /\ minted = [i \in Instruments |-> 0]
      /\ faucet = [p \in Parties |-> [i \in Instruments |-> 0]]
  BY MockLedgerAssumption
     DEF MockLedgerInit, Init, RegistryInit, GenesisHoldings
<1>2. \A Q, j : Held({}, Q, j) = 0
  <2>1. \A Q, j : HeldBy({}, Q, j) = {}
    BY DEF HeldBy
  <2> QED
    BY <2>1, ValueEmpty DEF Held
<1>3. \A p : Receipts(BoughtBy({}, p)) = {} /\ Receipts(SoldBy({}, p)) = {}
  BY DEF Receipts, BoughtBy, SoldBy
<1>4. IsFiniteSet({})
  BY FS_EmptySet
<1>5. Stored({}, 1) /\ TradesOK({}) /\ BookOK({}, 1) /\ TradesLeft({}, {}, 1)
  BY <1>4 DEF Stored, TradesOK, BookOK, TradesLeft, Quoted, Numbered
<1>6. FaucetOK /\ minted \in [Instruments -> Nat]
  BY <1>1 DEF FaucetOK
<1>7. Balanced({}, {})
  <2>1. Market.quote \in Instruments
    BY DarkPoolAssumption
  <2> QED
    BY <1>1, <1>2, <1>3, <2>1, ValueEmpty DEF Balanced
<1> QED
  BY <1>1, <1>2, <1>5, <1>6, <1>7 DEF StoreInv

\* What the faucet gives is held by the one it gave it to.
LEMMA FaucetStore ==
  ASSUME StoreInv, NEW p \in Parties, NEW i \in Instruments, NEW amount \in Nat,
         PostFaucet(p, i, amount)
  PROVE  StoreInv'
<1> DEFINE h == NewHolding(nextId, p, i, amount)
           K == holdings \cup {h}
<1>1. /\ holdings' = K /\ nextId' = nextId + 1
      /\ minted' = [minted EXCEPT ![i] = @ + amount]
      /\ faucet' = [faucet EXCEPT ![p][i] = @ + amount]
      /\ UNCHANGED <<allocs, now, pool, orders, chain, trades>>
  BY DEF PostFaucet, Mint, poolVars
<1>2. /\ h \in Lot /\ h.id = nextId /\ h.owner = p /\ h.instrument = i /\ h.amount = amount
      /\ nextId \in Nat /\ nextId + 1 \in Nat \ {0} /\ Stored(holdings, nextId)
  BY DEF NewHolding, Lot, StoreInv
<1> HIDE DEF h
<1>3. /\ Stored(K, nextId + 1)
      /\ \A Q, j : Held(K, Q, j) = Held(holdings, Q, j)
                                      + Share(h.owner, h.instrument, h.amount, Q, j)
  BY <1>2, PutHolding
<1>4. \A Q, j : Held(K, Q, j) = Held(holdings, Q, j) + Share(p, i, amount, Q, j)
  BY <1>2, <1>3
<1> HIDE DEF K
<1>5. FaucetOK' /\ minted' \in [Instruments -> Nat]
  BY <1>1 DEF StoreInv, FaucetOK
<1>6. BookOK(orders, nextId + 1) /\ TradesLeft(trades, orders, nextId + 1)
  <2>1. \A n \in Nat : n < nextId => n < nextId + 1
    BY <1>2
  <2> QED
    BY <2>1 DEF StoreInv, BookOK, Quoted, Ids, TradesLeft
<1>7. ASSUME NEW j \in Instruments PROVE Held(K, Parties, j) = minted'[j]
  <2>1. Held(K, Parties, j) = minted[j] + Share(p, i, amount, Parties, j)
    BY <1>4 DEF StoreInv
  <2>2. minted'[j] = minted[j] + Share(p, i, amount, Parties, j)
    BY <1>1 DEF StoreInv, Share
  <2> QED
    BY <2>1, <2>2
<1>8. (Balanced(holdings, trades))'
  <2> DEFINE c == Market.quote
  <2>1. SUFFICES ASSUME NEW q \in Parties
                 PROVE  Held(K, {q}, c) + Value(Receipts(BoughtBy(trades, q)))
                          = faucet'[q][c] + Value(Receipts(SoldBy(trades, q)))
    BY <1>1 DEF Balanced
  <2>2. /\ Held(holdings, {q}, c) + Value(Receipts(BoughtBy(trades, q)))
             = faucet[q][c] + Value(Receipts(SoldBy(trades, q)))
        /\ Held(holdings, {q}, c) \in Nat /\ faucet[q][c] \in Nat
    BY <1>2, HeldNat, DarkPoolAssumption DEF StoreInv, Balanced, FaucetOK
  <2>4. Value(Receipts(BoughtBy(trades, q))) \in Nat /\ Value(Receipts(SoldBy(trades, q))) \in Nat
    <3>1. BoughtBy(trades, q) \in SUBSET trades /\ SoldBy(trades, q) \in SUBSET trades
      BY DEF BoughtBy, SoldBy
    <3> QED
      BY <3>1, ReceiptsNat DEF StoreInv
  <2>5. Held(K, {q}, c) = Held(holdings, {q}, c) + Share(p, i, amount, {q}, c)
    BY <1>4
  <2>6. faucet'[q][c] = faucet[q][c] + Share(p, i, amount, {q}, c)
    BY <1>1, DarkPoolAssumption DEF StoreInv, FaucetOK, Share
  <2>7. Share(p, i, amount, {q}, c) \in Nat
    BY DEF Share
  <2> HIDE DEF c
  <2> QED
    BY <2>2, <2>4, <2>5, <2>6, <2>7
<1> QED
  BY <1>1, <1>2, <1>3, <1>5, <1>6, <1>7, <1>8 DEF StoreInv

\* A new order has the next number.
LEMMA OrderStore ==
  ASSUME StoreInv, NEW p \in Parties, NEW t \in OrderTerms, PostOrders(p, t)
  PROVE  StoreInv'
<1>1. PICK declared : orders' = orders \cup {NewOrder(p, Market, t, declared, TRUE)}
                      /\ nextId' = nextId + 1
  BY DEF PostOrders, MockPlaceOrder
<1>2. nextId \in Ids /\ UNCHANGED <<holdings, allocs, minted, now, pool, chain, trades, faucet>>
  BY DEF PostOrders, StoreInv, Ids
<1> DEFINE o == NewOrder(p, Market, t, declared, TRUE)
<1>3. /\ o.id = nextId /\ o.trader = p
      /\ o.quantity \in PosNat /\ o.limitPrice \in PosNat
  <2>1. t.quantity \in PosNat /\ t.limitPrice \in PosNat
    BY DarkPoolAssumption DEF Terms
  <2> QED
    BY <2>1 DEF NewOrder
<1> HIDE DEF o
<1>4. /\ nextId \in Nat /\ nextId + 1 \in Nat \ {0}
      /\ nextId < nextId + 1 /\ \A n \in Nat : n < nextId => n < nextId + 1
  BY DEF StoreInv
<1>5. \A x \in orders : x.id \in Nat /\ x.id < nextId
  BY DEF StoreInv, BookOK, Quoted, Ids
<1>6. BookOK(orders \cup {o}, nextId + 1)
  BY <1>2, <1>3, <1>4, <1>5 DEF StoreInv, BookOK, Quoted, Numbered
<1>7. TradesLeft(trades, orders \cup {o}, nextId + 1)
  BY <1>3, <1>4 DEF StoreInv, TradesLeft
<1>8. Stored(holdings, nextId + 1)
  BY <1>4 DEF StoreInv, Stored, Lot
<1>9. orders' = orders \cup {o}
  BY <1>1 DEF o
<1> QED
  BY <1>1, <1>2, <1>4, <1>6, <1>7, <1>8, <1>9 DEF StoreInv, Balanced, FaucetOK

\* Orders that go leave the rest as it is.
LEMMA FewerOrders ==
  ASSUME NEW O, NEW id, BookOK(O, id), NEW P \in SUBSET O
  PROVE  BookOK(P, id) /\ \A T : TradesLeft(T, O, id) => TradesLeft(T, P, id)
BY DEF BookOK, Quoted, Numbered, TradesLeft

LEMMA PassStore ==
  ASSUME StoreInv, MockPass
  PROVE  StoreInv'
<1> DEFINE m == LastStore
<1>1. Along(m, Matched, Len(Matched))
  BY PassStands
<1>2. /\ holdings' = m.holdings /\ nextId' = m.id /\ trades' = m.trades
      /\ orders' \subseteq m.orders
      /\ UNCHANGED <<allocs, minted, faucet>>
  BY PassIsLast
<1>3. /\ \A k \in 1 .. Len(Matched) : Matched[k].buy \in orders
  BY MatchedPlans DEF StoreInv
<1> HIDE DEF m
<1>4. m.id \in Nat \ {0} /\ nextId \in Nat /\ nextId <= m.id /\ Stored(m.holdings, m.id)
  BY <1>1 DEF Along, StoreOK, StoreInv
<1>5. BookOK(orders', m.id)
  <2>1. \A o \in orders : o.id < m.id
    BY <1>4 DEF StoreInv, BookOK, Quoted, Ids
  <2> QED
    BY <1>1, <1>2, <2>1 DEF Along, StoreInv, BookOK, Quoted, Numbered
<1>6. TradesLeft(m.trades, orders', m.id)
  <2> SUFFICES ASSUME NEW t \in m.trades
               PROVE  t.buy.id \in Nat /\ t.buy.id < m.id /\ \A o \in orders' : o.id # t.buy.id
    BY DEF TradesLeft
  <2>1. CASE t \in trades
    <3>1. t.buy.id \in Nat /\ t.buy.id < nextId /\ \A o \in orders : o.id # t.buy.id
      BY <2>1 DEF StoreInv, TradesLeft
    <3> QED
      BY <1>1, <1>2, <1>4, <3>1 DEF Along
  <2>2. CASE \E k \in 1 .. Len(Matched) : t.buy = Matched[k].buy
    <3>1. t.buy \in orders /\ t.buy \notin m.orders
      BY <1>1, <1>3, <2>2 DEF Along
    <3>2. t.buy.id \in Nat /\ t.buy.id < nextId
      BY <3>1 DEF StoreInv, BookOK, Quoted, Ids
    <3>3. \A o \in orders' : o.id # t.buy.id
      BY <1>1, <1>2, <3>1 DEF Along, StoreInv, BookOK, Numbered
    <3> QED
      BY <1>4, <3>2, <3>3
  <2> QED
    BY <1>1, <2>1, <2>2 DEF Along
<1> QED
  BY <1>1, <1>2, <1>4, <1>5, <1>6 DEF StoreInv, Along, Balanced, FaucetOK

LEMMA StoreStep == StoreInv /\ [MockLedgerNext]_mockLedgerVars => StoreInv'
<1> SUFFICES ASSUME StoreInv, [MockLedgerNext]_mockLedgerVars PROVE StoreInv'
  OBVIOUS
<1>1. ASSUME NEW p \in Parties, NEW i \in Instruments, NEW n \in Amounts, PostFaucet(p, i, n)
      PROVE  StoreInv'
  <2>1. n \in Nat
    BY RegistryAssumption
  <2> QED
    BY <1>1, <2>1, FaucetStore
<1>2. ASSUME NEW p \in Parties, NEW t \in OrderTerms, PostOrders(p, t) PROVE StoreInv'
  BY <1>2, OrderStore
<1>3. ASSUME NEW o \in orders, DeleteOrder(o) PROVE StoreInv'
  <2>1. /\ orders' = orders \ {o}
        /\ UNCHANGED <<holdings, allocs, nextId, minted, trades, faucet>>
    BY <1>3 DEF DeleteOrder, ArchiveOrder
  <2>2. BookOK(orders', nextId) /\ TradesLeft(trades, orders', nextId)
    BY <2>1, FewerOrders DEF StoreInv
  <2> QED
    BY <2>1, <2>2 DEF StoreInv, Balanced, FaucetOK
<1>4. CASE MockPass
  BY <1>4, PassStore
<1>5. CASE \/ Tick /\ UNCHANGED <<poolVars, trades, faucet>>
           \/ UNCHANGED mockLedgerVars
  <2>1. UNCHANGED <<holdings, allocs, nextId, minted, orders, trades, faucet>>
    BY <1>5 DEF Tick, poolVars, mockLedgerVars, vars
  <2> QED
    BY <2>1 DEF StoreInv, Balanced, FaucetOK
<1> QED
  BY <1>1, <1>2, <1>3, <1>4, <1>5 DEF MockLedgerNext

-----------------------------------------------------------------------------
\* The theorems of the service as it is wired

LEMMA PaidIsBalanced == StoreInv => PaidAsRecorded
<1> SUFFICES ASSUME StoreInv, NEW p \in Parties
             PROVE  Wealth(p, Market.quote) + Value(Receipts(BoughtBy(trades, p)))
                      = faucet[p][Market.quote] + Value(Receipts(SoldBy(trades, p)))
  BY DEF PaidAsRecorded, Receipts, Receipt, BoughtBy, SoldBy
<1>1. Wealth(p, Market.quote) = Held(holdings, {p}, Market.quote)
  <2>1. /\ {h \in holdings : h.owner = p /\ h.instrument = Market.quote}
             = HeldBy(holdings, {p}, Market.quote)
        /\ {a \in allocs : a.sender = p /\ a.instrument = Market.quote} = {}
    BY DEF HeldBy, StoreInv
  <2>2. Held(holdings, {p}, Market.quote) \in Nat
    BY HeldNat DEF StoreInv
  <2>3. Wealth(p, Market.quote)
          = Value(HeldBy(holdings, {p}, Market.quote)) + Value({})
    BY <2>1, Zenon DEF Wealth
  <2> QED
    BY <2>2, <2>3, ValueEmpty DEF Held
<1> QED
  BY <1>1 DEF StoreInv, Balanced

LEMMA HeldIsMinted == StoreInv => Conservation
<1> SUFFICES ASSUME StoreInv, NEW i \in Instruments
             PROVE  Value({h \in GenesisHoldings : h.instrument = i}) + minted[i]
                      = Value({h \in holdings : h.instrument = i})
                          + Value({a \in allocs : a.instrument = i})
  BY DEF Conservation
<1> SUFFICES Value({}) + minted[i] = Value(HeldBy(holdings, Parties, i)) + Value({})
  <2>1. /\ {h \in GenesisHoldings : h.instrument = i} = {}
        /\ {a \in allocs : a.instrument = i} = {}
        /\ {h \in holdings : h.instrument = i} = HeldBy(holdings, Parties, i)
    BY MockLedgerAssumption DEF GenesisHoldings, StoreInv, Stored, Lot, HeldBy
  <2> QED
    BY <2>1, Zenon
<1>1. minted[i] \in Nat /\ Held(holdings, Parties, i) = minted[i]
  BY DEF StoreInv
<1> QED
  BY <1>1, ValueEmpty DEF Held

\* The inductive invariant of the service on whichever ledger it was started.
THEOREM WiringInvariance == WiringSpec => [](StoreInv /\ TokenInv)
<1>1. WiringInit => StoreInv /\ TokenInv
  BY StoreInit, TokenInitInv DEF WiringInit
<1>2. StoreInv /\ TokenInv /\ [WiringNext]_wiringVars => (StoreInv /\ TokenInv)'
  <2> SUFFICES ASSUME StoreInv, TokenInv, [WiringNext]_wiringVars
               PROVE  StoreInv' /\ TokenInv'
    OBVIOUS
  <2>1. [MockLedgerNext]_mockLedgerVars /\ [TokenNext]_tokenVars
    BY DEF WiringNext, wiringVars
  <2> QED
    BY <2>1, StoreStep, TokenStepInv
<1> QED
  BY <1>1, <1>2, PTL DEF WiringSpec

\* mockLedger.ts undoes nothing when a command throws half-way through a
\* settlement, and still nobody pays or is paid the quote but in a trade that is
\* recorded: the orders go first, the quote moves last.
THEOREM MemoryPaysAsRecorded == WiringSpec => []PaidAsRecorded
BY PaidIsBalanced, WiringInvariance, PTL

\* Its transfer() spends all the sender holds and gives the change back: what is
\* held is what the faucet gave, also of an instrument a settlement moved before
\* it threw.
THEOREM MemoryConserves == WiringSpec => []Conservation
BY HeldIsMinted, WiringInvariance, PTL

\* The tokens of a service that fetches them are valid where they are used.
THEOREM WiredTokensAreValid == WiringSpec => []CachedIsValid
<1>1. TokenInv => CachedIsValid
  BY TokenAssumption DEF TokenInv, CachedIsValid
<1> QED
  BY <1>1, WiringInvariance, PTL

=============================================================================
