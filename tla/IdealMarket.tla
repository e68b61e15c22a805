----------------------------- MODULE IdealMarket -----------------------------
(***************************************************************************)
(* What the dark pool promises, without contracts, holdings, escrow or     *)
(* change: parties have balances and standing intents, and value moves     *)
(* between them only because its owner paid it, or because two crossing    *)
(* intents were settled, delivery against payment, in one step.            *)
(***************************************************************************)
EXTENDS Integers

CONSTANTS Scale, Parties, Instruments, Markets

VARIABLES
  balance,    \* balance[p][i]: what p owns of instrument i
  intents     \* the standing intents

vars == <<balance, intents>>

\* Of the state's components only `quantity' ever changes while it stands.
Intent == [id : Nat, trader : Parties, market : Markets,
           side : {"Buy", "Sell"}, limit : Nat, quantity : Nat \ {0}]

Plus(bal, p, i, n) == [bal EXCEPT ![p][i] = @ + n]

\* The balances after p paid q n of instrument i.
Moved(bal, p, q, i, n) == Plus(Plus(bal, p, i, -n), q, i, n)

Gain(p, i) == balance'[p][i] - balance[p][i]

\* The intent after `qty' of it was used: it stands for the rest, or is gone.
Tails(x, qty) ==
  {{}} \cup (IF qty < x.quantity
             THEN {{[x EXCEPT !.quantity = @ - qty]}} ELSE {})

Issue(p, i) ==
  /\ Gain(p, i) > 0
  /\ balance' = Plus(balance, p, i, Gain(p, i))

Pay(p, q, i) ==
  /\ Gain(q, i) \in 1 .. balance[p][i]
  /\ balance' = Moved(balance, p, q, i, Gain(q, i))

\* Two parties pay each other in one step, whatever their intents: the venue had
\* used up parts of them before.
Swap(p, q, i, j) ==
  /\ Gain(q, i) \in 1 .. balance[p][i]
  /\ Gain(p, j) \in 1 .. balance[q][j]
  /\ balance' = Moved(Moved(balance, p, q, i, Gain(q, i)), q, p, j, Gain(p, j))

Announce ==
  /\ \E x \in intents' : /\ x \notin intents
                         /\ \A y \in intents : y.id # x.id
                         /\ intents' = intents \cup {x}
  /\ UNCHANGED balance

\* Part of an intent is given up, or the whole of it; nothing changes hands.
Retire(x) ==
  /\ \E tail \in UNION {Tails(x, qty) : qty \in 1 .. x.quantity} :
       intents' = (intents \ {x}) \cup tail
  /\ UNCHANGED balance

\* Both legs or neither, within both limits: the buyer pays at most its limit,
\* and the seller gets at least its own but for the floor to a tick.
Settle(b, s) ==
  LET asset == b.market.base
      money == b.market.quote
      qty == Gain(b.trader, asset)
      paid == Gain(s.trader, money)
  IN  /\ b.side = "Buy" /\ s.side = "Sell" /\ b.market = s.market
      /\ b.trader # s.trader
      /\ qty \in 1 .. balance[s.trader][asset]
      /\ paid \in 1 .. balance[b.trader][money]
      /\ qty <= b.quantity /\ qty <= s.quantity
      /\ paid * Scale <= qty * b.limit
      /\ qty * s.limit < (paid + 1) * Scale
      /\ balance' = Moved(Moved(balance, b.trader, s.trader, money, paid),
                          s.trader, b.trader, asset, qty)
      /\ \E bTail \in Tails(b, qty), sTail \in Tails(s, qty) :
           intents' = (intents \ {b, s}) \cup bTail \cup sTail

Init ==
  /\ balance \in [Parties -> [Instruments -> Nat]]
  /\ intents = {}

Next ==
  \/ /\ UNCHANGED intents /\ balance' # balance
     /\ \E q \in Parties, i \in Instruments :
          \/ Issue(q, i)
          \/ \E p \in Parties : \/ Pay(p, q, i)
                                \/ \E j \in Instruments : Swap(p, q, i, j)
  \/ Announce
  \/ \E x \in intents : Retire(x)
  \/ intents' # intents /\ \E b, s \in intents : Settle(b, s)

Spec == Init /\ [][Next]_vars

=============================================================================
