---------------------------- MODULE RegistryToken ----------------------------
(***************************************************************************)
(* The registry-token package (contracts/daml/registry-token): the admin's *)
(* Registry mints, transfers and allocates holdings; a RegistryAllocation  *)
(* escrows one leg until it is executed, cancelled or withdrawn.           *)
(*                                                                         *)
(* A contract is an immutable record, so a contract id is represented by   *)
(* the contract itself; `id' tells apart two contracts of equal payload.   *)
(* `holdings' and `allocs' are the ACTIVE contracts: archiving a contract  *)
(* removes it, for good.  A Daml choice is one transaction: it happens     *)
(* whole, or (an assertion fails, an archived contract is used) not at all.*)
(***************************************************************************)
EXTENDS DarkPoolMath, Sequences, Functions, FiniteSetsExt

CONSTANTS
  Parties,       \* the parties that own holdings (the traders)
  Instruments,   \* the instruments the admin issues
  Genesis,       \* what the bootstrap script minted, in order
  Amounts,       \* the amounts a party asks to mint, transfer or allocate
  MaxInputs,     \* bound: holdings passed to one choice
  MaxId,         \* bound: contract ids
  MaxTime        \* bound: ledger time

VARIABLES
  holdings,      \* active RegistryHolding contracts
  allocs,        \* active RegistryAllocation contracts
  nextId,        \* the next unused contract id
  minted,        \* history: what the faucet issued since the bootstrap
  now            \* ledger effective time

registryVars == <<holdings, allocs, nextId, minted, now>>

Ids == 1 .. MaxId

Holding == [id : Ids, owner : Parties, instrument : Instruments,
            amount : Nat \ {0}]

\* `leg' is the transferLegId, which the registry only stores.
Legs == {"base", "quote"}

Allocation == [id : Ids, sender : Parties, receiver : Parties,
               instrument : Instruments, amount : Nat \ {0},
               leg : Legs, settleBefore : Nat]

ASSUME RegistryAssumption ==
  /\ Genesis \in Seq([owner : Parties, instrument : Instruments,
                      amount : Nat \ {0}])
  /\ Len(Genesis) <= MaxId
  /\ Amounts \subseteq Nat \ {0}
  /\ MaxInputs \in Nat /\ MaxId \in Nat /\ MaxTime \in Nat

-----------------------------------------------------------------------------

\* The amounts of a list of holdings, added up as the code adds them: a holding
\* listed twice counts twice.
Total(list) ==
  LET sum[i \in 0 .. Len(list)] ==
        IF i = 0 THEN 0 ELSE sum[i - 1] + list[i].amount
  IN  sum[Len(list)]

\* The value of a set of contracts.
Value(contracts) == MapThenSumSet(LAMBDA c : c.amount, contracts)

\* Lists of at most MaxInputs contracts, repetitions included.
InputLists(contracts) == UNION {[1 .. n -> contracts] : n \in 0 .. MaxInputs}

NewHolding(id, owner, instrument, amount) ==
  [id |-> id, owner |-> owner, instrument |-> instrument, amount |-> amount]

\* Mutants: an input may repeat; the inputs may be anyone's.
CanSpendRepeats(inputs, instrument, sender, amount) ==
  /\ \A i \in DOMAIN inputs : /\ inputs[i] \in holdings
                              /\ inputs[i].instrument = instrument
                              /\ inputs[i].owner = sender
  /\ Total(inputs) >= amount

CanSpendAnyones(inputs, instrument, sender, amount) ==
  /\ \A i \in DOMAIN inputs : /\ inputs[i] \in holdings
                              /\ inputs[i].instrument = instrument
  /\ IsInjective(inputs)
  /\ Total(inputs) >= amount

\* spendHoldings succeeds: every input is active, of this instrument and the
\* sender's; archiving an input a second time fails, so no input is repeated;
\* the inputs cover the amount.
CanSpend(inputs, instrument, sender, amount) ==
  /\ \A i \in DOMAIN inputs : /\ inputs[i] \in holdings
                              /\ inputs[i].instrument = instrument
                              /\ inputs[i].owner = sender
  /\ IsInjective(inputs)
  /\ Total(inputs) >= amount

\* The single change holding, or none when the inputs exactly fund the amount.
Change(inputs, instrument, sender, amount, id) ==
  IF Total(inputs) > amount
  THEN <<NewHolding(id, sender, instrument, Total(inputs) - amount)>>
  ELSE << >>

\* The factory accepts an allocation of `amount' funded by `inputs'.
CanAllocate(inputs, instrument, sender, amount, settleBefore) ==
  /\ amount > 0
  /\ now < settleBefore
  /\ inputs # << >>
  /\ CanSpend(inputs, instrument, sender, amount)

-----------------------------------------------------------------------------

Mint(owner, instrument, amount) ==
  /\ nextId <= MaxId
  /\ holdings' = holdings \cup {NewHolding(nextId, owner, instrument, amount)}
  /\ minted' = [minted EXCEPT ![instrument] = @ + amount]
  /\ nextId' = nextId + 1
  /\ UNCHANGED <<allocs, now>>

\* TransferFactory: spend the inputs, give the receiver a holding of the amount.
\* The requestedAt/executeBefore window is the submitter's and always current.
Transfer(sender, inputs, instrument, receiver, amount) ==
  /\ nextId < MaxId
  /\ inputs # << >>
  /\ CanSpend(inputs, instrument, sender, amount)
  /\ holdings' = (holdings \ Range(inputs))
                   \cup Range(Change(inputs, instrument, sender, amount, nextId))
                   \cup {NewHolding(nextId + 1, receiver, instrument, amount)}
  /\ nextId' = nextId + 2
  /\ UNCHANGED <<allocs, minted, now>>

\* AllocationFactory, called by the sender for a leg of some settlement.
Allocate(sender, inputs, instrument, receiver, amount, leg, settleBefore) ==
  /\ nextId <= MaxId
  /\ CanAllocate(inputs, instrument, sender, amount, settleBefore)
  /\ holdings' = (holdings \ Range(inputs))
                   \cup Range(Change(inputs, instrument, sender, amount, nextId))
  /\ allocs' = allocs \cup
       {[id |-> nextId, sender |-> sender, receiver |-> receiver,
         instrument |-> instrument, amount |-> amount, leg |-> leg,
         settleBefore |-> settleBefore]}
  /\ nextId' = nextId + 1
  /\ UNCHANGED <<minted, now>>

\* Allocation_ExecuteTransfer: the receiver gets a holding of the amount.
ExecuteTransfer(a) ==
  /\ nextId <= MaxId
  /\ now < a.settleBefore
  /\ allocs' = allocs \ {a}
  /\ holdings' = holdings \cup
                   {NewHolding(nextId, a.receiver, a.instrument, a.amount)}
  /\ nextId' = nextId + 1
  /\ UNCHANGED <<minted, now>>

\* Allocation_Cancel and Allocation_Withdraw, which recover identically, at any
\* time: the escrowed value goes back to the sender as a fresh holding.
Recover(a) ==
  /\ nextId <= MaxId
  /\ allocs' = allocs \ {a}
  /\ holdings' = holdings \cup
                   {NewHolding(nextId, a.sender, a.instrument, a.amount)}
  /\ nextId' = nextId + 1
  /\ UNCHANGED <<minted, now>>

Tick ==
  /\ now < MaxTime
  /\ now' = now + 1
  /\ UNCHANGED <<holdings, allocs, nextId, minted>>

GenesisHoldings ==
  {NewHolding(k, Genesis[k].owner, Genesis[k].instrument, Genesis[k].amount) :
     k \in 1 .. Len(Genesis)}

RegistryInit ==
  /\ holdings = GenesisHoldings
  /\ allocs = {}
  /\ nextId = Len(Genesis) + 1
  /\ minted = [i \in Instruments |-> 0]
  /\ now = 0

\* What the parties can do with their holdings and allocations on their own.
HoldingStep ==
  \/ \E p \in Parties, i \in Instruments, amt \in Amounts : Mint(p, i, amt)
  \/ \E p, q \in Parties, i \in Instruments, amt \in Amounts :
       \E inputs \in InputLists({h \in holdings : h.owner = p}) :
         Transfer(p, inputs, i, q, amt)
  \/ \E a \in allocs : Recover(a)

RegistryNext ==
  \/ HoldingStep
  \/ \E p, q \in Parties, i \in Instruments, amt \in Amounts :
       \E inputs \in InputLists(holdings), d \in 1 .. MaxTime :
         Allocate(p, inputs, i, q, amt, "base", d)
  \/ \E a \in allocs : ExecuteTransfer(a)
  \/ Tick

RegistrySpec == RegistryInit /\ [][RegistryNext]_registryVars

-----------------------------------------------------------------------------

RegistryTypeOK ==
  /\ holdings \subseteq Holding
  /\ allocs \subseteq Allocation
  /\ nextId \in Nat \ {0}
  /\ minted \in [Instruments -> Nat]
  /\ now \in 0 .. MaxTime

\* Archiving the inputs and minting the change and the counterpart neither
\* creates nor destroys value: what is held plus what is escrowed is exactly
\* what was issued, instrument by instrument, whatever was transferred,
\* allocated, executed, cancelled or withdrawn, and in whatever order.
Conservation ==
  \A i \in Instruments :
    Value({h \in GenesisHoldings : h.instrument = i}) + minted[i]
      = Value({h \in holdings : h.instrument = i})
          + Value({a \in allocs : a.instrument = i})

Wealth(p, i) ==
  Value({h \in holdings : h.owner = p /\ h.instrument = i})
    + Value({a \in allocs : a.sender = p /\ a.instrument = i})

\* What a party holds or has in escrow changes hands whole: when it drops,
\* exactly one other party gains exactly that much of that instrument in the
\* same step, and if an allocation comes or goes in that step then it is one
\* from the party to that other, of that much, before its deadline: allocating,
\* cancelling and withdrawing never move value, and nor does a late execution.
LeavesWhole ==
  [][\A p \in Parties, i \in Instruments :
       Wealth(p, i)' < Wealth(p, i) =>
         \E q \in Parties \ {p} :
           /\ Wealth(q, i)' - Wealth(q, i) = Wealth(p, i) - Wealth(p, i)'
           /\ \A r \in Parties \ {p, q} : Wealth(r, i)' = Wealth(r, i)
           /\ allocs' # allocs =>
                \E a \in allocs \ allocs' :
                  /\ a.sender = p /\ a.receiver = q /\ a.instrument = i
                  /\ a.amount = Wealth(p, i) - Wealth(p, i)'
                  /\ now < a.settleBefore
    ]_registryVars

=============================================================================
