--------------------------- MODULE FrontendProofs ---------------------------
(***************************************************************************)
(* The browser: the page on the live service, the browser's own market and *)
(* the wallet connection.                                                  *)
(***************************************************************************)
EXTENDS ConnectKit, DarkPoolClients, DarkPoolMathProofs

-----------------------------------------------------------------------------
\* The page on the live service

Versions == 0 .. MaxVersion
Snapshots == [version : Versions, orders : SUBSET (1 .. MaxVersion)]
Flights == {NoRequest} \cup [feed : Feeds, read : Snapshots]

Forms == [pc : {"idle", "config", "end", "execute", "venue", "trade"},
          order : Versions, holdings : Versions]
Rows == [pc : {"idle", "execute", "executed", "refresh", "done"},
         order : Versions, holdings : Versions]
Toasts == [says : {"nothing", "placed", "cancelled", "failed"},
           order : Versions, shown : Versions]

PageTypes ==
  /\ ledger \in [version : 1 .. MaxVersion, orders : SUBSET (1 .. MaxVersion),
                 purse : 1 .. MaxVersion, pool : BOOLEAN]
  /\ seen \in [Feeds -> Snapshots]
  /\ flight \in [Requests -> Flights]
  /\ polling \subseteq Feeds /\ mounted \in BOOLEAN
  /\ form \in Forms /\ row \in Rows /\ told \in Toasts

\* The commands on their way: that of the form f, and that of the row r.
Pending(f) == IF f.pc \in {"config", "end", "execute"} /\ f.order = 0 THEN 1 ELSE 0
Leaving(r) == IF r.pc = "execute" THEN 1 ELSE 0
Due == Pending(form) + Leaving(row)

\* What is known anywhere of the ledger is of a version it has had, and the
\* commands on their way fit below the bound.
PageBounds ==
  /\ ledger.version + Due <= MaxVersion
  /\ ledger.orders \subseteq 1 .. ledger.version
  /\ \A f \in Feeds : seen[f].orders \subseteq 1 .. ledger.version
  /\ \A r \in Requests : flight[r].read.orders \subseteq 1 .. ledger.version
  /\ form.order <= ledger.version /\ row.order <= ledger.version
  /\ told.order <= ledger.version

\* The form waits for the request it made, which was made after its order was
\* placed.
FormWaits ==
  /\ form.pc = "venue" <=> flight["formVenue"] # NoRequest
  /\ form.pc = "trade" <=> flight["formTrade"] # NoRequest
  /\ form.pc \in {"venue", "trade"} => form.order # 0
  /\ flight["formTrade"].read # Unread =>
       /\ flight["formTrade"].feed = "trade"
       /\ form.order <= flight["formTrade"].read.version
  /\ flight["formTrade"] # NoRequest => flight["formTrade"].feed = "trade"

RowWaits ==
  /\ row.pc = "refresh" => \E r \in RowRequests : flight[r] # NoRequest
  /\ row.pc \in {"executed", "refresh", "done"} => row.order \notin ledger.orders

ToldTruly ==
  /\ told.says = "placed" => told.order # 0 /\ told.shown >= told.order
  /\ told.says = "cancelled" => told.order \notin ledger.orders

PageInv == PageTypes /\ PageBounds /\ FormWaits /\ RowWaits /\ ToldTruly

LEMMA RequestFacts ==
  /\ Polls \subseteq Requests /\ FormRequests \subseteq Requests /\ RowRequests \subseteq Requests
  /\ \A q \in Polls : q \notin FormRequests /\ q \notin RowRequests
  /\ \A q \in FormRequests : q \notin RowRequests
  /\ MaxVersion \in Nat \ {0}
  BY ClientAssumption DEF Requests, FormRequests, RowRequests

LEMMA FlightFacts ==
  ASSUME PageTypes, NEW r \in Requests
  PROVE  /\ flight[r] \in Flights
         /\ flight[r].read \in Snapshots
         /\ flight[r].read # Unread => flight[r] # NoRequest /\ flight[r].feed \in Feeds
         /\ flight[r] # NoRequest => flight[r].feed \in Feeds
<1>1. flight[r] \in Flights
  BY DEF PageTypes
<1>2. Unread \in Snapshots
  BY RequestFacts DEF Unread, Snapshots, Versions
<1> QED
  BY <1>1, <1>2 DEF Flights, NoRequest

LEMMA PageInit == ClientInit \/ NoClient => PageInv
<1>1. SUFFICES ASSUME ClientInit \/ NoClient PROVE PageInv
  OBVIOUS
<1>2. /\ Blank
      /\ \A r \in Requests : flight[r] \in {NoRequest, Asked("venue")}
      /\ \A r \in FormRequests \cup RowRequests : flight[r] = NoRequest
      /\ flight \in [Requests -> {NoRequest, Asked("venue")}]
      /\ polling \subseteq Feeds /\ mounted \in BOOLEAN
  BY <1>1, RequestFacts DEF ClientInit, NoClient, Polls, Feeds
<1>3. PageTypes
  BY <1>2, RequestFacts DEF PageTypes, Blank, Flights, Snapshots, Versions, Unread, NoRequest, Asked,
     AtRest, Silence, Feeds, Forms, Rows, Toasts
<1>4. PageBounds
  BY <1>2, RequestFacts DEF PageBounds, Due, Pending, Leaving, Blank, Unread, NoRequest, Asked, AtRest, Silence, Feeds
<1>5. FormWaits /\ RowWaits /\ ToldTruly
  BY <1>2, RequestFacts DEF FormWaits, RowWaits, ToldTruly, Blank, AtRest, Silence, FormRequests,
     RowRequests, NoRequest
<1> QED BY <1>3, <1>4, <1>5 DEF PageInv

\* A step that changes nothing but a poll and what the page shows.
LEMMA PollPreserves ==
  ASSUME PageInv, NEW q \in Polls, NEW x \in Flights,
         x.read.orders \subseteq 1 .. ledger.version,
         flight' = [flight EXCEPT ![q] = x], polling' \subseteq Feeds, mounted' \in BOOLEAN,
         seen' \in [Feeds -> Snapshots],
         \A f \in Feeds : seen'[f].orders \subseteq 1 .. ledger.version,
         UNCHANGED <<ledger, form, row, told>>
  PROVE  PageInv'
<1>1. \A r \in Requests : flight'[r] = IF r = q THEN x ELSE flight[r]
  BY RequestFacts DEF PageInv, PageTypes
<1>2. \A r \in FormRequests \cup RowRequests : flight'[r] = flight[r]
  BY <1>1, RequestFacts
<1>3. PageTypes'
  BY DEF PageInv, PageTypes
<1>4. PageBounds'
  BY <1>1 DEF PageInv, PageBounds, Due
<1>5. FormWaits' /\ RowWaits' /\ ToldTruly'
  BY <1>2 DEF PageInv, FormWaits, RowWaits, ToldTruly, FormRequests, RowRequests
<1> QED BY <1>3, <1>4, <1>5 DEF PageInv

\* The polls, whose answers may land at any time: they show what was true.
LEMMA PollsPreserve ==
  ASSUME PageInv, NEW q \in Polls,
         TimerFires(q) \/ PollStep(q) \/ (q \in TradePolls /\ EnsureParty(q))
  PROVE  PageInv'
<1>1. /\ PageTypes /\ seen \in [Feeds -> Snapshots] /\ polling \subseteq Feeds /\ mounted \in BOOLEAN
      /\ \A f \in Feeds : seen[f].orders \subseteq 1 .. ledger.version
      /\ flight[q].read.orders \subseteq 1 .. ledger.version /\ q \in Requests
      /\ flight[q].read \in Snapshots
  BY RequestFacts, FlightFacts DEF PageInv, PageTypes, PageBounds
<1>2. /\ \A f \in Feeds : Asked(f) \in Flights
      /\ \A f \in Feeds : Asked(f).read.orders \subseteq 1 .. ledger.version
      /\ NoRequest \in Flights /\ NoRequest.read.orders \subseteq 1 .. ledger.version
  BY RequestFacts DEF Asked, Unread, NoRequest, Flights, Snapshots, Versions
<1>3. CASE TimerFires(q)
  <2>1. PICK feed \in polling : Ask(q, feed)
    BY <1>3 DEF TimerFires
  <2>2. feed \in Feeds
    BY <1>1
  <2> QED BY <1>1, <1>2, <1>3, <2>1, <2>2, PollPreserves DEF TimerFires, Ask
<1>4. CASE EnsureParty(q)
  <2>1. "trade" \in Feeds
    BY DEF Feeds
  <2>2. polling' \subseteq Feeds
    BY <1>1, <1>4, <2>1 DEF EnsureParty
  <2> QED BY <1>1, <1>2, <1>4, <2>1, <2>2, PollPreserves DEF EnsureParty, Ask
<1>5. CASE PollLands(q)
  <2>1. flight[q].feed \in Feeds
    BY <1>1, <1>5, FlightFacts DEF PollLands, Shows
  <2>2. seen' \in [Feeds -> Snapshots] /\ \A f \in Feeds : seen'[f].orders \subseteq 1 .. ledger.version
    BY <1>1, <1>5, <2>1 DEF PollLands, Shows
  <2> QED BY <1>1, <1>2, <1>5, <2>2, PollPreserves DEF PollLands
<1>6. CASE PollFails(q)
  BY <1>1, <1>2, <1>6, PollPreserves DEF PollFails, Loses
<1> QED BY <1>3, <1>4, <1>5, <1>6 DEF PollStep

\* What a request reads is the ledger as it is, after any order placed before.
LEMMA ServedPreserves ==
  ASSUME PageInv, NEW r \in Requests, Served(r)
  PROVE  PageInv'
<1> DEFINE x == [flight[r] EXCEPT !.read = Snapshot]
<1>1. flight[r] \in Flights /\ flight[r] # NoRequest /\ flight[r].feed \in Feeds /\ PageTypes
  BY FlightFacts DEF Served, PageInv
<1>2. Snapshot \in Snapshots /\ Snapshot.orders \subseteq 1 .. ledger.version
      /\ Snapshot.version = ledger.version
  BY DEF Snapshot, Snapshots, Versions, PageInv, PageTypes, PageBounds
<1>3. x \in Flights /\ x.feed = flight[r].feed /\ x.read = Snapshot /\ x # NoRequest
  BY <1>1, <1>2, ClientAssumption DEF Flights, NoRequest, Feeds
<1>4. /\ flight' \in [Requests -> Flights]
      /\ \A q \in Requests : flight'[q] = IF q = r THEN x ELSE flight[q]
  BY <1>3 DEF Served, PageInv, PageTypes
<1> HIDE DEF x
<1>5. UNCHANGED <<ledger, seen, polling, mounted, form, row, told>>
  BY DEF Served
<1>6. PageTypes'
  BY <1>4, <1>5 DEF PageInv, PageTypes
<1>7. PageBounds'
  BY <1>2, <1>3, <1>4, <1>5 DEF PageInv, PageBounds, Due
<1>8. /\ \A q \in Requests : flight'[q] # NoRequest <=> flight[q] # NoRequest
      /\ \A q \in Requests : flight'[q].feed = flight[q].feed
  BY <1>1, <1>3, <1>4
<1>9. flight'["formTrade"].read # Unread =>
        /\ flight'["formTrade"].feed = "trade"
        /\ form.order <= flight'["formTrade"].read.version
  BY <1>1, <1>2, <1>3, <1>4, RequestFacts DEF FormRequests, PageInv, PageBounds, FormWaits
<1>10. FormWaits' /\ RowWaits' /\ ToldTruly'
  BY <1>5, <1>8, <1>9, RequestFacts DEF PageInv, FormWaits, RowWaits, ToldTruly, FormRequests, RowRequests
<1> QED BY <1>6, <1>7, <1>10 DEF PageInv

\* The form's state and what it tells, in a step that leaves the rest alone.
LEMMA FormAlone ==
  ASSUME PageInv, UNCHANGED <<ledger, seen, flight, polling, mounted, row>>,
         form.pc \notin {"venue", "trade"}, form'.pc \notin {"venue", "trade"},
         form' \in Forms, form'.order <= ledger.version,
         ledger.version + Pending(form') + Leaving(row) <= MaxVersion,
         told' \in Toasts, told'.order <= ledger.version,
         told' = told \/ told'.says = "failed"
  PROVE  PageInv'
<1>1. /\ PageTypes' /\ RowWaits'
  BY DEF PageInv, PageTypes, RowWaits
<1>2. PageBounds'
  <2>1. Pending(form') \in Nat /\ Leaving(row) \in Nat /\ ledger.version \in Nat /\ MaxVersion \in Nat
    BY RequestFacts DEF Pending, Leaving, PageInv, PageTypes
  <2>2. Due' = Pending(form') + Leaving(row)
    BY DEF Due
  <2>3. ledger.version + Due' <= MaxVersion
    BY <2>1, <2>2
  <2> QED BY <2>3 DEF PageInv, PageBounds
<1>3. FormWaits'
  BY DEF PageInv, FormWaits, NoRequest
<1>4. ToldTruly'
  BY DEF PageInv, ToldTruly
<1> QED BY <1>1, <1>2, <1>3, <1>4 DEF PageInv

LEMMA FailureToast ==
  ASSUME NEW v \in Versions, NEW t, t = [Silence EXCEPT !.says = "failed", !.order = v]
  PROVE  t \in Toasts /\ t.order = v /\ t.says = "failed"
<1>1. [Silence EXCEPT !.says = "failed"] = [says |-> "failed", order |-> 0, shown |-> 0]
  BY DEF Silence
<1>2. t = [says |-> "failed", order |-> v, shown |-> 0]
  BY <1>1
<1>3. 0 \in Versions
  BY RequestFacts DEF Versions
<1> HIDE DEF Versions
<1> QED BY <1>2, <1>3 DEF Toasts

\* The form before its order is on its way, and when it gives up.
LEMMA FormTalksPreserves ==
  ASSUME PageInv, Submit \/ ConfigRead \/ EndRead \/ Refused \/ FormCallFails
  PROVE  PageInv'
<1>1. /\ form \in Forms /\ form.order <= ledger.version /\ told \in Toasts /\ told.order <= ledger.version
      /\ MaxVersion \in Nat /\ ledger.version \in 1 .. MaxVersion
      /\ ledger.version + Pending(form) + Leaving(row) <= MaxVersion
      /\ Leaving(row) \in Nat /\ Pending(form) \in Nat
  <2>1. /\ form \in Forms /\ form.order <= ledger.version /\ told \in Toasts /\ told.order <= ledger.version
        /\ MaxVersion \in Nat /\ ledger.version \in 1 .. MaxVersion
        /\ ledger.version + (Pending(form) + Leaving(row)) <= MaxVersion
    BY RequestFacts DEF PageInv, PageTypes, PageBounds, Due
  <2>2. Leaving(row) \in Nat /\ Pending(form) \in Nat
    BY DEF Pending, Leaving
  <2> QED BY <2>1, <2>2
<1>2. AtRest \in Forms /\ AtRest.order = 0 /\ AtRest.pc = "idle" /\ Pending(AtRest) = 0
  BY <1>1 DEF AtRest, Forms, Versions, Pending
<1>3. ASSUME FormEnds PROVE /\ form'.order <= ledger.version /\ Pending(form') = 0 /\ form'.pc = "idle"
                            /\ form' \in Forms /\ told' \in Toasts
                            /\ told'.order <= ledger.version /\ told'.says = "failed"
  <2>1. form.order \in Versions
    BY <1>1 DEF Forms
  <2>2. told' \in Toasts /\ told'.order = form.order /\ told'.says = "failed"
    BY <1>3, <2>1, FailureToast DEF FormEnds
  <2> QED BY <1>1, <1>2, <1>3, <2>2 DEF FormEnds
<1>4. CASE Submit
  <2>1. /\ form' \in Forms /\ form'.order = 0 /\ form'.pc = "config" /\ Pending(form') = 1
        /\ Pending(form) = 0
    BY <1>1, <1>4 DEF Submit, AtRest, Forms, Versions, Pending
  <2>2. ledger.version + Pending(form') + Leaving(row) <= MaxVersion
    <3>1. ledger.version + Pending(form) + Leaving(row) < MaxVersion
      BY <1>4 DEF Submit, Room, Pending, Leaving
    <3> QED BY <1>1, <2>1, <3>1
  <2>3. form'.order <= ledger.version
    BY <1>1, <2>1
  <2> QED BY <1>1, <1>4, <2>1, <2>2, <2>3, FormAlone DEF Submit
<1>5. CASE ConfigRead
  <2>1. /\ form' \in Forms /\ form'.order = form.order /\ form'.pc = "end" /\ form.pc = "config"
    BY <1>1, <1>5 DEF ConfigRead, FormGoes, Forms
  <2>2. Pending(form') = Pending(form)
    BY <2>1 DEF Pending
  <2> QED BY <1>1, <1>5, <2>1, <2>2, FormAlone DEF ConfigRead
<1>6. CASE EndRead
  <2> DEFINE f == [form EXCEPT !.pc = "execute", !.holdings = FundedAt]
  <2>0. FundedAt \in Versions /\ f = form'
    BY <1>1, <1>6 DEF EndRead, FundedAt, Versions
  <2>1. /\ form' \in Forms /\ form'.order = form.order /\ form'.pc = "execute" /\ form.pc = "end"
    <3> DEFINE g == [form EXCEPT !.pc = "execute"]
    <3>1. g \in Forms /\ g.order = form.order /\ g.pc = "execute"
      BY <1>1 DEF Forms
    <3>2. f = [g EXCEPT !.holdings = FundedAt]
      OBVIOUS
    <3> HIDE DEF f, g
    <3>3. f \in Forms /\ f.order = form.order /\ f.pc = "execute"
      BY <2>0, <3>1, <3>2 DEF Forms
    <3> QED BY <1>6, <2>0, <3>3 DEF EndRead
  <2>2. Pending(form') = Pending(form)
    BY <2>1 DEF Pending
  <2> QED BY <1>1, <1>6, <2>1, <2>2, FormAlone DEF EndRead
<1>7. CASE Refused
  <2>1. FormEnds /\ form.pc \notin {"venue", "trade"}
    BY <1>7 DEF Refused
  <2> QED BY <1>1, <1>3, <1>7, <2>1, FormAlone DEF Refused
<1>8. CASE FormCallFails
  <2>1. FormEnds /\ form.pc \notin {"venue", "trade"}
    BY <1>8 DEF FormCallFails
  <2> QED BY <1>1, <1>3, <1>8, <2>1, FormAlone DEF FormCallFails
<1> QED BY <1>4, <1>5, <1>6, <1>7, <1>8

\* The order is on the ledger, newer than all that was read before.
LEMMA PlacedPreserves ==
  ASSUME PageInv, Placed
  PROVE  PageInv'
<1> DEFINE v == ledger.version + 1
<1>1. /\ PageTypes /\ PageBounds /\ FormWaits /\ RowWaits /\ ToldTruly
      /\ MaxVersion \in Nat /\ ledger.version \in 1 .. MaxVersion /\ ledger.orders \subseteq 1 .. ledger.version
      /\ form \in Forms /\ Leaving(row) \in Nat
  BY RequestFacts DEF PageInv, PageTypes, PageBounds, Leaving
<1>2. v <= MaxVersion /\ Pending(form) = 1
  BY <1>1 DEF PageBounds, Due, Pending, Placed
<1>3. /\ ledger' = [ledger EXCEPT !.version = v, !.orders = @ \cup {v}]
      /\ form' = [form EXCEPT !.order = v]
      /\ UNCHANGED <<seen, flight, polling, mounted, row, told>>
      /\ form.pc = "execute"
  BY DEF Placed
<1>4. /\ ledger' \in [version : 1 .. MaxVersion, orders : SUBSET (1 .. MaxVersion),
                      purse : 1 .. MaxVersion, pool : BOOLEAN]
      /\ ledger'.version = v /\ ledger'.orders = ledger.orders \cup {v}
  <2> DEFINE l == [ledger EXCEPT !.version = v]
  <2>1. v \in 1 .. MaxVersion /\ ledger.orders \cup {v} \in SUBSET (1 .. MaxVersion)
    BY <1>1, <1>2
  <2> HIDE DEF v
  <2>2. /\ l \in [version : 1 .. MaxVersion, orders : SUBSET (1 .. MaxVersion),
                      purse : 1 .. MaxVersion, pool : BOOLEAN]
        /\ l.version = v /\ l.orders = ledger.orders
    BY <1>1, <2>1 DEF PageTypes
  <2>3. ledger' = [l EXCEPT !.orders = ledger.orders \cup {v}]
    BY <1>3, <2>2
  <2> HIDE DEF l
  <2> QED BY <2>1, <2>2, <2>3
<1>5. form' \in Forms /\ form'.order = v /\ form'.pc = "execute" /\ Pending(form') = 0
  <2>1. v \in Versions /\ v # 0
    BY <1>1, <1>2 DEF Versions
  <2> HIDE DEF v
  <2> QED BY <1>1, <1>3, <2>1 DEF Forms, Pending
<1>6. /\ v \in Nat /\ ledger.version \in Nat /\ ledger.version <= v /\ v \notin 1 .. ledger.version
      /\ 1 .. ledger.version \subseteq 1 .. v /\ v \in 1 .. v
  BY <1>1
<1> HIDE DEF v
<1>7. PageTypes'
  BY <1>1, <1>3, <1>4, <1>5 DEF PageTypes
<1>8. PageBounds'
  <2>1. v + Due' <= MaxVersion
    <3>1. Due' = Leaving(row)
      BY <1>1, <1>3, <1>5 DEF Due
    <3>2. ledger.version + (1 + Leaving(row)) <= MaxVersion
      BY <1>1, <1>2 DEF Due, PageBounds
    <3> QED BY <1>1, <3>1, <3>2 DEF v
  <2>2. form'.order <= v /\ row.order <= v /\ told.order <= v
    BY <1>1, <1>5, <1>6 DEF PageBounds, PageTypes, Rows, Toasts, Versions
  <2> QED BY <1>1, <1>3, <1>4, <1>6, <2>1, <2>2 DEF PageBounds
<1>9. FormWaits'
  BY <1>1, <1>3, <1>5 DEF FormWaits, NoRequest
<1>10. row.order # v /\ told.order # v
  BY <1>1, <1>6 DEF PageBounds, PageTypes, Rows, Toasts, Versions
<1>11. RowWaits' /\ ToldTruly'
  BY <1>1, <1>3, <1>4, <1>10 DEF RowWaits, ToldTruly
<1> QED BY <1>7, <1>8, <1>9, <1>11 DEF PageInv

\* The form with its requests, in a step that leaves the row and the ledger alone.
LEMMA FormAsks ==
  ASSUME PageInv, UNCHANGED <<ledger, polling, mounted, row>>,
         flight' \in [Requests -> Flights],
         \A r \in Requests : flight'[r].read.orders \subseteq 1 .. ledger.version,
         \A r \in RowRequests : flight'[r] = flight[r],
         seen' \in [Feeds -> Snapshots],
         \A f \in Feeds : seen'[f].orders \subseteq 1 .. ledger.version,
         form' \in Forms, form'.order <= ledger.version, Pending(form') = 0,
         told' \in Toasts, told'.order <= ledger.version,
         FormWaits', ToldTruly'
  PROVE  PageInv'
<1>1. PageTypes' /\ RowWaits'
  BY DEF PageInv, PageTypes, RowWaits, RowRequests
<1>2. ledger.version + Due' <= MaxVersion
  <2>1. /\ ledger.version + (Pending(form) + Leaving(row)) <= MaxVersion
        /\ ledger.version \in Nat /\ MaxVersion \in Nat
    BY RequestFacts DEF PageInv, PageBounds, PageTypes, Due
  <2>2. Pending(form) \in Nat /\ Leaving(row) \in Nat
    BY DEF Pending, Leaving
  <2>3. Due' = Leaving(row)
    BY <2>2 DEF Due
  <2> QED BY <2>1, <2>2, <2>3
<1>3. PageBounds'
  BY <1>2 DEF PageInv, PageBounds
<1> QED BY <1>1, <1>3 DEF PageInv

\* The requests of a flow: none, or one that was asked.
LEMMA RequestsFit ==
  ASSUME PageInv
  PROVE  /\ NoRequest \in Flights /\ Asked("venue") \in Flights /\ Asked("trade") \in Flights
         /\ \A f : Asked(f).read.orders \subseteq 1 .. ledger.version /\ Asked(f).feed = f
                   /\ Asked(f).read = Unread
         /\ NoRequest.read.orders \subseteq 1 .. ledger.version /\ NoRequest.read = Unread
         /\ Asked("venue") # NoRequest /\ Asked("trade") # NoRequest
         /\ {"formVenue", "formTrade", "rowVenue", "rowTrade"} \subseteq Requests
         /\ flight \in [Requests -> Flights] /\ seen \in [Feeds -> Snapshots]
         /\ \A r \in Requests : flight[r].read.orders \subseteq 1 .. ledger.version
         /\ \A f \in Feeds : seen[f].orders \subseteq 1 .. ledger.version
         /\ form \in Forms /\ row \in Rows /\ told \in Toasts
         /\ form.order <= ledger.version /\ row.order <= ledger.version /\ told.order <= ledger.version
         /\ ledger.version \in 1 .. MaxVersion /\ MaxVersion \in Nat
<1>1. Asked("venue") \in Flights /\ Asked("trade") \in Flights /\ NoRequest \in Flights
  BY RequestFacts DEF Asked, Unread, NoRequest, Flights, Snapshots, Versions, Feeds
<1>2. /\ \A f : Asked(f).read.orders \subseteq 1 .. ledger.version /\ Asked(f).feed = f
                   /\ Asked(f).read = Unread
      /\ NoRequest.read.orders \subseteq 1 .. ledger.version /\ NoRequest.read = Unread
      /\ Asked("venue") # NoRequest /\ Asked("trade") # NoRequest
  BY DEF Asked, Unread, NoRequest
<1>3. {"formVenue", "formTrade", "rowVenue", "rowTrade"} \subseteq Requests
  BY DEF Requests, FormRequests, RowRequests
<1> QED BY <1>1, <1>2, <1>3, RequestFacts DEF PageInv, PageTypes, PageBounds

\* A snapshot that lands is of the ledger as it was.
LEMMA ShowsFits ==
  ASSUME PageInv, NEW r \in Requests, Shows(r)
  PROVE  /\ seen' \in [Feeds -> Snapshots]
         /\ \A f \in Feeds : seen'[f].orders \subseteq 1 .. ledger.version
         /\ flight[r].feed \in Feeds /\ seen'[flight[r].feed] = flight[r].read
         /\ flight[r] # NoRequest
<1>1. flight[r].feed \in Feeds /\ flight[r].read \in Snapshots /\ flight[r] # NoRequest
  BY FlightFacts DEF PageInv, Shows
<1> QED BY <1>1, RequestsFit DEF Shows

LEMMA FormFlowsPreserve ==
  ASSUME PageInv,
         PlacedAnswered \/ FormVenueLands \/ FormTradeLands \/ \E r \in FormRequests : FormRefreshFails(r)
  PROVE  PageInv'
<1>1. /\ FormWaits /\ ToldTruly /\ UNCHANGED <<ledger, polling, mounted, row>>
  BY DEF PageInv, PlacedAnswered, FormVenueLands, FormTradeLands, FormRefreshFails
<1>2. CASE PlacedAnswered
  <2>1. /\ flight["formVenue"] = NoRequest /\ form.pc = "execute" /\ form.order # 0
        /\ form' = [form EXCEPT !.pc = "venue"]
        /\ flight' = [flight EXCEPT !["formVenue"] = Asked("venue")]
        /\ UNCHANGED <<seen, told>>
    BY <1>2 DEF PlacedAnswered, FormGoes, Ask
  <2>2. form' \in Forms /\ form'.order = form.order /\ form'.pc = "venue" /\ Pending(form') = 0
    BY <2>1, RequestsFit DEF Forms, Pending
  <2>3. /\ flight' \in [Requests -> Flights]
        /\ \A r \in Requests : flight'[r] = IF r = "formVenue" THEN Asked("venue") ELSE flight[r]
    BY <2>1, RequestsFit
  <2>4. FormWaits'
    BY <1>1, <2>1, <2>2, <2>3, RequestsFit DEF FormWaits
  <2>5. ToldTruly' /\ \A r \in RowRequests : flight'[r] = flight[r]
    BY <1>1, <2>1, <2>3, RequestFacts DEF ToldTruly, RowRequests
  <2>6. \A r \in Requests : flight'[r].read.orders \subseteq 1 .. ledger.version
    BY <2>3, RequestsFit
  <2> QED BY <1>1, <2>1, <2>2, <2>3, <2>4, <2>5, <2>6, RequestsFit, FormAsks
<1>3. CASE FormVenueLands
  <2>1. /\ form.pc = "venue" /\ form' = [form EXCEPT !.pc = "trade"] /\ Shows("formVenue")
        /\ flight' = [flight EXCEPT !["formVenue"] = NoRequest, !["formTrade"] = Asked("trade")]
        /\ UNCHANGED told
    BY <1>3 DEF FormVenueLands, FormGoes
  <2>2. form' \in Forms /\ form'.order = form.order /\ form'.pc = "trade" /\ Pending(form') = 0
    BY <2>1, RequestsFit DEF Forms, Pending
  <2>3. /\ flight' \in [Requests -> Flights]
        /\ \A r \in Requests : flight'[r] = IF r = "formVenue" THEN NoRequest ELSE
             IF r = "formTrade" THEN Asked("trade") ELSE flight[r]
    BY <2>1, RequestsFit
  <2>4. FormWaits'
    BY <1>1, <2>1, <2>2, <2>3, RequestsFit DEF FormWaits
  <2>5. ToldTruly' /\ \A r \in RowRequests : flight'[r] = flight[r]
    BY <1>1, <2>1, <2>3, RequestFacts DEF ToldTruly, RowRequests
  <2>6. \A r \in Requests : flight'[r].read.orders \subseteq 1 .. ledger.version
    BY <2>3, RequestsFit
  <2>7. /\ seen' \in [Feeds -> Snapshots]
        /\ \A f \in Feeds : seen'[f].orders \subseteq 1 .. ledger.version
    BY <2>1, RequestsFit, ShowsFits
  <2> QED BY <1>1, <2>1, <2>2, <2>3, <2>4, <2>5, <2>6, <2>7, RequestsFit, FormAsks
<1>4. AtRest \in Forms /\ AtRest.order = 0 /\ AtRest.pc = "idle" /\ Pending(AtRest) = 0
  BY RequestFacts DEF AtRest, Forms, Versions, Pending
<1>5. CASE FormTradeLands
  <2>1. /\ form.pc = "trade" /\ form' = AtRest /\ Shows("formTrade")
        /\ flight' = [flight EXCEPT !["formTrade"] = NoRequest]
        /\ told' = [says |-> "placed", order |-> form.order, shown |-> seen'["trade"].version]
    BY <1>5 DEF FormTradeLands
  <2>2. /\ flight' \in [Requests -> Flights]
        /\ \A r \in Requests : flight'[r] = IF r = "formTrade" THEN NoRequest ELSE flight[r]
    BY <2>1, RequestsFit
  <2>3. /\ seen' \in [Feeds -> Snapshots]
        /\ \A f \in Feeds : seen'[f].orders \subseteq 1 .. ledger.version
        /\ seen'[flight["formTrade"].feed] = flight["formTrade"].read
        /\ flight["formTrade"].read # Unread
    BY <2>1, RequestsFit, ShowsFits DEF Shows
  <2>4. form.order # 0 /\ seen'["trade"].version >= form.order
    BY <1>1, <2>1, <2>3 DEF FormWaits
  <2>5. FormWaits'
    BY <1>1, <1>4, <2>1, <2>2, RequestsFit DEF FormWaits
  <2>6. \A r \in RowRequests : flight'[r] = flight[r]
    BY <2>2, RequestFacts DEF RowRequests
  <2>7. \A r \in Requests : flight'[r].read.orders \subseteq 1 .. ledger.version
    BY <2>2, RequestsFit
  <2>8. ToldTruly' /\ told' \in Toasts /\ told'.order <= ledger.version
    <3>1. "trade" \in Feeds /\ seen'["trade"].version \in Versions /\ form.order \in Versions
      BY <2>3, RequestsFit DEF Feeds, Snapshots, Forms
    <3> QED BY <2>1, <2>4, <3>1, RequestsFit DEF ToldTruly, Toasts
  <2>9. form'.order <= ledger.version
    BY <1>4, <2>1, RequestsFit
  <2> QED BY <1>1, <1>4, <2>1, <2>2, <2>3, <2>5, <2>6, <2>7, <2>8, <2>9, FormAsks
<1>6. CASE \E r \in FormRequests : FormRefreshFails(r)
  <2>1. PICK r \in FormRequests : FormRefreshFails(r)
    BY <1>6
  <2>2. /\ flight[r] # NoRequest /\ flight' = [flight EXCEPT ![r] = NoRequest]
        /\ form' = AtRest /\ told' = [Silence EXCEPT !.says = "failed", !.order = form.order]
        /\ UNCHANGED seen /\ r \in {"formVenue", "formTrade"}
    BY <2>1 DEF FormRefreshFails, Loses, FormEnds, FormRequests
  <2>3. /\ flight' \in [Requests -> Flights]
        /\ \A q \in Requests : flight'[q] = IF q = r THEN NoRequest ELSE flight[q]
    BY <2>2, RequestsFit
  <2>4. FormWaits'
    BY <1>1, <1>4, <2>2, <2>3, RequestsFit DEF FormWaits
  <2>5. \A q \in RowRequests : flight'[q] = flight[q]
    BY <2>2, <2>3, RequestFacts DEF RowRequests
  <2>6. \A q \in Requests : flight'[q].read.orders \subseteq 1 .. ledger.version
    BY <2>3, RequestsFit
  <2>7. told' \in Toasts /\ told'.order = form.order /\ told'.says = "failed"
    <3>1. form.order \in Versions
      BY RequestsFit DEF Forms
    <3> QED BY <2>2, <3>1, FailureToast
  <2>8. ToldTruly'
    BY <2>7 DEF ToldTruly
  <2>9. form'.order <= ledger.version
    BY <1>4, <2>2, RequestsFit
  <2> QED BY <1>1, <1>4, <2>2, <2>3, <2>4, <2>5, <2>6, <2>7, <2>8, <2>9, RequestsFit, FormAsks
<1> QED BY <1>2, <1>3, <1>5, <1>6

\* The row with its requests, in a step that leaves the form and the ledger alone.
LEMMA RowAsks ==
  ASSUME PageInv, UNCHANGED <<ledger, polling, mounted, form>>,
         flight' \in [Requests -> Flights],
         \A r \in Requests : flight'[r].read.orders \subseteq 1 .. ledger.version,
         \A r \in FormRequests : flight'[r] = flight[r],
         seen' \in [Feeds -> Snapshots],
         \A f \in Feeds : seen'[f].orders \subseteq 1 .. ledger.version,
         row' \in Rows, row'.order <= ledger.version,
         ledger.version + (Pending(form) + Leaving(row')) <= MaxVersion,
         told' \in Toasts, told'.order <= ledger.version,
         RowWaits', ToldTruly'
  PROVE  PageInv'
<1>1. PageTypes'
  BY DEF PageInv, PageTypes
<1>2. FormWaits'
  BY RequestFacts DEF PageInv, FormWaits, FormRequests
<1>3. PageBounds'
  BY DEF PageInv, PageBounds, Due
<1> QED BY <1>1, <1>2, <1>3 DEF PageInv

\* What is true of a toast stays true.
LEMMA SameToast ==
  ASSUME PageInv, UNCHANGED <<ledger, told>>
  PROVE  ToldTruly' /\ told' \in Toasts /\ told'.order <= ledger.version
  BY RequestsFit DEF PageInv, ToldTruly

LEMMA FailureFits ==
  ASSUME PageInv, NEW v \in Versions, v <= ledger.version,
         told' = [Silence EXCEPT !.says = "failed", !.order = v]
  PROVE  ToldTruly' /\ told' \in Toasts /\ told'.order <= ledger.version
<1>1. told' \in Toasts /\ told'.order = v /\ told'.says = "failed"
  BY FailureToast
<1> QED BY <1>1 DEF ToldTruly

LEMMA RowBegins ==
  ASSUME PageInv, NEW o \in seen["trade"].orders, Cancel(o)
  PROVE  PageInv'
<1>1. o \in 1 .. ledger.version /\ o \in Versions /\ "trade" \in Feeds
  BY RequestsFit DEF Feeds, Versions
<1>2. row' = [AtRest EXCEPT !.pc = "execute", !.order = o]
  BY DEF Cancel
<1>3. row' = [pc |-> "execute", order |-> o, holdings |-> 0]
  BY <1>2 DEF AtRest
<1>4. row' \in Rows /\ row'.order = o /\ row'.pc = "execute" /\ Leaving(row') = 1
  BY <1>1, <1>3, RequestFacts DEF Rows, Versions, Leaving
<1>5. ledger.version + (Pending(form) + Leaving(row')) <= MaxVersion
  <2>1. Pending(form) \in Nat /\ Leaving(row) = 0
    BY DEF Pending, Leaving, Cancel
  <2>2. ledger.version + Pending(form) + Leaving(row) < MaxVersion
    BY DEF Cancel, Room, Pending, Leaving
  <2> QED BY <1>4, <2>1, <2>2, RequestsFit
<1>6. RowWaits'
  BY <1>4 DEF RowWaits
<1>7. UNCHANGED <<ledger, seen, flight, polling, mounted, form, told>>
  BY DEF Cancel
<1>8. row'.order <= ledger.version
  BY <1>1, <1>4
<1> QED BY <1>4, <1>5, <1>6, <1>7, <1>8, RequestsFit, SameToast, RowAsks

\* The order leaves the ledger, which numbers no other like it.
LEMMA CancelledPreserves ==
  ASSUME PageInv, Cancelled
  PROVE  PageInv'
<1> DEFINE v == ledger.version + 1
           l == [ledger EXCEPT !.version = v]
<1>1. /\ PageTypes /\ PageBounds /\ FormWaits /\ RowWaits /\ ToldTruly
      /\ Pending(form) \in Nat
  BY DEF PageInv, Pending
<1>2. v <= MaxVersion /\ Leaving(row) = 1 /\ v + Pending(form) <= MaxVersion
  <2>1. Leaving(row) = 1 /\ ledger.version + (Pending(form) + Leaving(row)) <= MaxVersion
    BY <1>1 DEF PageBounds, Due, Leaving, Cancelled
  <2> QED BY <1>1, <2>1, RequestsFit
<1>3. /\ row' = [row EXCEPT !.pc = "executed"]
      /\ UNCHANGED <<seen, flight, polling, mounted, form, told>>
  BY DEF Cancelled
<1>4. row' \in Rows /\ row'.order = row.order /\ row'.pc = "executed" /\ Leaving(row') = 0
  BY <1>3, RequestsFit DEF Rows, Leaving
<1>5. /\ ledger' \in [version : 1 .. MaxVersion, orders : SUBSET (1 .. MaxVersion),
                      purse : 1 .. MaxVersion, pool : BOOLEAN]
      /\ ledger'.version = v /\ ledger'.orders = ledger.orders \ {row.order}
  <2>1. v \in 1 .. MaxVersion /\ ledger.orders \ {row.order} \in SUBSET (1 .. MaxVersion)
    BY <1>1, <1>2, RequestsFit DEF PageTypes
  <2> HIDE DEF v
  <2>2. /\ l \in [version : 1 .. MaxVersion, orders : SUBSET (1 .. MaxVersion),
                      purse : 1 .. MaxVersion, pool : BOOLEAN]
        /\ l.version = v /\ l.orders = ledger.orders
    BY <1>1, <2>1 DEF PageTypes
  <2>3. ledger' = [l EXCEPT !.orders = ledger.orders \ {row.order}]
    BY <2>2 DEF Cancelled, v
  <2> HIDE DEF l
  <2> QED BY <2>1, <2>2, <2>3
<1>6. /\ v \in Nat /\ ledger.version \in Nat /\ ledger.version <= v
      /\ 1 .. ledger.version \subseteq 1 .. v
  BY RequestsFit
<1> HIDE DEF v, l
<1>7. PageTypes'
  BY <1>1, <1>3, <1>4, <1>5 DEF PageTypes
<1>8. PageBounds'
  <2>1. v + Due' <= MaxVersion
    BY <1>1, <1>2, <1>3, <1>4, <1>6 DEF Due
  <2>2. form'.order <= v /\ row'.order <= v /\ told'.order <= v
    BY <1>3, <1>4, <1>6, RequestsFit DEF Forms, Rows, Toasts, Versions
  <2> QED BY <1>1, <1>3, <1>5, <1>6, <2>1, <2>2 DEF PageBounds
<1>9. FormWaits' /\ RowWaits' /\ ToldTruly'
  BY <1>1, <1>3, <1>4, <1>5 DEF FormWaits, RowWaits, ToldTruly
<1> QED BY <1>7, <1>8, <1>9 DEF PageInv

LEMMA RowFlowsPreserve ==
  ASSUME PageInv, \/ CancelAnswered \/ CancelRefused \/ CancelFails \/ RowUnmounts
                  \/ \E r \in RowRequests : RowLands(r) \/ RowRefreshFails(r)
  PROVE  PageInv'
<1>1. /\ RowWaits /\ ToldTruly /\ UNCHANGED <<ledger, polling, mounted, form>>
      /\ Pending(form) \in Nat
  BY DEF PageInv, CancelAnswered, CancelRefused, CancelFails, RowUnmounts, RowLands,
     RowRefreshFails, Pending
<1>2. ledger.version + (Pending(form) + Leaving(row)) <= MaxVersion
  BY DEF PageInv, PageBounds, Due
<1>3. ledger.version + (Pending(form) + 0) <= MaxVersion
  BY <1>1, <1>2, RequestsFit DEF Leaving
<1>4. AtRest \in Rows /\ AtRest.order = 0 /\ AtRest.pc = "idle" /\ Leaving(AtRest) = 0
      /\ AtRest.order <= ledger.version
  BY RequestsFit DEF AtRest, Rows, Versions, Leaving
<1>5. ASSUME RowEnds
      PROVE  /\ row' \in Rows /\ row'.order <= ledger.version /\ row'.pc = "idle" /\ Leaving(row') = 0
             /\ ToldTruly' /\ told' \in Toasts /\ told'.order <= ledger.version /\ RowWaits'
  <2>1. row.order \in Versions /\ row.order <= ledger.version
    BY RequestsFit DEF Rows
  <2>2. ToldTruly' /\ told' \in Toasts /\ told'.order <= ledger.version
    BY <1>5, <2>1, FailureFits DEF RowEnds
  <2>3. row' = AtRest
    BY <1>5 DEF RowEnds
  <2> QED BY <1>4, <2>2, <2>3 DEF RowWaits
<1>6. CASE CancelAnswered
  <2>1. /\ row.pc = "executed" /\ row' = [row EXCEPT !.pc = "refresh"]
        /\ flight' = [flight EXCEPT !["rowVenue"] = Asked("venue"),
                                    !["rowTrade"] = Asked("trade")]
        /\ UNCHANGED <<seen, told>>
    BY <1>6 DEF CancelAnswered
  <2>2. /\ flight' \in [Requests -> Flights]
        /\ \A r \in Requests : flight'[r] = IF r = "rowVenue" THEN Asked("venue") ELSE
             IF r = "rowTrade" THEN Asked("trade") ELSE flight[r]
    BY <2>1, RequestsFit
  <2>3. row' \in Rows /\ row'.order = row.order /\ row'.pc = "refresh" /\ Leaving(row') = 0
    BY <2>1, RequestsFit DEF Rows, Leaving
  <2>4. RowWaits'
    BY <1>1, <2>1, <2>2, <2>3, RequestsFit DEF RowWaits, RowRequests
  <2>5. \A r \in FormRequests : flight'[r] = flight[r]
    BY <2>2, RequestFacts DEF FormRequests
  <2>6. \A r \in Requests : flight'[r].read.orders \subseteq 1 .. ledger.version
    BY <2>2, RequestsFit
  <2> QED BY <1>1, <1>3, <2>1, <2>2, <2>3, <2>4, <2>5, <2>6, RequestsFit, SameToast, RowAsks
<1>7. CASE CancelRefused \/ CancelFails
  <2>1. RowEnds /\ UNCHANGED <<seen, flight>>
    BY <1>7 DEF CancelRefused, CancelFails
  <2> QED BY <1>1, <1>3, <1>5, <2>1, RequestsFit, RowAsks
<1>8. CASE RowUnmounts
  <2>1. row' = AtRest /\ UNCHANGED <<seen, flight, told>>
    BY <1>8 DEF RowUnmounts
  <2>2. RowWaits'
    BY <1>4, <2>1 DEF RowWaits
  <2> QED BY <1>1, <1>3, <1>4, <2>1, <2>2, RequestsFit, SameToast, RowAsks
<1>9. CASE \E r \in RowRequests : RowLands(r)
  <2>1. PICK r \in RowRequests : RowLands(r)
    BY <1>9
  <2>2. /\ Shows(r) /\ flight' = [flight EXCEPT ![r] = NoRequest] /\ r \in Requests
        /\ r \notin FormRequests
    BY <2>1, RequestFacts DEF RowLands
  <2>3. /\ flight' \in [Requests -> Flights]
        /\ \A q \in Requests : flight'[q] = IF q = r THEN NoRequest ELSE flight[q]
    BY <2>2, RequestsFit
  <2>4. /\ \A q \in FormRequests : flight'[q] = flight[q]
        /\ \A q \in Requests : flight'[q].read.orders \subseteq 1 .. ledger.version
    BY <2>2, <2>3, RequestFacts, RequestsFit
  <2>5. /\ seen' \in [Feeds -> Snapshots]
        /\ \A f \in Feeds : seen'[f].orders \subseteq 1 .. ledger.version
    BY <2>2, ShowsFits
  <2>6. CASE row.pc = "refresh" /\ \A q \in RowRequests : flight'[q] = NoRequest
    <3>1. /\ row' = [row EXCEPT !.pc = "done"]
          /\ told' = [says |-> "cancelled", order |-> row.order, shown |-> seen'["trade"].version]
      BY <2>1, <2>6 DEF RowLands
    <3>2. row' \in Rows /\ row'.order = row.order /\ row'.pc = "done" /\ Leaving(row') = 0
      BY <3>1, RequestsFit DEF Rows, Leaving
    <3>3. RowWaits'
      BY <1>1, <2>6, <3>2 DEF RowWaits
    <3>4. "trade" \in Feeds /\ seen'["trade"].version \in Versions /\ row.order \in Versions
      BY <2>5, RequestsFit DEF Feeds, Snapshots, Rows
    <3>5. ToldTruly' /\ told' \in Toasts /\ told'.order <= ledger.version
      BY <1>1, <2>6, <3>1, <3>4, RequestsFit DEF ToldTruly, Toasts, RowWaits
    <3> QED BY <1>1, <1>3, <2>3, <2>4, <2>5, <3>2, <3>3, <3>5, RequestsFit, RowAsks
  <2>7. CASE ~(row.pc = "refresh" /\ \A q \in RowRequests : flight'[q] = NoRequest)
    <3>1. UNCHANGED <<row, told>>
      BY <2>1, <2>7 DEF RowLands
    <3>2. RowWaits'
      BY <1>1, <2>7, <3>1 DEF RowWaits
    <3> QED BY <1>1, <1>2, <2>3, <2>4, <2>5, <3>1, <3>2, RequestsFit, SameToast, RowAsks
  <2> QED BY <2>6, <2>7
<1>10. CASE \E r \in RowRequests : RowRefreshFails(r)
  <2>1. PICK r \in RowRequests : RowRefreshFails(r)
    BY <1>10
  <2>2. /\ flight' = [flight EXCEPT ![r] = NoRequest] /\ r \in Requests
        /\ r \notin FormRequests /\ UNCHANGED seen
    BY <2>1, RequestFacts DEF RowRefreshFails, Loses
  <2>3. /\ flight' \in [Requests -> Flights]
        /\ \A q \in Requests : flight'[q] = IF q = r THEN NoRequest ELSE flight[q]
    BY <2>2, RequestsFit
  <2>4. /\ \A q \in FormRequests : flight'[q] = flight[q]
        /\ \A q \in Requests : flight'[q].read.orders \subseteq 1 .. ledger.version
    BY <2>2, <2>3, RequestFacts, RequestsFit
  <2>5. CASE row.pc = "refresh"
    <3>1. RowEnds
      BY <2>1, <2>5 DEF RowRefreshFails
    <3> QED BY <1>1, <1>3, <1>5, <2>2, <2>3, <2>4, <3>1, RequestsFit, RowAsks
  <2>6. CASE row.pc # "refresh"
    <3>1. UNCHANGED <<row, told>>
      BY <2>1, <2>6 DEF RowRefreshFails
    <3>2. RowWaits'
      BY <1>1, <2>6, <3>1 DEF RowWaits
    <3> QED BY <1>1, <1>2, <2>2, <2>3, <2>4, <3>1, <3>2, RequestsFit, SameToast, RowAsks
  <2> QED BY <2>5, <2>6
<1> QED BY <1>6, <1>7, <1>8, <1>9, <1>10

\* The ledger moves on by itself and never takes a number back.
LEMMA OthersPreserve ==
  ASSUME PageInv, OthersAct
  PROVE  PageInv'
<1> DEFINE v == ledger.version + 1
           Ledgers == [version : 1 .. MaxVersion, orders : SUBSET (1 .. MaxVersion),
                       purse : 1 .. MaxVersion, pool : BOOLEAN]
<1>1. UNCHANGED <<seen, flight, polling, mounted, form, row, told>>
  BY DEF OthersAct
<1>2. /\ PageTypes /\ PageBounds /\ FormWaits /\ RowWaits /\ ToldTruly /\ ledger \in Ledgers
      /\ Pending(form) \in Nat /\ Leaving(row) \in Nat
  BY DEF PageInv, PageTypes, Pending, Leaving
<1>3. v + (Pending(form) + Leaving(row)) <= MaxVersion
  <2>1. ledger.version + Pending(form) + Leaving(row) < MaxVersion
    BY DEF OthersAct, Room, Pending, Leaving
  <2> QED BY <1>2, <2>1, RequestsFit
<1>4. /\ v \in 1 .. MaxVersion /\ ledger.version <= v /\ 1 .. ledger.version \subseteq 1 .. v
      /\ v \in Nat /\ ledger.version \in Nat
  BY <1>2, <1>3, RequestsFit
<1>5. ledger' \in Ledgers /\ ledger'.version = v /\ ledger'.orders \subseteq ledger.orders
  <2> DEFINE l == [ledger EXCEPT !.version = v]
  <2>1. l \in Ledgers /\ l.version = v /\ l.orders = ledger.orders
    <3> HIDE DEF v
    <3> QED BY <1>2, <1>4
  <2>2. CASE \E o \in ledger.orders, p \in {ledger.purse, v} :
               ledger' = [ledger EXCEPT !.version = v, !.orders = @ \ {o}, !.purse = p]
    <3>1. PICK o \in ledger.orders, p \in {ledger.purse, v} :
               ledger' = [ledger EXCEPT !.version = v, !.orders = @ \ {o}, !.purse = p]
      BY <2>2
    <3>2. ledger.orders \ {o} \in SUBSET (1 .. MaxVersion) /\ p \in 1 .. MaxVersion
      BY <1>2, <1>4
    <3> DEFINE k == [l EXCEPT !.orders = ledger.orders \ {o}]
    <3>3. ledger' = [k EXCEPT !.purse = p]
      BY <2>1, <3>1
    <3> HIDE DEF l, v
    <3>4. k \in Ledgers /\ k.version = v /\ k.orders = ledger.orders \ {o}
      BY <2>1, <3>2
    <3> HIDE DEF k
    <3> QED BY <3>2, <3>3, <3>4
  <2>3. CASE ledger' = [ledger EXCEPT !.version = v, !.purse = v]
    <3>1. ledger' = [l EXCEPT !.purse = v]
      BY <2>3
    <3> HIDE DEF l, v
    <3> QED BY <1>4, <2>1, <3>1
  <2>4. CASE ledger' = [ledger EXCEPT !.version = v, !.pool = FALSE]
    <3>1. ledger' = [l EXCEPT !.pool = FALSE]
      BY <2>4
    <3> HIDE DEF l, v
    <3> QED BY <2>1, <3>1
  <2> QED BY <2>2, <2>3, <2>4 DEF OthersAct
<1> HIDE DEF v
<1>6. PageTypes'
  BY <1>1, <1>2, <1>5 DEF PageTypes
<1>7. PageBounds'
  <2>1. v + Due' <= MaxVersion
    BY <1>1, <1>3 DEF Due
  <2>2. form.order <= v /\ row.order <= v /\ told.order <= v
    BY <1>4, RequestsFit DEF Forms, Rows, Toasts, Versions
  <2> QED BY <1>1, <1>2, <1>4, <1>5, <2>1, <2>2 DEF PageBounds
<1>8. FormWaits' /\ RowWaits' /\ ToldTruly'
  BY <1>1, <1>2, <1>5 DEF FormWaits, RowWaits, ToldTruly
<1> QED BY <1>6, <1>7, <1>8 DEF PageInv

LEMMA PageStep == PageInv /\ [ClientNext]_clientVars => PageInv'
<1>1. SUFFICES ASSUME PageInv, [ClientNext]_clientVars PROVE PageInv'
  OBVIOUS
<1>2. CASE Close
  BY <1>1, <1>2 DEF Close, PageInv, PageTypes, PageBounds, Due, FormWaits, RowWaits, ToldTruly
<1>3. CASE UNCHANGED clientVars
  BY <1>1, <1>3 DEF clientVars, PageInv, PageTypes, PageBounds, Due, FormWaits, RowWaits, ToldTruly
<1>4. CASE Submit \/ OthersAct \/ FormStep
  BY <1>1, <1>4, FormTalksPreserves, PlacedPreserves, FormFlowsPreserve, OthersPreserve DEF FormStep
<1>5. CASE RowStep \/ \E o \in seen["trade"].orders : Cancel(o)
  BY <1>1, <1>5, RowBegins, CancelledPreserves, RowFlowsPreserve DEF RowStep
<1>6. CASE \E r \in Requests : Served(r)
  BY <1>1, <1>6, ServedPreserves
<1>7. CASE \/ \E q \in Polls : TimerFires(q) \/ PollStep(q)
           \/ \E q \in TradePolls : EnsureParty(q)
  <2>1. TradePolls \subseteq Polls
    BY DEF Polls
  <2> QED BY <1>1, <1>7, <2>1, PollsPreserve
<1> QED BY <1>1, <1>2, <1>3, <1>4, <1>5, <1>6, <1>7 DEF ClientNext

\* The inductive invariant of the page and its requests, for any polls, losses
\* and transactions of others.
THEOREM PageInvariance == ClientsSpec => []PageInv
<1>1. ClientsInit => PageInv
  BY PageInit DEF ClientsInit
<1>2. PageInv /\ [ClientsNext]_clientsVars => PageInv'
  BY PageStep DEF ClientsNext, clientsVars
<1> QED BY <1>1, <1>2, PTL DEF ClientsSpec

\* Each request of the page finds the flow that waits for it, and the page's
\* state keeps its types.
THEOREM FlowsAwaitTheirs == ClientsSpec => []ClientInv
<1>1. PageInv => ClientInv
  BY DEF PageInv, PageTypes, FormWaits, RowWaits, Forms, Rows, ClientInv
<1> QED BY <1>1, PageInvariance, PTL

\* An order said to be placed is on screen, or has left the ledger since, and
\* one said to be cancelled is gone for good: whatever older answers land.
THEOREM SuccessIsTrue == ClientsSpec => []SuccessIsShown
<1>1. PageInv => SuccessIsShown
  BY DEF PageInv, ToldTruly, SuccessIsShown
<1> QED BY <1>1, PageInvariance, PTL

-----------------------------------------------------------------------------
\* Doubles: how far an operation may be off

LEMMA DivFacts ==
  ASSUME NEW x \in Int, NEW e \in Nat \ {0}
  PROVE  /\ x \div e \in Int /\ x % e \in Nat /\ x % e < e
         /\ x = e * (x \div e) + (x % e)
         /\ x >= 0 => x \div e >= 0
  BY SMT

\* n / e to the nearest is off by half at most.
LEMMA NearestIsNear ==
  ASSUME NEW n \in Int, NEW e \in Nat \ {0}
  PROVE  /\ Nearest(n, e) \in Int /\ (n >= 0 => Nearest(n, e) >= 0)
         /\ 2 * (e * Nearest(n, e)) - 2 * n <= e /\ 2 * n - 2 * (e * Nearest(n, e)) <= e
<1> DEFINE low == n \div e
           rest == n % e
<1>1. /\ low \in Int /\ rest \in Nat /\ rest < e /\ n = e * low + rest
      /\ (n >= 0 => low >= 0)
  BY DivFacts
<1>2. \/ Nearest(n, e) = low /\ 2 * rest <= e
      \/ Nearest(n, e) = low + 1 /\ 2 * rest >= e
  <2> HIDE DEF low, rest
  <2>1. Nearest(n, e) = IF 2 * rest < e \/ (2 * rest = e /\ low % 2 = 0) THEN low ELSE low + 1
    BY DEF Nearest, low, rest
  <2> QED BY <1>1, <2>1
<1> HIDE DEF low, rest
<1>3. e * (low + 1) = e * low + e /\ e * low \in Int
  BY <1>1, SMT
<1>4. CASE Nearest(n, e) = low /\ 2 * rest <= e
  BY <1>1, <1>3, <1>4
<1>5. CASE Nearest(n, e) = low + 1 /\ 2 * rest >= e
  <2>1. e * Nearest(n, e) = e * low + e /\ Nearest(n, e) \in Int
    BY <1>1, <1>3, <1>5
  <2>2. n >= 0 => Nearest(n, e) >= 0
    BY <1>1, <1>5
  <2> QED BY <1>1, <1>3, <1>5, <2>1, <2>2
<1> QED BY <1>2, <1>4, <1>5

Spaced(S) == IsFiniteSet(S) /\ S # {} /\ S \subseteq Nat \ {0}

LEMMA ExtremesExist ==
  ASSUME NEW S, Spaced(S)
  PROVE  /\ Max(S) \in S /\ \A x \in S : x <= Max(S)
         /\ Min(S) \in S
<1> DEFINE P == {T \in SUBSET S : T # {} => /\ \E x \in T : \A y \in T : x >= y
                                            /\ \E x \in T : \A y \in T : x <= y}
<1>1. S \subseteq Nat /\ IsFiniteSet(S) /\ S # {}
  BY DEF Spaced
<1>2. {} \in P
  OBVIOUS
<1>3. ASSUME NEW T \in SUBSET S, NEW x \in S \ T, T \in P PROVE T \cup {x} \in P
  <2>1. CASE T = {}
    BY <1>1, <2>1
  <2>2. CASE T # {}
    <3>1. PICK h \in T : \A y \in T : h >= y
      BY <1>3, <2>2
    <3>2. PICK l \in T : \A y \in T : l <= y
      BY <1>3, <2>2
    <3>3. h \in Nat /\ l \in Nat /\ x \in Nat /\ \A y \in T : y \in Nat
      BY <1>1
    <3>4. \E z \in T \cup {x} : \A y \in T \cup {x} : z >= y
      <4>1. CASE h >= x
        BY <3>1, <4>1
      <4>2. CASE ~(h >= x)
        BY <3>1, <3>3, <4>2
      <4> QED BY <4>1, <4>2
    <3>5. \E z \in T \cup {x} : \A y \in T \cup {x} : z <= y
      <4>1. CASE l <= x
        BY <3>2, <4>1
      <4>2. CASE ~(l <= x)
        BY <3>2, <3>3, <4>2
      <4> QED BY <4>1, <4>2
    <3> QED BY <3>4, <3>5
  <2> QED BY <2>1, <2>2
<1>4. S \in P
  <2> HIDE DEF P
  <2> QED BY <1>1, <1>2, <1>3, SubsetInduction
<1>5. (\E x \in S : \A y \in S : x >= y) /\ (\E x \in S : \A y \in S : x <= y)
  BY <1>1, <1>4
<1>6. Max(S) \in S /\ \A y \in S : Max(S) >= y
  BY <1>5 DEF Max
<1>7. Min(S) \in S
  BY <1>5 DEF Min
<1>8. \A y \in S : y <= Max(S)
  BY <1>1, <1>6
<1> QED BY <1>6, <1>7, <1>8

\* Rounding to a double is off by half the largest spacing at most.
LEMMA DoubleIsNear ==
  ASSUME NEW n \in Int, NEW d \in Nat \ {0}, NEW S, Spaced(S)
  PROVE  /\ Double(n, d, S) \in Int /\ (n >= 0 => Double(n, d, S) >= 0)
         /\ 2 * (d * Double(n, d, S)) - 2 * n <= d * Max(S)
         /\ 2 * n - 2 * (d * Double(n, d, S)) <= d * Max(S)
<1> DEFINE g == Spacing(n, d, S)
           reach == {h \in S : Size(n) < h * Mantissas * d}
           k == Nearest(n, d * g)
<1>1. g \in S
  <2>1. CASE reach = {}
    BY <2>1, ExtremesExist DEF Spacing
  <2>2. CASE reach # {}
    <3>1. Spaced(reach) /\ reach \subseteq S
      BY <2>2, FS_Subset DEF Spaced
    <3> HIDE DEF reach
    <3>2. Min(reach) \in S
      BY <3>1, ExtremesExist
    <3> QED BY <2>2, <3>2 DEF Spacing, reach
  <2> QED BY <2>1, <2>2
<1> HIDE DEF g
<1>2. g \in Nat \ {0} /\ g <= Max(S) /\ Max(S) \in Nat
  BY <1>1, ExtremesExist DEF Spaced
<1>3. d * g \in Nat \ {0} /\ d * g <= d * Max(S)
  BY <1>2, SMT
<1>4. /\ k \in Int /\ (n >= 0 => k >= 0)
      /\ 2 * ((d * g) * k) - 2 * n <= d * g /\ 2 * n - 2 * ((d * g) * k) <= d * g
  BY <1>3, NearestIsNear
<1>5. Double(n, d, S) = g * k
  BY DEF Double, g
<1> HIDE DEF k
<1>6. (d * g) * k = d * (g * k) /\ g * k \in Int /\ (k >= 0 => g * k >= 0)
  BY <1>2, <1>4, SMT
<1>7. d * (g * k) \in Int /\ d * Max(S) \in Int /\ d * g \in Int
  BY <1>2, <1>6, SMT
<1> QED BY <1>3, <1>4, <1>5, <1>6, <1>7

-----------------------------------------------------------------------------
\* How far the market's arithmetic may be off.  Everything is doubled, for the
\* halves of a spacing.

AmountGap == Max(AmountSpacings)
CountGap == Max(CountSpacings)
TickGap == Factor * AmountGap

LEMMA GapFacts ==
  /\ Spaced(AmountSpacings) /\ Spaced(CountSpacings)
  /\ AmountGap \in Nat /\ CountGap \in Nat /\ TickGap \in Nat
  /\ One \in Nat \ {0} /\ Factor \in Nat \ {0} /\ MaxPrice \in Nat /\ MaxTicks \in Nat
<1>1. Spaced(AmountSpacings) /\ Spaced(CountSpacings) /\ One \in Nat \ {0}
  BY DoublesAssumption DEF Spaced
<1>2. AmountGap \in Nat /\ CountGap \in Nat
  BY <1>1, ExtremesExist DEF Spaced, AmountGap, CountGap
<1>3. Factor \in Nat \ {0} /\ MaxPrice \in Nat /\ MaxTicks \in Nat
  BY MockAssumption
<1>4. TickGap \in Nat
  <2> HIDE DEF AmountGap
  <2> QED BY <1>2, <1>3, SMT DEF TickGap
<1> QED BY <1>1, <1>2, <1>3, <1>4

LEMMA GapBounds ==
  /\ 3 * TickGap + CountGap < One
  /\ 3 * (CountGap * One + TickGap * One + TickGap * MaxPrice) <= 2 * One * One
  BY RoundingAssumption, Zenon DEF TickGap, AmountGap, CountGap

\* x is y, rounded to a double.
Near(x, y) == 2 * x - 2 * y <= AmountGap /\ 2 * y - 2 * x <= AmountGap

LEMMA AmountIsNear ==
  ASSUME NEW n \in Int
  PROVE  Amount(n, 1) \in Int /\ Near(Amount(n, 1), n) /\ (n >= 0 => Amount(n, 1) \in Nat)
<1> DEFINE x == Amount(n, 1)
<1>1. /\ x \in Int /\ (n >= 0 => x >= 0)
      /\ 2 * (1 * x) - 2 * n <= 1 * AmountGap /\ 2 * n - 2 * (1 * x) <= 1 * AmountGap
  BY GapFacts, DoubleIsNear DEF Amount, AmountGap
<1> HIDE DEF x
<1>2. 1 * x = x /\ 1 * AmountGap = AmountGap
  BY <1>1, GapFacts
<1>3. x \in Int /\ Near(x, n) /\ (n >= 0 => x \in Nat)
  BY <1>1, <1>2 DEF Near
<1> QED BY <1>3 DEF x

LEMMA CountIsNear ==
  ASSUME NEW n \in Int
  PROVE  /\ Count(n) \in Int /\ (n >= 0 => Count(n) \in Nat)
         /\ 2 * Count(n) - 2 * n <= CountGap /\ 2 * n - 2 * Count(n) <= CountGap
<1> DEFINE x == Count(n)
<1>1. /\ x \in Int /\ (n >= 0 => x >= 0)
      /\ 2 * (1 * x) - 2 * n <= 1 * CountGap /\ 2 * n - 2 * (1 * x) <= 1 * CountGap
  <2>1. Spaced(CountSpacings) /\ 1 \in Nat \ {0}
    BY GapFacts
  <2> QED BY <2>1, DoubleIsNear DEF Count, CountGap
<1> HIDE DEF x
<1>2. 1 * x = x /\ 1 * CountGap = CountGap
  BY <1>1, GapFacts
<1>3. /\ x \in Int /\ (n >= 0 => x \in Nat)
      /\ 2 * x - 2 * n <= CountGap /\ 2 * n - 2 * x <= CountGap
  BY <1>1, <1>2
<1> QED BY <1>3 DEF x

\* The double of k ticks.
LEMMA TicksAreNear ==
  ASSUME NEW k \in Nat
  PROVE  /\ Amount(k * One, Factor) \in Nat
         /\ 2 * (Factor * Amount(k * One, Factor)) - 2 * (k * One) <= TickGap
         /\ 2 * (k * One) - 2 * (Factor * Amount(k * One, Factor)) <= TickGap
<1>1. k * One \in Int /\ k * One >= 0
  BY GapFacts, SMT
<1>2. Factor \in Nat \ {0} /\ Spaced(AmountSpacings)
  BY GapFacts
<1> DEFINE x == Amount(k * One, Factor)
<1>3. /\ x \in Int /\ x >= 0
      /\ 2 * (Factor * x) - 2 * (k * One) <= TickGap
      /\ 2 * (k * One) - 2 * (Factor * x) <= TickGap
  BY <1>1, <1>2, DoubleIsNear DEF Amount, TickGap, AmountGap
<1> QED BY <1>3

LEMMA FloorIsNear ==
  ASSUME NEW x \in Nat
  PROVE  \E k \in Nat :
           /\ MockFloorTo10(x) = Amount(k * One, Factor)
           /\ 2 * (k * One) <= 2 * (x * Factor) + CountGap
           /\ 2 * (x * Factor) < 2 * (k * One) + 2 * One + CountGap
<1> DEFINE c == Count(x * Factor)
           k == c \div One
<1>1. x * Factor \in Nat
  BY GapFacts, SMT
<1>2. c \in Nat /\ 2 * c - 2 * (x * Factor) <= CountGap /\ 2 * (x * Factor) - 2 * c <= CountGap
  BY <1>1, CountIsNear
<1>3. MockFloorTo10(x) = Amount(k * One, Factor)
  BY DEF MockFloorTo10
<1> HIDE DEF c
<1>4. k \in Int /\ k >= 0 /\ c % One \in Nat /\ c % One < One /\ c = One * k + (c % One)
  BY <1>2, GapFacts, DivFacts
<1> HIDE DEF k
<1>5. One * k = k * One /\ k * One \in Nat
  BY <1>4, GapFacts, SMT
<1>6. 2 * (k * One) <= 2 * (x * Factor) + CountGap
      /\ 2 * (x * Factor) < 2 * (k * One) + 2 * One + CountGap
  BY <1>1, <1>2, <1>4, <1>5, GapFacts
<1> QED BY <1>3, <1>4, <1>6

LEMMA Product ==
  ASSUME NEW x \in Int, NEW y \in Int
  PROVE  x * y \in Int
  BY SMT

LEMMA Scaled ==
  ASSUME NEW x \in Int, NEW y \in Int, NEW c \in Nat, x <= y
  PROVE  x * c <= y * c
  BY SMT

LEMMA ScaledLess ==
  ASSUME NEW x \in Int, NEW y \in Int, NEW c \in Nat \ {0}, x < y
  PROVE  x * c < y * c
  BY SMT

\* A quote in squared units: what its rounding may lose, and a whole tick.
Loss == TickGap * One + CountGap * One
Grain == One * One

LEMMA LossBounds ==
  /\ Loss \in Nat /\ Grain \in Nat \ {0} /\ TickGap * MaxPrice \in Nat
  /\ 3 * Loss + 3 * (TickGap * MaxPrice) <= 2 * Grain
<1>1. TickGap * One \in Nat /\ CountGap * One \in Nat /\ TickGap * MaxPrice \in Nat
      /\ One * One \in Nat \ {0}
  BY GapFacts, SMT
<1>2. 2 * One * One = 2 * (One * One)
  BY GapFacts, SMT
<1>3. 3 * (CountGap * One + TickGap * One + TickGap * MaxPrice) <= 2 * (One * One)
  BY <1>2, GapBounds
<1> DEFINE a == TickGap * One
           w == CountGap * One
           p == TickGap * MaxPrice
           o == One * One
<1>4. a \in Nat /\ w \in Nat /\ p \in Nat /\ o \in Nat \ {0} /\ 3 * (w + a + p) <= 2 * o
  BY <1>1, <1>3
<1>5. Loss = a + w /\ Grain = o
  BY DEF Loss, Grain
<1> HIDE DEF a, w, p, o
<1>6. Loss \in Nat /\ Grain \in Nat \ {0} /\ p \in Nat /\ 3 * Loss + 3 * p <= 2 * Grain
  BY <1>4, <1>5
<1> QED BY <1>6 DEF p

\* A quote is k ticks, k the floor of the product but for its loss.
LEMMA QuoteIsTicks ==
  ASSUME NEW q \in Nat, NEW p \in Nat
  PROVE  \E k \in Nat :
           /\ MockQuoteAmount(q, p) = Amount(k * One, Factor)
           /\ k * Grain \in Nat /\ Factor * (q * p) \in Nat
           /\ 2 * (k * Grain) <= 2 * (Factor * (q * p)) + Loss
           /\ 2 * (Factor * (q * p)) < 2 * (k * Grain) + 2 * Grain + Loss
<1> DEFINE n == q * p
           x == Amount(n, One)
<1>1. n \in Int /\ n >= 0
  BY SMT
<1> HIDE DEF n
<1>2. One \in Nat \ {0} /\ Spaced(AmountSpacings)
  BY GapFacts
<1>3. /\ x \in Int /\ x >= 0
      /\ 2 * (One * x) - 2 * n <= One * AmountGap /\ 2 * n - 2 * (One * x) <= One * AmountGap
  BY <1>1, <1>2, DoubleIsNear DEF Amount, AmountGap
<1>4. MockQuoteAmount(q, p) = MockFloorTo10(x)
  BY DEF MockQuoteAmount, n
<1> HIDE DEF x
<1>5. PICK k \in Nat :
        /\ MockFloorTo10(x) = Amount(k * One, Factor)
        /\ 2 * (k * One) <= 2 * (x * Factor) + CountGap
        /\ 2 * (x * Factor) < 2 * (k * One) + 2 * One + CountGap
  <2>1. x \in Nat
    BY <1>3
  <2> QED BY <2>1, FloorIsNear
<1> DEFINE kO == k * One
           xT == x * Factor
           Ox == One * x
           OA == One * AmountGap
           a == TickGap * One
           w == CountGap * One
           y == xT * One
           z == n * Factor
<1>6. /\ kO \in Int /\ xT \in Int /\ Ox \in Int /\ OA \in Int
      /\ One \in Nat /\ CountGap \in Nat /\ Factor \in Nat
  BY <1>3, GapFacts, Product
<1>7. /\ 2 * kO <= 2 * xT + CountGap /\ 2 * xT < 2 * kO + 2 * One + CountGap
      /\ 2 * Ox - 2 * n <= OA /\ 2 * n - 2 * Ox <= OA
  BY <1>3, <1>5
<1>8. /\ Ox * Factor = y /\ OA * Factor = a /\ kO * One = k * Grain
      /\ y \in Int /\ a \in Int /\ w \in Int /\ z \in Int
  <2>1. Ox * Factor = y
    BY <1>3, GapFacts, SMT
  <2>2. OA * Factor = a
    BY GapFacts, SMT DEF TickGap
  <2>3. kO * One = k * Grain
    BY GapFacts, SMT DEF Grain
  <2>4. y \in Int /\ w \in Int /\ z \in Int /\ a \in Int
    <3> HIDE DEF xT
    <3> QED BY <1>1, <1>6, GapFacts, Product
  <2> QED BY <2>1, <2>2, <2>3, <2>4
<1> HIDE DEF kO, xT, Ox, OA
<1>9. (2 * kO) * One <= (2 * xT + CountGap) * One
  BY <1>6, <1>7, Scaled
<1>10. (2 * xT) * One < (2 * kO + 2 * One + CountGap) * One
  BY <1>2, <1>6, <1>7, ScaledLess
<1>11. (2 * Ox - 2 * n) * Factor <= OA * Factor /\ (2 * n - 2 * Ox) * Factor <= OA * Factor
  BY <1>1, <1>6, <1>7, Scaled
<1>12. /\ (2 * kO) * One = 2 * (k * Grain) /\ (2 * xT + CountGap) * One = 2 * y + w
       /\ (2 * xT) * One = 2 * y
       /\ (2 * kO + 2 * One + CountGap) * One = 2 * (k * Grain) + 2 * Grain + w
  <2>1. (2 * kO) * One = 2 * (kO * One)
    BY <1>6, SMT
  <2>2. (2 * xT + CountGap) * One = 2 * (xT * One) + CountGap * One
    BY <1>6, SMT
  <2>3. (2 * xT) * One = 2 * (xT * One)
    BY <1>6, SMT
  <2>4. (2 * kO + 2 * One + CountGap) * One = 2 * (kO * One) + 2 * (One * One) + CountGap * One
    BY <1>6, SMT
  <2> QED BY <1>8, <2>1, <2>2, <2>3, <2>4, Zenon DEF Grain
<1>13. (2 * Ox - 2 * n) * Factor = 2 * y - 2 * z /\ (2 * n - 2 * Ox) * Factor = 2 * z - 2 * y
  <2>1. (2 * Ox - 2 * n) * Factor = 2 * (Ox * Factor) - 2 * (n * Factor)
    BY <1>1, <1>6, SMT
  <2>2. (2 * n - 2 * Ox) * Factor = 2 * (n * Factor) - 2 * (Ox * Factor)
    BY <1>1, <1>6, SMT
  <2> QED BY <1>8, <2>1, <2>2, Zenon
<1>14. z = Factor * (q * p) /\ z \in Nat
  <2>1. z = Factor * n
    BY <1>1, <1>6, SMT
  <2>2. z >= 0
    BY <1>1, <1>6, SMT
  <2> QED BY <1>8, <2>1, <2>2 DEF n
<1>15. Loss = a + w
  BY DEF Loss
<1> HIDE DEF y, a, w, z
<1>16. k * Grain \in Nat
  BY LossBounds, SMT
<1> DEFINE kG == k * Grain
<1>17. kG \in Nat /\ Grain \in Nat
  BY <1>16, LossBounds
<1>18. /\ 2 * kG <= 2 * y + w /\ 2 * y < 2 * kG + 2 * Grain + w
       /\ 2 * y - 2 * z <= a /\ 2 * z - 2 * y <= a
  BY <1>8, <1>9, <1>10, <1>11, <1>12, <1>13
<1> HIDE DEF kG
<1>19. 2 * kG <= 2 * z + Loss /\ 2 * z < 2 * kG + 2 * Grain + Loss
  BY <1>8, <1>14, <1>15, <1>17, <1>18
<1>20. /\ MockQuoteAmount(q, p) = Amount(k * One, Factor)
       /\ k * Grain \in Nat /\ Factor * (q * p) \in Nat
       /\ 2 * (k * Grain) <= 2 * (Factor * (q * p)) + Loss
       /\ 2 * (Factor * (q * p)) < 2 * (k * Grain) + 2 * Grain + Loss
  BY <1>4, <1>5, <1>14, <1>16, <1>19 DEF kG
<1> QED BY <1>20

\* Less ticks than those of a grain more are at most one more.
LEMMA TicksBounded ==
  ASSUME NEW j \in Int, NEW k \in Int, j * Grain < k * Grain + 2 * Grain
  PROVE  j * One <= k * One + One
<1>1. Grain \in Nat \ {0} /\ One \in Nat
  BY LossBounds, GapFacts
<1>2. j <= k + 1
  <2>1. SUFFICES ASSUME j >= k + 2 PROVE FALSE
    OBVIOUS
  <2>2. (k + 2) * Grain <= j * Grain
    BY <1>1, <2>1, Scaled
  <2>3. (k + 2) * Grain = k * Grain + 2 * Grain
    BY <1>1, SMT
  <2>4. j * Grain \in Int /\ k * Grain \in Int /\ 2 * Grain \in Int
    BY <1>1, Product
  <2> HIDE DEF Grain
  <2> QED BY <2>2, <2>3, <2>4
<1>3. j * One <= (k + 1) * One
  BY <1>1, <1>2, Scaled
<1>4. (k + 1) * One = k * One + One
  BY <1>1, SMT
<1> QED BY <1>3, <1>4

LEMMA QuotesInOrder ==
  ASSUME NEW q \in Nat, NEW p \in Nat, NEW r \in Nat, NEW l \in Nat, q * p <= r * l
  PROVE  /\ MockQuoteAmount(q, p) \in Nat /\ MockQuoteAmount(r, l) \in Nat
         /\ 2 * (Factor * MockQuoteAmount(q, p))
              <= 2 * (Factor * MockQuoteAmount(r, l)) + 2 * One + 2 * TickGap
<1> DEFINE Q == MockQuoteAmount(q, p)
           R == MockQuoteAmount(r, l)
           x == Factor * (q * p)
           y == Factor * (r * l)
<1>1. PICK j \in Nat :
        /\ Q = Amount(j * One, Factor)
        /\ j * Grain \in Nat /\ x \in Nat
        /\ 2 * (j * Grain) <= 2 * x + Loss
        /\ 2 * x < 2 * (j * Grain) + 2 * Grain + Loss
  BY QuoteIsTicks
<1>2. PICK k \in Nat :
        /\ R = Amount(k * One, Factor)
        /\ k * Grain \in Nat /\ y \in Nat
        /\ 2 * (k * Grain) <= 2 * y + Loss
        /\ 2 * y < 2 * (k * Grain) + 2 * Grain + Loss
  BY QuoteIsTicks
<1>3. x <= y
  <2>1. q * p \in Int /\ r * l \in Int
    BY Product
  <2>2. (q * p) * Factor <= (r * l) * Factor
    BY <2>1, GapFacts, Scaled
  <2>3. (q * p) * Factor = Factor * (q * p) /\ (r * l) * Factor = Factor * (r * l)
    BY <2>1, GapFacts, SMT
  <2> QED BY <2>2, <2>3
<1> HIDE DEF x, y, Q, R
<1>4. j * Grain < k * Grain + 2 * Grain
  <2> DEFINE jG == j * Grain
             kG == k * Grain
             m == TickGap * MaxPrice
  <2>1. jG \in Nat /\ kG \in Nat /\ Grain \in Nat /\ Loss \in Nat /\ m \in Nat
        /\ 3 * Loss + 3 * m <= 2 * Grain
    BY <1>1, <1>2, LossBounds
  <2>2. 2 * jG <= 2 * x + Loss /\ 2 * y < 2 * kG + 2 * Grain + Loss
    BY <1>1, <1>2
  <2> HIDE DEF jG, kG, m
  <2>3. jG < kG + 2 * Grain
    BY <1>1, <1>2, <1>3, <2>1, <2>2
  <2> QED BY <2>3 DEF jG, kG
<1>5. j * One <= k * One + One
  BY <1>4, TicksBounded
<1>6. /\ Q \in Nat /\ 2 * (Factor * Q) - 2 * (j * One) <= TickGap
      /\ R \in Nat /\ 2 * (k * One) - 2 * (Factor * R) <= TickGap
  BY <1>1, <1>2, TicksAreNear
<1>7. j * One \in Int /\ k * One \in Int /\ Factor * Q \in Int /\ Factor * R \in Int
  BY <1>6, GapFacts, Product
<1>8. 2 * (Factor * Q) <= 2 * (Factor * R) + 2 * One + 2 * TickGap
  BY <1>5, <1>6, <1>7, GapFacts
<1> QED BY <1>6, <1>8 DEF Q, R

\* The floors of the two parts of an order against the one of the whole: a tick.
LEMMA QuoteSplits ==
  ASSUME NEW q \in Nat, NEW f \in Nat, NEW r \in Nat, NEW l \in Nat, l <= MaxPrice,
         2 * (Factor * f) + 2 * (Factor * r) <= 2 * (Factor * q) + 3 * TickGap
  PROVE  /\ MockQuoteAmount(q, l) \in Nat /\ MockQuoteAmount(f, l) \in Nat
         /\ MockQuoteAmount(r, l) \in Nat
         /\ 2 * (Factor * MockQuoteAmount(f, l)) + 2 * (Factor * MockQuoteAmount(r, l))
              <= 2 * (Factor * MockQuoteAmount(q, l)) + 2 * One + 3 * TickGap
<1> DEFINE Q == MockQuoteAmount(q, l)
           F == MockQuoteAmount(f, l)
           R == MockQuoteAmount(r, l)
           x == Factor * (q * l)
           y == Factor * (f * l)
           z == Factor * (r * l)
<1>1. PICK i \in Nat :
        /\ Q = Amount(i * One, Factor)
        /\ i * Grain \in Nat /\ x \in Nat
        /\ 2 * (i * Grain) <= 2 * x + Loss
        /\ 2 * x < 2 * (i * Grain) + 2 * Grain + Loss
  BY QuoteIsTicks
<1>2. PICK j \in Nat :
        /\ F = Amount(j * One, Factor)
        /\ j * Grain \in Nat /\ y \in Nat
        /\ 2 * (j * Grain) <= 2 * y + Loss
        /\ 2 * y < 2 * (j * Grain) + 2 * Grain + Loss
  BY QuoteIsTicks
<1>3. PICK k \in Nat :
        /\ R = Amount(k * One, Factor)
        /\ k * Grain \in Nat /\ z \in Nat
        /\ 2 * (k * Grain) <= 2 * z + Loss
        /\ 2 * z < 2 * (k * Grain) + 2 * Grain + Loss
  BY QuoteIsTicks
<1>4. 2 * y + 2 * z <= 2 * x + 3 * (TickGap * MaxPrice)
  <2> DEFINE a == Factor * q
             b == Factor * f
             c == Factor * r
             e == TickGap * l
  <2>1. a \in Int /\ b \in Int /\ c \in Int /\ TickGap \in Int /\ e \in Int
    BY GapFacts, Product
  <2>2. 2 * b + 2 * c <= 2 * a + 3 * TickGap
    OBVIOUS
  <2>3. a * l = x /\ b * l = y /\ c * l = z
    <3>1. Factor \in Int
      BY GapFacts
    <3> QED BY <3>1, SMT
  <2> HIDE DEF a, b, c
  <2>4. (2 * b + 2 * c) * l <= (2 * a + 3 * TickGap) * l
    BY <2>1, <2>2, Scaled
  <2>5. /\ (2 * b + 2 * c) * l = 2 * (b * l) + 2 * (c * l)
        /\ (2 * a + 3 * TickGap) * l = 2 * (a * l) + 3 * (TickGap * l)
    BY <2>1, SMT
  <2>6. l * TickGap <= MaxPrice * TickGap /\ l * TickGap = e
        /\ MaxPrice * TickGap = TickGap * MaxPrice
    <3>1. l * TickGap <= MaxPrice * TickGap
      BY GapFacts, Scaled
    <3>2. TickGap \in Int /\ MaxPrice \in Int
      BY GapFacts
    <3>3. l * TickGap = TickGap * l /\ MaxPrice * TickGap = TickGap * MaxPrice
      BY <3>2, SMT
    <3> QED BY <3>1, <3>3
  <2> DEFINE m == TickGap * MaxPrice
  <2>7. m \in Nat /\ e <= m /\ x \in Int /\ y \in Int /\ z \in Int
    BY <1>1, <1>2, <1>3, <2>6, LossBounds
  <2>8. 2 * y + 2 * z <= 2 * x + 3 * e
    BY <2>3, <2>4, <2>5
  <2> HIDE DEF x, y, z, e, m
  <2>9. 2 * y + 2 * z <= 2 * x + 3 * m
    BY <2>1, <2>7, <2>8
  <2> QED BY <2>9 DEF m
<1> HIDE DEF x, y, z, Q, F, R
<1>5. (j + k) * Grain < i * Grain + 2 * Grain
  <2> DEFINE iG == i * Grain
             jG == j * Grain
             kG == k * Grain
             m == TickGap * MaxPrice
  <2>1. iG \in Nat /\ jG \in Nat /\ kG \in Nat /\ Grain \in Nat \ {0} /\ Loss \in Nat /\ m \in Nat
        /\ 3 * Loss + 3 * m <= 2 * Grain
    BY <1>1, <1>2, <1>3, LossBounds
  <2>2. /\ 2 * jG <= 2 * y + Loss /\ 2 * kG <= 2 * z + Loss
        /\ 2 * x < 2 * iG + 2 * Grain + Loss /\ 2 * y + 2 * z <= 2 * x + 3 * m
    BY <1>1, <1>2, <1>3, <1>4
  <2>3. (j + k) * Grain = jG + kG
    BY <2>1, SMT
  <2> HIDE DEF iG, jG, kG, m
  <2>4. jG + kG < iG + 2 * Grain
    BY <1>1, <1>2, <1>3, <2>1, <2>2
  <2> QED BY <2>3, <2>4 DEF iG
<1>6. (j + k) * One <= i * One + One
  BY <1>5, TicksBounded
<1>7. /\ Q \in Nat /\ 2 * (i * One) - 2 * (Factor * Q) <= TickGap
      /\ F \in Nat /\ 2 * (Factor * F) - 2 * (j * One) <= TickGap
      /\ R \in Nat /\ 2 * (Factor * R) - 2 * (k * One) <= TickGap
  BY <1>1, <1>2, <1>3, TicksAreNear
<1>8. /\ i * One \in Int /\ j * One \in Int /\ k * One \in Int
      /\ Factor * Q \in Int /\ Factor * F \in Int /\ Factor * R \in Int
  BY <1>7, GapFacts, Product
<1>9. (j + k) * One = j * One + k * One
  BY GapFacts, SMT
<1>10. 2 * (Factor * F) + 2 * (Factor * R) <= 2 * (Factor * Q) + 2 * One + 3 * TickGap
  BY <1>6, <1>7, <1>8, <1>9, GapFacts
<1> QED BY <1>7, <1>10 DEF Q, F, R

LEMMA DecimalIsNear ==
  ASSUME NEW k \in Nat
  PROVE  /\ Decimal(k) \in Nat /\ Factor * Decimal(k) \in Int
         /\ k * One \in Nat
         /\ 2 * (Factor * Decimal(k)) - 2 * (k * One) <= TickGap
         /\ 2 * (k * One) - 2 * (Factor * Decimal(k)) <= TickGap
<1>1. k * One \in Nat
  BY GapFacts, SMT
<1>2. /\ Decimal(k) \in Nat
      /\ 2 * (Factor * Decimal(k)) - 2 * (k * One) <= TickGap
      /\ 2 * (k * One) - 2 * (Factor * Decimal(k)) <= TickGap
  BY TicksAreNear DEF Decimal
<1>3. Factor * Decimal(k) \in Int
  BY <1>2, GapFacts, Product
<1> QED BY <1>1, <1>2, <1>3

LEMMA DecimalsGrow ==
  ASSUME NEW j \in Nat, NEW k \in Nat, Decimal(j) <= Decimal(k)
  PROVE  j <= k
<1>1. SUFFICES ASSUME j >= k + 1 PROVE FALSE
  OBVIOUS
<1>2. (k + 1) * One <= j * One /\ (k + 1) * One = k * One + One
  <2>1. (k + 1) * One <= j * One
    BY <1>1, GapFacts, Scaled
  <2>2. (k + 1) * One = k * One + One
    BY GapFacts, SMT
  <2> QED BY <2>1, <2>2
<1>3. Decimal(j) * Factor <= Decimal(k) * Factor
  <2>1. Decimal(j) \in Int /\ Decimal(k) \in Int /\ Factor \in Nat
    BY DecimalIsNear, GapFacts
  <2> QED BY <2>1, Scaled
<1>4. Decimal(j) * Factor = Factor * Decimal(j) /\ Decimal(k) * Factor = Factor * Decimal(k)
  BY DecimalIsNear, GapFacts, SMT
<1>5. 3 * TickGap < One
  BY GapFacts, GapBounds
<1>6. /\ 2 * (j * One) - 2 * (Factor * Decimal(j)) <= TickGap
      /\ 2 * (Factor * Decimal(k)) - 2 * (k * One) <= TickGap
      /\ j * One \in Nat /\ k * One \in Nat /\ Factor * Decimal(j) \in Int /\ Factor * Decimal(k) \in Int
  BY DecimalIsNear
<1> QED BY <1>2, <1>3, <1>4, <1>5, <1>6, GapFacts

\* "Round (not floor) at 10 dp ... recovers the intended value from float drift"
\* (darkpoolMath.ts, remainderQuantity): what is left of one decimal after
\* another is the decimal of the exact difference, however both were rounded.
THEOREM RemaindersAreExact ==
  \A k \in Nat : \A j \in 0 .. k : MockRemainder(Decimal(k), Decimal(j)) = Decimal(k - j)
<1>1. SUFFICES ASSUME NEW k \in Nat, NEW j \in Nat, j <= k
               PROVE  MockRemainder(Decimal(k), Decimal(j)) = Decimal(k - j)
  OBVIOUS
<1> DEFINE x == Decimal(k)
           y == Decimal(j)
           d == Amount(x - y, 1)
           c == Count(d * Factor)
           dT == d * Factor
<1>2. /\ x \in Nat /\ 2 * (Factor * x) - 2 * (k * One) <= TickGap
      /\ 2 * (k * One) - 2 * (Factor * x) <= TickGap
      /\ y \in Nat /\ 2 * (Factor * y) - 2 * (j * One) <= TickGap
      /\ 2 * (j * One) - 2 * (Factor * y) <= TickGap
      /\ k * One \in Nat /\ j * One \in Nat /\ Factor * x \in Int /\ Factor * y \in Int
  BY <1>1, DecimalIsNear
<1>3. MockRemainder(x, y) = Amount(((2 * c + One) \div (2 * One)) * One, Factor)
  BY DEF MockRemainder
<1> HIDE DEF x, y
<1>4. d \in Int /\ Near(d, x - y) /\ AmountGap \in Nat
  BY <1>2, AmountIsNear, GapFacts
<1> HIDE DEF d
<1>5. /\ dT \in Int
      /\ 2 * dT - 2 * (Factor * x) + 2 * (Factor * y) <= TickGap
      /\ 2 * (Factor * x) - 2 * (Factor * y) - 2 * dT <= TickGap
  <2>1. 2 * d - 2 * (x - y) <= AmountGap /\ 2 * (x - y) - 2 * d <= AmountGap
    BY <1>4 DEF Near
  <2>2. (2 * d - 2 * (x - y)) * Factor <= AmountGap * Factor
    BY <1>2, <1>4, <2>1, GapFacts, Scaled
  <2>3. (2 * (x - y) - 2 * d) * Factor <= AmountGap * Factor
    BY <1>2, <1>4, <2>1, GapFacts, Scaled
  <2>4. AmountGap * Factor = TickGap /\ TickGap \in Nat /\ Factor \in Nat
    BY <1>4, GapFacts, SMT DEF TickGap
  <2>5. (2 * d - 2 * (x - y)) * Factor = 2 * dT - 2 * (Factor * x) + 2 * (Factor * y)
    BY <1>2, <1>4, <2>4, SMT
  <2>6. (2 * (x - y) - 2 * d) * Factor = 2 * (Factor * x) - 2 * (Factor * y) - 2 * dT
    BY <1>2, <1>4, <2>4, SMT
  <2>7. dT \in Int
    BY <1>4, <2>4, Product
  <2> QED BY <2>2, <2>3, <2>4, <2>5, <2>6, <2>7
<1> DEFINE n == k - j
           nO == n * One
<1>6. n \in Nat /\ nO = k * One - j * One
  <2>1. n \in Nat
    BY <1>1
  <2>2. nO = k * One - j * One
    BY GapFacts, SMT
  <2> QED BY <2>1, <2>2
<1> HIDE DEF n, dT
<1>7. nO \in Int /\ 2 * dT - 2 * nO <= 3 * TickGap /\ 2 * nO - 2 * dT <= 3 * TickGap
  BY <1>2, <1>5, <1>6, GapFacts
<1>8. Spaced(CountSpacings) /\ CountGap \in Nat /\ One \in Nat \ {0} /\ TickGap \in Nat
      /\ 3 * TickGap + CountGap < One
  BY GapFacts, GapBounds
<1>9. /\ c \in Int
      /\ 2 * c - 2 * dT <= CountGap /\ 2 * dT - 2 * c <= CountGap
  BY <1>5, CountIsNear DEF dT
<1> HIDE DEF c, nO
<1>10. 2 * c - 2 * nO < One /\ 2 * nO - 2 * c < One
  BY <1>5, <1>7, <1>8, <1>9
<1>11. (2 * c + One) \div (2 * One) = n
  <2> DEFINE u == 2 * c + One
             v == 2 * One
             g == u \div v
  <2>1. u \in Int /\ v \in Nat \ {0} /\ v * n = 2 * nO
    <3>1. v * n = 2 * (n * One)
      BY <1>6, <1>8, SMT
    <3> QED BY <1>8, <1>9, <3>1 DEF nO
  <2>2. v * n < u /\ u < v * n + v
    BY <1>7, <1>8, <1>9, <1>10, <2>1
  <2> HIDE DEF u, v
  <2>3. g \in Int /\ u % v \in Nat /\ u % v < v /\ u = v * g + (u % v)
    BY <2>1, DivFacts
  <2> HIDE DEF g
  <2>4. v * g \in Int /\ v * n \in Int
    BY <1>6, <2>1, <2>3, Product
  <2>5. v * n < v * g + v /\ v * g < v * n + v
    BY <2>1, <2>2, <2>3, <2>4
  <2>6. ~(g >= n + 1)
    <3>1. SUFFICES ASSUME g >= n + 1 PROVE FALSE
      OBVIOUS
    <3>2. (n + 1) * v <= g * v
      BY <1>6, <2>1, <2>3, <3>1, Scaled
    <3>3. (n + 1) * v = v * n + v /\ g * v = v * g
      BY <1>6, <2>1, <2>3, SMT
    <3> QED BY <2>1, <2>4, <2>5, <3>2, <3>3
  <2>7. ~(n >= g + 1)
    <3>1. SUFFICES ASSUME n >= g + 1 PROVE FALSE
      OBVIOUS
    <3>2. (g + 1) * v <= n * v
      BY <1>6, <2>1, <2>3, <3>1, Scaled
    <3>3. (g + 1) * v = v * g + v /\ n * v = v * n
      BY <1>6, <2>1, <2>3, SMT
    <3> QED BY <2>1, <2>4, <2>5, <3>2, <3>3
  <2>8. g = n
    BY <1>6, <2>3, <2>6, <2>7
  <2> QED BY <2>8 DEF g, u, v
<1>12. MockRemainder(x, y) = Amount(n * One, Factor)
  BY <1>3, <1>11
<1> QED BY <1>12 DEF Decimal, n, x, y

-----------------------------------------------------------------------------
\* What an order needs

Need(o) == MockRequired(o.side, o.quantity, o.limitPrice)

LEMMA NeedNat ==
  ASSUME NEW side \in {"Buy", "Sell"}, NEW q \in Nat, NEW l \in Nat
  PROVE  MockRequired(side, q, l) \in Nat
<1>1. MockQuoteAmount(q, l) \in Nat
  <2>1. q * l <= q * l
    BY SMT
  <2> QED BY <2>1, QuotesInOrder
<1> QED BY <1>1 DEF MockRequired

-----------------------------------------------------------------------------
\* Its sums: what all hold, and what a set of orders needs

Holds(bal, i) == [p \in Everyone |-> bal[p][i].total]
Weighs(S) == [o \in S |-> Need(o)]

LEMMA TotalsIsSum ==
  ASSUME NEW bal, NEW i, \A p \in Everyone : bal[p][i].total \in Int, IsFiniteSet(Everyone)
  PROVE  Totals(bal, i) = Sum(Holds(bal, i), Everyone)
<1> DEFINE S == Everyone
           Adds(g) == g = [T \in SUBSET S |->
             IF T = {} THEN 0
             ELSE bal[CHOOSE x \in T : TRUE][i].total + g[T \ {CHOOSE x \in T : TRUE}]]
           w == Holds(bal, i)
<1>1. PICK g : AddsUp(w, S, g) /\ Sum(w, S) = g[S]
  BY SumIs
<1>2. ASSUME NEW h PROVE Adds(h) <=> AddsUp(w, S, h)
  <2>1. \A T \in SUBSET S : T # {} =>
          bal[CHOOSE x \in T : TRUE][i].total = w[CHOOSE x \in T : TRUE]
    BY DEF Holds
  <2>2. [T \in SUBSET S |->
             IF T = {} THEN 0
             ELSE bal[CHOOSE x \in T : TRUE][i].total + h[T \ {CHOOSE x \in T : TRUE}]]
        = [T \in SUBSET S |->
             IF T = {} THEN 0
             ELSE w[CHOOSE x \in T : TRUE] + h[T \ {CHOOSE x \in T : TRUE}]]
    <3> HIDE DEF w, S
    <3> QED BY <2>1
  <2> HIDE DEF w, S
  <2> QED BY <2>2, Zenon DEF AddsUp
<1>3. Totals(bal, i) = (CHOOSE h : Adds(h))[S]
  BY DEF Totals, MapThenSumSet, MapThenFoldSet
<1>4. Adds(CHOOSE h : Adds(h))
  <2> HIDE DEF Adds
  <2> QED BY <1>1, <1>2
<1>5. PICK h : AddsUp(w, S, h) /\ Totals(bal, i) = h[S]
  <2> HIDE DEF Adds
  <2> QED BY <1>2, <1>3, <1>4
<1>6. \A x \in S : w[x] \in Int
  BY DEF Holds
<1>7. g[S] = h[S]
  <2> HIDE DEF w
  <2> QED BY <1>1, <1>5, <1>6, AddsUpAgree
<1> QED BY <1>1, <1>5, <1>7

LEMMA NeedsIsSum ==
  ASSUME NEW S, IsFiniteSet(S), \A o \in S : Need(o) \in Int
  PROVE  Needs(S) = Sum(Weighs(S), S)
<1> DEFINE Adds(g) == g = [T \in SUBSET S |->
             IF T = {} THEN 0
             ELSE Need(CHOOSE x \in T : TRUE) + g[T \ {CHOOSE x \in T : TRUE}]]
           w == Weighs(S)
<1>1. PICK g : AddsUp(w, S, g) /\ Sum(w, S) = g[S]
  BY SumIs
<1>2. ASSUME NEW h PROVE Adds(h) <=> AddsUp(w, S, h)
  <2>1. \A T \in SUBSET S : T # {} =>
          Need(CHOOSE x \in T : TRUE) = w[CHOOSE x \in T : TRUE]
    BY DEF Weighs
  <2>2. [T \in SUBSET S |->
             IF T = {} THEN 0
             ELSE Need(CHOOSE x \in T : TRUE) + h[T \ {CHOOSE x \in T : TRUE}]]
        = [T \in SUBSET S |->
             IF T = {} THEN 0
             ELSE w[CHOOSE x \in T : TRUE] + h[T \ {CHOOSE x \in T : TRUE}]]
    <3> HIDE DEF w
    <3> QED BY <2>1
  <2> HIDE DEF w
  <2> QED BY <2>2, Zenon DEF AddsUp
<1>3. Needs(S) = (CHOOSE h : Adds(h))[S]
  BY DEF Needs, Need, MapThenSumSet, MapThenFoldSet
<1>4. Adds(CHOOSE h : Adds(h))
  <2> HIDE DEF Adds
  <2> QED BY <1>1, <1>2
<1>5. PICK h : AddsUp(w, S, h) /\ Needs(S) = h[S]
  <2> HIDE DEF Adds
  <2> QED BY <1>2, <1>3, <1>4
<1>6. \A x \in S : w[x] \in Int
  BY DEF Weighs
<1>7. g[S] = h[S]
  <2> HIDE DEF w
  <2> QED BY <1>1, <1>5, <1>6, AddsUpAgree
<1> QED BY <1>1, <1>5, <1>7

-----------------------------------------------------------------------------
\* The market: accounts and what an adjustment does to them

Account == [total : Int, declared : Int]
Balances == [Everyone -> [Labels -> Account]]
Markets == [orders : SUBSET MockOrders, bal : Balances, seq : Nat, adjusts : Nat, fills : Nat]

LEMMA EveryoneIsFinite == IsFiniteSet(Everyone) /\ Human \in Everyone
  BY MockAssumption, FS_AddElement DEF Everyone

LEMMA HoldsAre ==
  ASSUME NEW bal \in Balances, NEW i \in Labels
  PROVE  /\ \A p \in Everyone : bal[p][i].total \in Int /\ bal[p][i].declared \in Int
         /\ \A p \in Everyone : Holds(bal, i)[p] = bal[p][i].total
         /\ Totals(bal, i) = Sum(Holds(bal, i), Everyone) /\ Totals(bal, i) \in Int
<1>1. \A p \in Everyone : bal[p][i] \in Account
  BY DEF Balances
<1>2. \A p \in Everyone : bal[p][i].total \in Int /\ bal[p][i].declared \in Int
  BY <1>1 DEF Account
<1>3. \A p \in Everyone : Holds(bal, i)[p] = bal[p][i].total
  BY DEF Holds
<1>4. Totals(bal, i) = Sum(Holds(bal, i), Everyone)
  BY <1>2, EveryoneIsFinite, TotalsIsSum
<1>5. \A p \in Everyone : Holds(bal, i)[p] \in Int
  BY <1>2, <1>3
<1>6. Sum(Holds(bal, i), Everyone) \in Int
  BY <1>5, EveryoneIsFinite, SumTake
<1> QED BY <1>2, <1>3, <1>4, <1>6

\* new is bal with p's account of i moved by t and d, each rounded.
Adjusts(new, bal, p, i, t, d) ==
  /\ new \in Balances
  /\ Near(new[p][i].total, bal[p][i].total + t)
  /\ Near(new[p][i].declared, bal[p][i].declared + d)
  /\ \A j \in Labels : j # i => new[p][j] = bal[p][j]
  /\ \A q \in Everyone : q # p => new[q] = bal[q]
  /\ Near(Totals(new, i), Totals(bal, i) + t)
  /\ \A j \in Labels : j # i => Totals(new, j) = Totals(bal, j)

LEMMA AdjustAdjusts ==
  ASSUME NEW bal \in Balances, NEW p \in Everyone, NEW i \in Labels,
         NEW t \in Int, NEW d \in Int
  PROVE  Adjusts(Adjust(bal, p, i, t, d), bal, p, i, t, d)
<1> DEFINE new == Adjust(bal, p, i, t, d)
           old == bal[p][i]
           acc == [total |-> Amount(old.total + t, 1), declared |-> Amount(old.declared + d, 1)]
<1>1. old.total \in Int /\ old.declared \in Int /\ old.total + t \in Int /\ old.declared + d \in Int
  BY HoldsAre
<1>2. acc \in Account /\ Near(acc.total, old.total + t) /\ Near(acc.declared, old.declared + d)
  BY <1>1, AmountIsNear DEF Account
<1>3. new = [bal EXCEPT ![p] = [bal[p] EXCEPT ![i] = acc]]
  BY DEF Adjust, Balances
<1> HIDE DEF new, acc
<1>4. bal[p] \in [Labels -> Account] /\ DOMAIN bal = Everyone
  BY DEF Balances
<1> DEFINE mine == [bal[p] EXCEPT ![i] = acc]
<1>5. mine \in [Labels -> Account] /\ mine[i] = acc /\ \A j \in Labels : j # i => mine[j] = bal[p][j]
  BY <1>2, <1>4
<1>6. new = [bal EXCEPT ![p] = mine]
  BY <1>3
<1> HIDE DEF mine
<1>7. new \in Balances /\ new[p] = mine /\ \A q \in Everyone : q # p => new[q] = bal[q]
  BY <1>4, <1>5, <1>6 DEF Balances
<1> DEFINE e == acc.total - old.total
<1>8. e \in Int /\ acc.total = old.total + e /\ acc.total \in Int
  BY <1>1, <1>2 DEF Account
<1> HIDE DEF e
<1>9. Totals(new, i) = Totals(bal, i) + e /\ Totals(bal, i) \in Int
  <2>1. /\ \A q \in Everyone : Holds(bal, i)[q] \in Int
        /\ Totals(bal, i) = Sum(Holds(bal, i), Everyone) /\ Totals(bal, i) \in Int
    BY HoldsAre
  <2>2. /\ \A q \in Everyone : Holds(new, i)[q] = new[q][i].total
        /\ Totals(new, i) = Sum(Holds(new, i), Everyone)
    BY <1>7, HoldsAre
  <2>3. \A q \in Everyone : Holds(bal, i)[q] = bal[q][i].total
    BY HoldsAre
  <2>4. Holds(new, i)[p] = Holds(bal, i)[p] + e
    BY <1>5, <1>7, <1>8, <2>2, <2>3
  <2>5. \A q \in Everyone : q # p => Holds(new, i)[q] = Holds(bal, i)[q]
    BY <1>7, <2>2, <2>3
  <2>6. Sum(Holds(new, i), Everyone) = Sum(Holds(bal, i), Everyone) + e
    BY <1>8, <2>1, <2>4, <2>5, EveryoneIsFinite, SumMoves
  <2> QED BY <2>1, <2>2, <2>6
<1>10. Near(Totals(new, i), Totals(bal, i) + t)
  BY <1>1, <1>2, <1>8, <1>9, GapFacts DEF Near
<1>11. ASSUME NEW j \in Labels, j # i PROVE Totals(new, j) = Totals(bal, j)
  <2>1. /\ \A q \in Everyone : Holds(bal, j)[q] \in Int
        /\ \A q \in Everyone : Holds(bal, j)[q] = bal[q][j].total
        /\ Totals(bal, j) = Sum(Holds(bal, j), Everyone)
    BY HoldsAre
  <2>2. /\ \A q \in Everyone : Holds(new, j)[q] = new[q][j].total
        /\ Totals(new, j) = Sum(Holds(new, j), Everyone)
    BY <1>7, HoldsAre
  <2>3. \A q \in Everyone : new[q][j] = bal[q][j]
    BY <1>5, <1>7, <1>11
  <2>4. \A q \in Everyone : Holds(new, j)[q] = Holds(bal, j)[q]
    BY <2>1, <2>2, <2>3
  <2> QED BY <2>1, <2>2, <2>4, EveryoneIsFinite, SumSame
<1>12. Near(new[p][i].total, old.total + t) /\ Near(new[p][i].declared, old.declared + d)
  BY <1>2, <1>5, <1>7
<1>13. \A j \in Labels : j # i => new[p][j] = bal[p][j]
  BY <1>5, <1>7
<1> QED BY <1>7, <1>10, <1>11, <1>12, <1>13 DEF Adjusts, new

\* A settlement moves the notional and the fill, and gives back the rest of
\* what the buyer had declared for the fill.
Settles(new, bal, buyer, seller, fill, notional, used) ==
  /\ new \in Balances
  /\ \A i \in Labels : /\ Totals(new, i) <= Totals(bal, i) + AmountGap
                       /\ Totals(bal, i) <= Totals(new, i) + AmountGap
  /\ Near(new[buyer]["quote"].total, bal[buyer]["quote"].total - notional)
  /\ Near(new[buyer]["quote"].declared, bal[buyer]["quote"].declared - used)
  /\ Near(new[buyer]["base"].total, bal[buyer]["base"].total + fill)
  /\ Near(new[buyer]["base"].declared, bal[buyer]["base"].declared)
  /\ Near(new[seller]["base"].total, bal[seller]["base"].total - fill)
  /\ Near(new[seller]["base"].declared, bal[seller]["base"].declared - fill)
  /\ Near(new[seller]["quote"].total, bal[seller]["quote"].total + notional)
  /\ Near(new[seller]["quote"].declared, bal[seller]["quote"].declared)
  /\ \A q \in Everyone \ {buyer, seller} : new[q] = bal[q]

LEMMA SettledMoves ==
  ASSUME NEW bal \in Balances, NEW b \in MockOrders, NEW s \in MockOrders, b.trader # s.trader,
         NEW fill \in Int, NEW price, MockQuoteAmount(fill, price) \in Int,
         MockQuoteAmount(fill, b.limitPrice) \in Int
  PROVE  Settles(Settled(bal, b, s, fill, price), bal, b.trader, s.trader, fill,
                 MockQuoteAmount(fill, price), MockQuoteAmount(fill, b.limitPrice))
<1> DEFINE notional == MockQuoteAmount(fill, price)
           used == MockQuoteAmount(fill, b.limitPrice)
           buyer == b.trader
           seller == s.trader
           paid == Adjust(bal, buyer, "quote", -notional, -used)
           got == Adjust(paid, buyer, "base", fill, 0)
           sold == Adjust(got, seller, "base", -fill, -fill)
           new == Settled(bal, b, s, fill, price)
<1>1. new = Adjust(sold, seller, "quote", notional, 0)
  BY DEF Settled
<1>2. /\ buyer \in Everyone /\ seller \in Everyone /\ buyer # seller
      /\ Labels = {"base", "quote"}
  BY DEF MockOrders, Labels
<1>3. notional \in Int /\ used \in Int /\ -notional \in Int /\ -used \in Int /\ -fill \in Int
  OBVIOUS
<1> HIDE DEF notional, used, buyer, seller, new
<1>4. Adjusts(paid, bal, buyer, "quote", -notional, -used)
  BY <1>2, <1>3, AdjustAdjusts
<1>5. Adjusts(got, paid, buyer, "base", fill, 0)
  <2> HIDE DEF paid
  <2> QED BY <1>2, <1>3, <1>4, AdjustAdjusts DEF Adjusts
<1>6. Adjusts(sold, got, seller, "base", -fill, -fill)
  <2> HIDE DEF got
  <2> QED BY <1>2, <1>3, <1>5, AdjustAdjusts DEF Adjusts
<1>7. Adjusts(new, sold, seller, "quote", notional, 0)
  <2> HIDE DEF sold
  <2> QED BY <1>1, <1>2, <1>3, <1>6, AdjustAdjusts DEF Adjusts
<1> HIDE DEF paid, got, sold
<1>8. "base" \in Labels /\ "quote" \in Labels /\ \A i \in Labels : i = "base" \/ i = "quote"
  BY <1>2
<1>9. new \in Balances /\ paid \in Balances /\ got \in Balances /\ sold \in Balances
  BY <1>4, <1>5, <1>6, <1>7 DEF Adjusts
<1>10. \A i \in Labels : /\ Totals(new, i) <= Totals(bal, i) + AmountGap
                         /\ Totals(bal, i) <= Totals(new, i) + AmountGap
  <2>1. \A i \in Labels : /\ Totals(bal, i) \in Int /\ Totals(paid, i) \in Int
                          /\ Totals(got, i) \in Int /\ Totals(sold, i) \in Int
                          /\ Totals(new, i) \in Int
    BY <1>9, HoldsAre
  <2>2. /\ Totals(paid, "base") = Totals(bal, "base") /\ Totals(new, "base") = Totals(sold, "base")
        /\ Near(Totals(got, "base"), Totals(paid, "base") + fill)
        /\ Near(Totals(sold, "base"), Totals(got, "base") + (-fill))
    BY <1>4, <1>5, <1>6, <1>7, <1>8 DEF Adjusts
  <2>3. /\ Totals(got, "quote") = Totals(paid, "quote")
        /\ Totals(sold, "quote") = Totals(got, "quote")
        /\ Near(Totals(paid, "quote"), Totals(bal, "quote") + (-notional))
        /\ Near(Totals(new, "quote"), Totals(sold, "quote") + notional)
    BY <1>4, <1>5, <1>6, <1>7, <1>8 DEF Adjusts
  <2>4. /\ Totals(new, "base") <= Totals(bal, "base") + AmountGap
        /\ Totals(bal, "base") <= Totals(new, "base") + AmountGap
    BY <1>8, <2>1, <2>2, GapFacts DEF Near
  <2>5. /\ Totals(new, "quote") <= Totals(bal, "quote") + AmountGap
        /\ Totals(bal, "quote") <= Totals(new, "quote") + AmountGap
    BY <1>3, <1>8, <2>1, <2>3, GapFacts DEF Near
  <2> QED BY <1>8, <2>4, <2>5
<1>11. /\ new[buyer] = got[buyer] /\ got[buyer]["quote"] = paid[buyer]["quote"]
       /\ paid[buyer]["base"] = bal[buyer]["base"]
  BY <1>2, <1>4, <1>5, <1>6, <1>7, <1>8 DEF Adjusts
<1>12. /\ got[seller] = bal[seller] /\ new[seller]["base"] = sold[seller]["base"]
       /\ sold[seller]["quote"] = got[seller]["quote"]
  BY <1>2, <1>4, <1>5, <1>6, <1>7, <1>8 DEF Adjusts
<1>13. \A p \in {buyer, seller}, i \in {"base", "quote"} :
         bal[p][i].total \in Int /\ bal[p][i].declared \in Int
  BY <1>2, HoldsAre
<1>14. \A x \in Int, y \in Int : x + (-y) = x - y /\ x + 0 = x
  OBVIOUS
<1>15. /\ Near(new[buyer]["quote"].total, bal[buyer]["quote"].total - notional)
       /\ Near(new[buyer]["quote"].declared, bal[buyer]["quote"].declared - used)
  BY <1>3, <1>4, <1>11, <1>13, <1>14 DEF Adjusts
<1>16. /\ Near(new[buyer]["base"].total, bal[buyer]["base"].total + fill)
       /\ Near(new[buyer]["base"].declared, bal[buyer]["base"].declared)
  BY <1>3, <1>5, <1>11, <1>13, <1>14 DEF Adjusts
<1>17. /\ Near(new[seller]["base"].total, bal[seller]["base"].total - fill)
       /\ Near(new[seller]["base"].declared, bal[seller]["base"].declared - fill)
  BY <1>3, <1>6, <1>12, <1>13, <1>14 DEF Adjusts
<1>18. /\ Near(new[seller]["quote"].total, bal[seller]["quote"].total + notional)
       /\ Near(new[seller]["quote"].declared, bal[seller]["quote"].declared)
  BY <1>3, <1>7, <1>12, <1>13, <1>14 DEF Adjusts
<1>19. \A q \in Everyone \ {buyer, seller} : new[q] = bal[q]
  BY <1>4, <1>5, <1>6, <1>7 DEF Adjusts
<1>20. Settles(new, bal, buyer, seller, fill, notional, used)
  BY <1>9, <1>10, <1>15, <1>16, <1>17, <1>18, <1>19 DEF Settles
<1> QED BY <1>20 DEF buyer, seller, notional, used, new

-----------------------------------------------------------------------------
\* The orders of the trader and what they need

Mine(m, i) == {o \in m.orders : o.trader = Human /\ Funds(o.side) = i}

Numbered(m) == IsFiniteSet(m.orders) /\ \A o \in m.orders : o.id < m.seq
Balanced(m) == \A i \in Labels :
  2 * Size(Totals(m.bal, i) - SeedTotal * Cardinality(Everyone)) <= m.adjusts * AmountGap
Covered(m) == \A i \in Labels :
  /\ Factor * (Needs(Mine(m, i)) - m.bal[Human][i].declared) <= Drift(m)
  /\ Factor * (m.bal[Human][i].declared - m.bal[Human][i].total) <= Drift(m)

\* The market between two events of the page.
MarketOK(m) == m \in Markets /\ Numbered(m) /\ Balanced(m) /\ Covered(m)

LEMMA OrdersNeed ==
  ASSUME NEW o \in MockOrders
  PROVE  /\ Need(o) \in Nat /\ Funds(o.side) \in Labels
         /\ o.side \in {"Buy", "Sell"} /\ o.quantity \in Nat /\ o.limitPrice \in Nat
         /\ o.minFill \in Nat /\ o.id \in Nat /\ o.trader \in Everyone
<1>1. /\ o.side \in {"Buy", "Sell"} /\ o.quantity \in Nat /\ o.limitPrice \in Nat
      /\ o.minFill \in Nat /\ o.id \in Nat /\ o.trader \in Everyone
  <2>1. /\ o.side \in {"Buy", "Sell"} /\ o.quantity \in Decimals /\ o.limitPrice \in 0 .. MaxPrice
        /\ o.minFill \in Nat /\ o.id \in Nat /\ o.trader \in Everyone
    BY DEF MockOrders
  <2>2. PICK k \in 0 .. MaxTicks : o.quantity = Decimal(k)
    BY <2>1 DEF Decimals
  <2>3. k \in Nat
    BY GapFacts
  <2> QED BY <2>1, <2>2, <2>3, DecimalIsNear, GapFacts
<1>2. Need(o) \in Nat
  BY <1>1, NeedNat DEF Need
<1>3. Funds(o.side) \in Labels
  BY <1>1 DEF Funds, Labels
<1> QED BY <1>1, <1>2, <1>3

\* What a set of orders needs, and one more, or one less.
LEMMA NeedsAdd ==
  ASSUME NEW S \in SUBSET MockOrders, IsFiniteSet(S), NEW o \in MockOrders, o \notin S
  PROVE  Needs(S) \in Nat /\ Needs(S \cup {o}) = Needs(S) + Need(o)
<1> DEFINE T == S \cup {o}
           w == Weighs(T)
<1>1. /\ IsFiniteSet(T) /\ T \in SUBSET MockOrders
      /\ \A x \in T : Need(x) \in Nat
  BY FS_AddElement, OrdersNeed
<1>2. /\ \A x \in T : w[x] = Need(x)
      /\ \A x \in S : Weighs(S)[x] = Need(x)
  BY DEF Weighs
<1>3. Needs(T) = Sum(w, T) /\ Needs(S) = Sum(Weighs(S), S)
  <2>1. Needs(S) = Sum(Weighs(S), S)
    BY <1>1, NeedsIsSum
  <2>2. Needs(T) = Sum(w, T)
    BY <1>1, NeedsIsSum
  <2> QED BY <2>1, <2>2
<1>4. \A x \in S : w[x] \in Nat /\ Weighs(S)[x] = w[x]
  BY <1>1, <1>2
<1> HIDE DEF w
<1>5. Sum(Weighs(S), S) = Sum(w, S)
  BY <1>4, SumSame
<1>6. w[o] \in Int /\ w[o] = Need(o)
  BY <1>1, <1>2
<1>7. Sum(w, T) = Sum(w, S) + w[o]
  BY <1>4, <1>6, SumAdd
<1>8. Sum(w, S) \in Nat
  BY <1>4, SumNat
<1> QED BY <1>3, <1>5, <1>6, <1>7, <1>8

\* Balances may be off by half a spacing more with each adjustment.
LEMMA BalanceDrifts ==
  ASSUME NEW x \in Int, NEW y \in Int, NEW c \in Int, NEW k \in Nat, NEW j \in Nat,
         2 * Size(x - c) <= k * AmountGap,
         2 * x - 2 * y <= j * AmountGap, 2 * y - 2 * x <= j * AmountGap
  PROVE  2 * Size(y - c) <= (k + j) * AmountGap
<1> DEFINE a == k * AmountGap
           b == j * AmountGap
<1>1. a \in Int /\ b \in Int
  BY GapFacts, Product
<1>2. (k + j) * AmountGap = a + b
  <2>1. AmountGap \in Int
    BY GapFacts
  <2> QED BY <2>1, SMT
<1>3. 2 * Size(x - c) <= a /\ 2 * x - 2 * y <= b /\ 2 * y - 2 * x <= b
  OBVIOUS
<1> HIDE DEF a, b
<1>4. 2 * Size(y - c) <= a + b
  BY <1>1, <1>3 DEF Size
<1> QED BY <1>2, <1>4

\* The drift in one number for a fill and one for an adjustment.
LEMMA DriftIs ==
  ASSUME NEW m \in Markets
  PROVE  /\ Drift(m) = m.fills * One + m.adjusts * (2 * TickGap)
         /\ Drift(m) \in Nat
         /\ m.adjusts >= 1 => 2 * TickGap <= Drift(m)
<1> DEFINE a == m.adjusts
           f == m.fills
           g == 2 * TickGap
<1>1. a \in Nat /\ f \in Nat
  BY DEF Markets
<1>2. g \in Nat /\ One \in Nat /\ 2 * Factor * Max(AmountSpacings) = g
  BY GapFacts, SMT DEF TickGap, AmountGap
<1>3. Drift(m) = f * One + a * g
  BY <1>2 DEF Drift
<1> HIDE DEF a, f, g
<1>4. f * One \in Nat /\ a * g \in Nat /\ (a >= 1 => g <= a * g)
  <2>1. f * One \in Nat /\ a * g \in Nat
    BY <1>1, <1>2, SMT
  <2>2. a >= 1 => 1 * g <= a * g
    BY <1>1, <1>2, Scaled
  <2> QED BY <1>2, <2>1, <2>2
<1> QED BY <1>2, <1>3, <1>4 DEF a, f, g

LEMMA DriftGrows ==
  ASSUME NEW m \in Markets, NEW n \in Markets, NEW f \in Nat, NEW a \in Nat,
         n.fills = m.fills + f, n.adjusts = m.adjusts + a
  PROVE  Drift(n) = Drift(m) + f * One + a * (2 * TickGap)
<1> DEFINE g == 2 * TickGap
           mf == m.fills
           ma == m.adjusts
<1>1. g \in Nat /\ One \in Nat /\ mf \in Nat /\ ma \in Nat
  BY GapFacts DEF Markets
<1>2. Drift(m) = mf * One + ma * g /\ Drift(n) = (mf + f) * One + (ma + a) * g
  BY DriftIs
<1> HIDE DEF g, mf, ma
<1>3. (mf + f) * One = mf * One + f * One /\ (ma + a) * g = ma * g + a * g
  BY <1>1, SMT
<1>4. mf * One \in Int /\ f * One \in Int /\ ma * g \in Int /\ a * g \in Int
  BY <1>1, Product
<1>5. Drift(n) = Drift(m) + f * One + a * g
  BY <1>2, <1>3, <1>4
<1> QED BY <1>5 DEF g

\* What a fill may add to a gap of the trader's account: a tick and a little.
Tick(e) == e \in Int /\ 2 * (Factor * e) <= 2 * One + 3 * TickGap

LEMMA GapByFill ==
  ASSUME NEW x \in Int, NEW y \in Int, NEW e, Tick(e), NEW D \in Int,
         2 * y <= 2 * x + 2 * e + 2 * AmountGap, Factor * x <= D
  PROVE  Factor * y <= D + One + 4 * (2 * TickGap)
<1>1. e \in Int /\ 2 * (Factor * e) <= 2 * One + 3 * TickGap
  BY DEF Tick
<1>2. y <= x + e + AmountGap /\ Factor \in Nat /\ AmountGap \in Int
  BY <1>1, GapFacts
<1>3. y * Factor <= (x + e + AmountGap) * Factor
  BY <1>1, <1>2, Scaled
<1>4. /\ y * Factor = Factor * y
      /\ (x + e + AmountGap) * Factor = Factor * x + Factor * e + Factor * AmountGap
  BY <1>1, <1>2, SMT
<1>5. Factor * AmountGap = TickGap /\ TickGap \in Nat /\ One \in Nat
  BY GapFacts DEF TickGap
<1>6. Factor * x \in Int /\ Factor * y \in Int /\ Factor * e \in Int
  BY <1>1, <1>2, Product
<1> QED BY <1>1, <1>3, <1>4, <1>5, <1>6

LEMMA GapByChange ==
  ASSUME NEW x \in Int, NEW y \in Int, NEW D \in Int,
         2 * y <= 2 * x + 2 * AmountGap, Factor * x <= D
  PROVE  Factor * y <= D + 2 * TickGap
<1>1. y <= x + AmountGap /\ Factor \in Nat /\ AmountGap \in Int
  BY GapFacts
<1>2. y * Factor <= (x + AmountGap) * Factor
  BY <1>1, Scaled
<1>3. y * Factor = Factor * y /\ (x + AmountGap) * Factor = Factor * x + Factor * AmountGap
  BY <1>1, SMT
<1>4. Factor * AmountGap = TickGap /\ TickGap \in Nat
  BY GapFacts DEF TickGap
<1>5. Factor * x \in Int /\ Factor * y \in Int
  BY <1>1, Product
<1> QED BY <1>2, <1>3, <1>4, <1>5

LEMMA NegativeTick ==
  ASSUME NEW x \in Int, x <= 0
  PROVE  Tick(x)
<1>1. x * Factor <= 0 * Factor /\ x * Factor = Factor * x /\ 0 * Factor = 0
  BY GapFacts, SMT
<1>2. Factor * x \in Int
  BY GapFacts, Product
<1> QED BY <1>1, <1>2, GapFacts DEF Tick

\* An account of the trader over a fill: its total moves by t, what is declared
\* of it by d, and what its orders need by d and e.
LEMMA FillDrifts ==
  ASSUME NEW was \in Account, NEW now \in Account, NEW x \in Nat, NEW y \in Nat,
         NEW t \in Int, NEW d \in Int, NEW e, Tick(e), Tick(d - t), NEW D \in Int,
         Near(now.total, was.total + t), Near(now.declared, was.declared + d), y = x + d + e,
         Factor * (x - was.declared) <= D, Factor * (was.declared - was.total) <= D
  PROVE  /\ Factor * (y - now.declared) <= D + One + 4 * (2 * TickGap)
         /\ Factor * (now.declared - now.total) <= D + One + 4 * (2 * TickGap)
<1> DEFINE wt == was.total
           wd == was.declared
           nt == now.total
           nd == now.declared
<1>1. wt \in Int /\ wd \in Int /\ nt \in Int /\ nd \in Int /\ e \in Int /\ AmountGap \in Nat
  BY GapFacts DEF Account, Tick
<1>2. /\ 2 * nt - 2 * (wt + t) <= AmountGap /\ 2 * (wt + t) - 2 * nt <= AmountGap
      /\ 2 * nd - 2 * (wd + d) <= AmountGap /\ 2 * (wd + d) - 2 * nd <= AmountGap
  BY DEF Near
<1>3. Factor * (x - wd) <= D /\ Factor * (wd - wt) <= D
  OBVIOUS
<1> HIDE DEF wt, wd, nt, nd
<1>4. Factor * (y - nd) <= D + One + 4 * (2 * TickGap)
  <2>1. x - wd \in Int /\ y - nd \in Int
    BY <1>1
  <2>2. 2 * (y - nd) <= 2 * (x - wd) + 2 * e + 2 * AmountGap
    BY <1>1, <1>2
  <2> QED BY <1>3, <2>1, <2>2, GapByFill
<1>5. Factor * (nd - nt) <= D + One + 4 * (2 * TickGap)
  <2>1. wd - wt \in Int /\ nd - nt \in Int
    BY <1>1
  <2>2. 2 * (nd - nt) <= 2 * (wd - wt) + 2 * (d - t) + 2 * AmountGap
    BY <1>1, <1>2
  <2> QED BY <1>3, <2>1, <2>2, GapByFill
<1> QED BY <1>4, <1>5 DEF nt, nd

\* A fill that needs d of o leaves r of it, or nothing: no more than o needed, but
\* for a tick.
Splits(o, d, r) == /\ d \in Nat
                   /\ Tick(d + Need(r) - Need(o)) /\ Tick(d - Need(o))

\* The orders of T need d less than those of S, but for a tick.
Relieves(T, S, d) == \E e : Tick(e) /\ Needs(T) + d = Needs(S) + e

\* An order gives way to what is left of it, if anything.
LEMMA NeedsReplaced ==
  ASSUME NEW S \in SUBSET MockOrders, IsFiniteSet(S), NEW o \in S,
         NEW R \in SUBSET MockOrders, NEW r, r \in MockOrders, R = {} \/ R = {r}, r \notin S,
         NEW d, Splits(o, d, r)
  PROVE  Relieves((S \ {o}) \cup R, S, d)
<1> DEFINE T == S \ {o}
<1>1. /\ T \in SUBSET MockOrders /\ IsFiniteSet(T) /\ o \notin T /\ T \cup {o} = S
      /\ o \in MockOrders /\ r \notin T /\ T \cup {} = T
  BY FS_RemoveElement
<1>2. Needs(T) \in Nat /\ Needs(S) = Needs(T) + Need(o)
  <2> HIDE DEF T
  <2>1. Needs(T) \in Nat /\ Needs(T \cup {o}) = Needs(T) + Need(o)
    BY <1>1, NeedsAdd
  <2> QED BY <1>1, <2>1
<1>3. Needs(T \cup {r}) = Needs(T) + Need(r)
  <2> HIDE DEF T
  <2> QED BY <1>1, NeedsAdd
<1>4. /\ Need(r) \in Nat /\ Need(o) \in Nat /\ d \in Nat
      /\ Tick(d + Need(r) - Need(o)) /\ Tick(d - Need(o))
  BY <1>1, OrdersNeed DEF Splits
<1>5. CASE R = {}
  <2> DEFINE e == d - Need(o)
  <2>1. T \cup R = T
    BY <1>1, <1>5
  <2>2. Needs(T \cup R) + d = Needs(S) + e
    <3> DEFINE all == Needs(S)
               rest == Needs(T)
    <3>1. Needs(T \cup R) = rest
      BY <2>1
    <3>2. rest \in Nat /\ all = rest + Need(o)
      BY <1>2
    <3> HIDE DEF rest, all
    <3>3. rest + d = all + (d - Need(o))
      BY <1>4, <3>2
    <3> QED BY <3>1, <3>3 DEF all
  <2> QED BY <1>4, <2>2 DEF Relieves
<1>6. CASE R = {r}
  <2> DEFINE e == d + Need(r) - Need(o)
  <2>1. Needs(T \cup R) + d = Needs(S) + e
    <3> HIDE DEF T
    <3> QED BY <1>2, <1>3, <1>4, <1>6
  <2> QED BY <1>4, <2>1 DEF Relieves
<1> QED BY <1>5, <1>6

LEMMA NeedsNat ==
  ASSUME NEW S \in SUBSET MockOrders, IsFiniteSet(S)
  PROVE  Needs(S) \in Nat
<1>1. \A o \in S : Need(o) \in Nat /\ Weighs(S)[o] = Need(o)
  BY OrdersNeed DEF Weighs
<1>2. Needs(S) = Sum(Weighs(S), S)
  BY <1>1, NeedsIsSum
<1>3. Sum(Weighs(S), S) \in Nat
  BY <1>1, SumNat
<1> QED BY <1>2, <1>3

LEMMA MineNeeds ==
  ASSUME NEW m \in Markets, Numbered(m), NEW i \in Labels
  PROVE  /\ Needs(Mine(m, i)) \in Nat
         /\ Mine(m, i) \in SUBSET MockOrders /\ IsFiniteSet(Mine(m, i))
<1>1. Mine(m, i) \subseteq m.orders /\ m.orders \in SUBSET MockOrders /\ IsFiniteSet(m.orders)
  BY DEF Mine, Markets, Numbered
<1>2. Mine(m, i) \in SUBSET MockOrders /\ IsFiniteSet(Mine(m, i))
  BY <1>1, FS_Subset
<1> QED BY <1>2, NeedsNat

\* What is left of o after a fill, and what it and the fill need.
Left(o, fill, id) == [o EXCEPT !.id = id, !.quantity = MockRemainder(@, fill)]

LEMMA PartsOfDecimals ==
  ASSUME NEW q \in Decimals, NEW f \in Decimals, f <= q, NEW r, r = MockRemainder(q, f)
  PROVE  /\ r \in Decimals /\ q \in Nat /\ f \in Nat /\ r \in Nat
         /\ 2 * (Factor * f) + 2 * (Factor * r) <= 2 * (Factor * q) + 3 * TickGap
<1>1. PICK k \in 0 .. MaxTicks : q = Decimal(k)
  BY DEF Decimals
<1>2. PICK j \in 0 .. MaxTicks : f = Decimal(j)
  BY DEF Decimals
<1>3. k \in Nat /\ j \in Nat /\ MaxTicks \in Nat
  BY GapFacts
<1>4. j <= k /\ k - j \in 0 .. MaxTicks /\ k - j \in Nat
  <2>1. j <= k
    BY <1>1, <1>2, <1>3, DecimalsGrow
  <2> QED BY <1>3, <2>1
<1>5. r = Decimal(k - j)
  <2>1. j \in 0 .. k
    BY <1>3, <1>4
  <2> QED BY <1>1, <1>2, <1>3, <2>1, RemaindersAreExact
<1>6. r \in Decimals
  BY <1>4, <1>5 DEF Decimals
<1>7. /\ q \in Nat /\ Factor * q \in Int /\ k * One \in Nat
      /\ 2 * (k * One) - 2 * (Factor * q) <= TickGap
      /\ f \in Nat /\ Factor * f \in Int /\ j * One \in Nat
      /\ 2 * (Factor * f) - 2 * (j * One) <= TickGap
      /\ r \in Nat /\ Factor * r \in Int /\ (k - j) * One \in Nat
      /\ 2 * (Factor * r) - 2 * ((k - j) * One) <= TickGap
  BY <1>1, <1>2, <1>3, <1>4, <1>5, DecimalIsNear
<1>8. (k - j) * One = k * One - j * One
  BY <1>3, GapFacts, SMT
<1>9. 2 * (Factor * f) + 2 * (Factor * r) <= 2 * (Factor * q) + 3 * TickGap
  BY <1>7, <1>8, GapFacts
<1> QED BY <1>6, <1>7, <1>9

\* Amounts that exceed one another by a tick at most, in ticks.
LEMMA TickApart ==
  ASSUME NEW x \in Int, NEW y \in Int, NEW z \in Int,
         2 * (Factor * x) + 2 * (Factor * y) <= 2 * (Factor * z) + 2 * One + 3 * TickGap
  PROVE  Tick(x + y - z)
<1>1. Factor * (x + y - z) = Factor * x + Factor * y - Factor * z
  BY GapFacts, SMT
<1>2. Factor * x \in Int /\ Factor * y \in Int /\ Factor * z \in Int
  BY GapFacts, Product
<1>3. 2 * (Factor * (x + y - z)) <= 2 * One + 3 * TickGap
  BY <1>1, <1>2, GapFacts
<1> QED BY <1>3 DEF Tick

LEMMA LeftNeeds ==
  ASSUME NEW o \in MockOrders, NEW fill \in Decimals, fill <= o.quantity, NEW id \in Nat,
         NEW r, r = Left(o, fill, id), NEW d, d = MockRequired(o.side, fill, o.limitPrice)
  PROVE  /\ r \in MockOrders /\ r.id = id /\ r.trader = o.trader /\ r.side = o.side
         /\ ReRest(o, fill, id) \in {{}, {r}}
         /\ Splits(o, d, r)
<1> DEFINE q == o.quantity
           l == o.limitPrice
           rest == MockRemainder(q, fill)
<1>1. /\ o.side \in {"Buy", "Sell"} /\ q \in Decimals /\ l \in 0 .. MaxPrice
  BY DEF MockOrders
<1>2. l \in Nat /\ l <= MaxPrice
  BY <1>1, GapFacts
<1>3. /\ rest \in Decimals /\ q \in Nat /\ fill \in Nat /\ rest \in Nat
      /\ 2 * (Factor * fill) + 2 * (Factor * rest) <= 2 * (Factor * q) + 3 * TickGap
  BY <1>1, PartsOfDecimals
<1> HIDE DEF rest
<1>4. /\ r \in MockOrders /\ r.id = id /\ r.trader = o.trader /\ r.side = o.side
      /\ r.quantity = rest /\ r.limitPrice = l
  BY <1>3 DEF MockOrders, Left, rest
<1>5. ReRest(o, fill, id) \in {{}, {r}}
  BY DEF ReRest, Left
<1>6. Factor * fill \in Int /\ Factor * rest \in Int /\ Factor * q \in Int
      /\ TickGap \in Nat /\ One \in Nat \ {0} /\ Factor \in Nat
  BY <1>3, GapFacts, Product
<1>7. Factor * 0 = 0
  BY <1>6, SMT
<1>8. CASE o.side = "Buy"
  <2> DEFINE Q == MockQuoteAmount(q, l)
             F == MockQuoteAmount(fill, l)
             R == MockQuoteAmount(rest, l)
  <2>1. Q \in Nat /\ F \in Nat /\ R \in Nat
        /\ 2 * (Factor * F) + 2 * (Factor * R) <= 2 * (Factor * Q) + 2 * One + 3 * TickGap
    BY <1>2, <1>3, QuoteSplits
  <2>2. 2 * (Factor * F) <= 2 * (Factor * Q) + 2 * One + 2 * TickGap
    <3>1. fill * l <= q * l
      BY <1>2, <1>3, Scaled
    <3> QED BY <1>2, <1>3, <3>1, QuotesInOrder
  <2>3. Need(o) = Q /\ d = F /\ Need(r) = R
    BY <1>4, <1>8 DEF Need, MockRequired
  <2> HIDE DEF Q, F, R
  <2>4. Tick(F + R - Q)
    BY <2>1, TickApart
  <2>5. Tick(F + 0 - Q)
    <3>1. Factor * F \in Int /\ Factor * Q \in Int
      BY <1>6, <2>1, Product
    <3>2. 2 * (Factor * F) + 2 * (Factor * 0) <= 2 * (Factor * Q) + 2 * One + 3 * TickGap
      BY <1>6, <1>7, <2>2, <3>1
    <3> QED BY <2>1, <3>2, TickApart
  <2>6. F + 0 - Q = F - Q
    BY <2>1
  <2> QED BY <1>4, <1>5, <2>1, <2>3, <2>4, <2>5, <2>6 DEF Splits
<1>9. CASE o.side = "Sell"
  <2>1. Need(o) = q /\ d = fill /\ Need(r) = rest
    BY <1>4, <1>9 DEF Need, MockRequired
  <2> HIDE DEF q
  <2>2. Tick(fill + rest - q)
    <3>1. 2 * (Factor * fill) + 2 * (Factor * rest) <= 2 * (Factor * q) + 2 * One + 3 * TickGap
      BY <1>3, <1>6
    <3> QED BY <1>3, <3>1, TickApart
  <2>3. Tick(fill + 0 - q)
    <3>1. fill * Factor <= q * Factor /\ fill * Factor = Factor * fill /\ q * Factor = Factor * q
      <4>1. fill * Factor <= q * Factor
        BY <1>3, <1>6, Scaled DEF q
      <4>2. fill * Factor = Factor * fill /\ q * Factor = Factor * q
        BY <1>3, <1>6, SMT
      <4> QED BY <4>1, <4>2
    <3>2. 2 * (Factor * fill) + 2 * (Factor * 0) <= 2 * (Factor * q) + 2 * One + 3 * TickGap
      BY <1>6, <1>7, <3>1
    <3> QED BY <1>3, <3>2, TickApart
  <2>4. fill + 0 - q = fill - q
    BY <1>3
  <2> QED BY <1>3, <1>4, <1>5, <2>1, <2>2, <2>3, <2>4 DEF Splits
<1> QED BY <1>1, <1>8, <1>9

LEMMA MidpointNat ==
  ASSUME NEW x \in Nat, NEW y \in Nat
  PROVE  MockMidpoint(x, y) \in Nat
<1> DEFINE sum == Amount(x + y, 1)
           half == Amount(sum, 2)
<1>1. sum \in Nat
  <2>1. x + y \in Int /\ x + y >= 0
    OBVIOUS
  <2> QED BY <2>1, AmountIsNear
<1> HIDE DEF sum
<1>2. half \in Nat
  <2>1. sum \in Int /\ sum >= 0 /\ 2 \in Nat \ {0} /\ Spaced(AmountSpacings)
    BY <1>1, GapFacts
  <2>2. half \in Int /\ half >= 0
    BY <2>1, DoubleIsNear DEF Amount
  <2> QED BY <2>2
<1> HIDE DEF half
<1>3. PICK k \in Nat : MockFloorTo10(half) = Amount(k * One, Factor)
  BY <1>2, FloorIsNear
<1>4. Amount(k * One, Factor) \in Nat
  BY TicksAreNear
<1> QED BY <1>3, <1>4 DEF MockMidpoint, half, sum

Fill(b, s) == IF b.quantity < s.quantity THEN b.quantity ELSE s.quantity

\* A pair of a pass: it crosses, and its traders differ.
Pair(m, b, s) ==
  /\ b \in m.orders /\ s \in m.orders /\ b.side = "Buy" /\ s.side = "Sell"
  /\ b.trader # s.trader /\ s.limitPrice <= b.limitPrice

\* A pair that matches.
Matched(m, b, s) ==
  [orders |-> (m.orders \ {b, s}) \cup ReRest(b, Fill(b, s), m.seq)
                \cup ReRest(s, Fill(b, s), m.seq + 1),
   bal |-> Settled(m.bal, b, s, Fill(b, s), MockMidpoint(b.limitPrice, s.limitPrice)),
   seq |-> m.seq + 2, adjusts |-> m.adjusts + 4, fills |-> m.fills + 1]

LEMMA MatchedPreserves ==
  ASSUME NEW m, MarketOK(m), NEW b, NEW s, Pair(m, b, s),
         MockMidpoint(b.limitPrice, s.limitPrice) <= b.limitPrice, NEW n, n = Matched(m, b, s)
  PROVE  /\ MarketOK(n) /\ m.orders \ {b, s} \subseteq n.orders
         /\ (b.trader # Human /\ s.trader # Human) =>
              /\ n.bal[Human] = m.bal[Human]
              /\ \A i \in Labels : Mine(n, i) = Mine(m, i)
<1> DEFINE fill == Fill(b, s)
           price == MockMidpoint(b.limitPrice, s.limitPrice)
           rb == Left(b, fill, m.seq)
           rs == Left(s, fill, m.seq + 1)
           notional == MockQuoteAmount(fill, price)
           used == MockQuoteAmount(fill, b.limitPrice)
           RB == ReRest(b, fill, m.seq)
           RS == ReRest(s, fill, m.seq + 1)
<1>1. /\ b \in MockOrders /\ s \in MockOrders /\ m.orders \in SUBSET MockOrders
      /\ m.bal \in Balances /\ m.seq \in Nat /\ m.seq + 1 \in Nat
      /\ IsFiniteSet(m.orders) /\ \A o \in m.orders : o.id < m.seq
      /\ m \in Markets /\ m.adjusts \in Nat /\ m.fills \in Nat
  BY DEF MarketOK, Markets, Numbered, Pair
<1>2. b.quantity \in Nat /\ s.quantity \in Nat /\ b.limitPrice \in Nat /\ s.limitPrice \in Nat
      /\ b.trader \in Everyone /\ s.trader \in Everyone
  BY <1>1, OrdersNeed
<1>3. fill \in Decimals /\ fill \in Nat /\ fill <= b.quantity /\ fill <= s.quantity
  <2>1. b.quantity \in Decimals /\ s.quantity \in Decimals
    BY <1>1 DEF MockOrders
  <2> QED BY <1>2, <2>1 DEF Fill
<1>4. price \in Nat /\ price <= b.limitPrice
  BY <1>2, MidpointNat
<1> HIDE DEF fill, price
<1>5. notional \in Nat /\ used \in Nat /\ Tick(notional - used)
  <2>1. price * fill <= b.limitPrice * fill
    BY <1>2, <1>3, <1>4, Scaled
  <2>2. fill * price <= fill * b.limitPrice
    BY <1>2, <1>3, <1>4, <2>1, SMT
  <2>3. /\ notional \in Nat /\ used \in Nat
        /\ 2 * (Factor * notional) <= 2 * (Factor * used) + 2 * One + 2 * TickGap
    BY <1>2, <1>3, <1>4, <2>2, QuotesInOrder
  <2> HIDE DEF notional, used
  <2>4. Factor * 0 = 0 /\ Factor * notional \in Int /\ Factor * used \in Int
    BY <2>3, GapFacts, Product
  <2>5. 2 * (Factor * notional) + 2 * (Factor * 0)
          <= 2 * (Factor * used) + 2 * One + 3 * TickGap
    BY <2>3, <2>4, GapFacts
  <2>6. Tick(notional + 0 - used)
    BY <2>3, <2>5, TickApart
  <2>7. notional + 0 - used = notional - used
    BY <2>3
  <2> QED BY <2>3, <2>6, <2>7
<1>6. /\ rb \in MockOrders /\ rb.id = m.seq /\ rb.trader = b.trader /\ rb.side = b.side
      /\ RB \in {{}, {rb}}
  BY <1>1, <1>3, LeftNeeds
<1>7. /\ rs \in MockOrders /\ rs.id = m.seq + 1 /\ rs.trader = s.trader /\ rs.side = s.side
      /\ RS \in {{}, {rs}}
  BY <1>1, <1>3, LeftNeeds
<1>8. /\ n.orders = (m.orders \ {b, s}) \cup RB \cup RS
      /\ n.bal = Settled(m.bal, b, s, fill, price) /\ n.seq = m.seq + 2
      /\ n.adjusts = m.adjusts + 4 /\ n.fills = m.fills + 1
      /\ n = [orders |-> n.orders, bal |-> n.bal, seq |-> n.seq, adjusts |-> n.adjusts,
              fills |-> n.fills]
  BY DEF Matched, fill, price
<1>9. b.side = "Buy" /\ s.side = "Sell" /\ b.trader # s.trader /\ b \in m.orders /\ s \in m.orders
  BY DEF Pair
<1> HIDE DEF rb, rs, RB, RS
<1>10. Settles(n.bal, m.bal, b.trader, s.trader, fill, notional, used)
  <2>1. fill \in Int /\ notional \in Int /\ used \in Int
    BY <1>3, <1>5
  <2>2. Settles(Settled(m.bal, b, s, fill, price), m.bal, b.trader, s.trader, fill, notional, used)
    BY <1>1, <1>9, <2>1, SettledMoves
  <2> HIDE DEF notional, used
  <2> QED BY <1>8, <2>2
<1> HIDE DEF notional, used
<1>11. n \in Markets
  <2>1. n.orders \in SUBSET MockOrders
    BY <1>1, <1>6, <1>7, <1>8
  <2>2. n.seq \in Nat /\ n.adjusts \in Nat /\ n.fills \in Nat
    BY <1>1, <1>8
  <2>3. n.bal \in Balances
    BY <1>10 DEF Settles
  <2> QED BY <1>8, <2>1, <2>2, <2>3 DEF Markets
<1>12. Numbered(n)
  <2>1. IsFiniteSet(RB) /\ IsFiniteSet(RS)
    <3>1. IsFiniteSet({}) /\ IsFiniteSet({rb}) /\ IsFiniteSet({rs})
      BY FS_EmptySet, FS_Singleton
    <3> QED BY <1>6, <1>7, <3>1, Zenon
  <2>2. IsFiniteSet(m.orders \ {b, s})
    BY <1>1, FS_Subset
  <2>3. IsFiniteSet(n.orders)
    <3>1. IsFiniteSet((m.orders \ {b, s}) \cup RB)
      BY <2>1, <2>2, FS_Union
    <3>2. IsFiniteSet(((m.orders \ {b, s}) \cup RB) \cup RS)
      BY <2>1, <3>1, FS_Union
    <3> QED BY <1>8, <3>2
  <2>4. ASSUME NEW o \in n.orders PROVE o.id < n.seq
    <3>1. o \in m.orders \/ o = rb \/ o = rs
      BY <1>6, <1>7, <1>8
    <3>2. o \in m.orders => o.id \in Nat
      BY <1>1, OrdersNeed
    <3> QED BY <1>1, <1>6, <1>7, <1>8, <3>1, <3>2
  <2> QED BY <2>3, <2>4 DEF Numbered
<1>13. Balanced(n)
  <2>1. SUFFICES ASSUME NEW i \in Labels
                 PROVE  2 * Size(Totals(n.bal, i) - SeedTotal * Cardinality(Everyone))
                          <= n.adjusts * AmountGap
    BY DEF Balanced
  <2> DEFINE x == Totals(m.bal, i)
             y == Totals(n.bal, i)
             c == SeedTotal * Cardinality(Everyone)
  <2>2. x \in Int /\ y \in Int /\ c \in Int
    <3>1. n.bal \in Balances
      BY <1>10 DEF Settles
    <3>2. SeedTotal \in Int /\ Cardinality(Everyone) \in Int
      BY MockAssumption, EveryoneIsFinite, FS_CardinalityType
    <3> QED BY <1>1, <3>1, <3>2, HoldsAre, Product
  <2>3. y <= x + AmountGap /\ x <= y + AmountGap
    BY <1>10 DEF Settles
  <2>4. 2 * Size(x - c) <= m.adjusts * AmountGap
    BY DEF MarketOK, Balanced
  <2> HIDE DEF x, y, c
  <2>5. 2 * x - 2 * y <= 4 * AmountGap /\ 2 * y - 2 * x <= 4 * AmountGap
    BY <2>2, <2>3, GapFacts
  <2>6. 2 * Size(y - c) <= (m.adjusts + 4) * AmountGap
    BY <1>1, <2>2, <2>4, <2>5, BalanceDrifts
  <2> QED BY <1>8, <2>6 DEF y, c
<1>14. m.orders \ {b, s} \subseteq n.orders
  BY <1>8
<1>15. ASSUME NEW i \in Labels
       PROVE  /\ Mine(m, i) \in SUBSET MockOrders /\ IsFiniteSet(Mine(m, i))
              /\ rb \notin Mine(m, i) /\ rs \notin Mine(m, i)
  <2>1. IsFiniteSet(Mine(m, i)) /\ Mine(m, i) \subseteq m.orders
    BY <1>1, FS_Subset DEF Mine
  <2>2. rb \notin m.orders /\ rs \notin m.orders
    BY <1>1, <1>6, <1>7
  <2> QED BY <1>1, <2>1, <2>2
<1>16. ASSUME NEW i \in Labels
       PROVE  /\ (b.trader = Human /\ i = "quote") => Mine(n, i) = (Mine(m, i) \ {b}) \cup RB
              /\ (s.trader = Human /\ i = "base") => Mine(n, i) = (Mine(m, i) \ {s}) \cup RS
              /\ ~(b.trader = Human /\ i = "quote") /\ ~(s.trader = Human /\ i = "base")
                   => Mine(n, i) = Mine(m, i)
  <2>1. \A o \in RB : o.trader = b.trader /\ Funds(o.side) = "quote"
    BY <1>6, <1>9 DEF Funds
  <2>2. \A o \in RS : o.trader = s.trader /\ Funds(o.side) = "base"
    BY <1>7, <1>9 DEF Funds
  <2>3. Funds(b.side) = "quote" /\ Funds(s.side) = "base"
    BY <1>9 DEF Funds
  <2>4. \A o : o \in Mine(n, i) <=>
          \/ o \in Mine(m, i) /\ o # b /\ o # s
          \/ o \in RB /\ b.trader = Human /\ i = "quote"
          \/ o \in RS /\ s.trader = Human /\ i = "base"
    BY <1>8, <2>1, <2>2 DEF Mine
  <2>5. /\ b \in Mine(m, i) <=> (b.trader = Human /\ i = "quote")
        /\ s \in Mine(m, i) <=> (s.trader = Human /\ i = "base")
    BY <1>9, <2>3 DEF Mine
  <2> QED BY <1>9, <2>4, <2>5
<1>17. \A i \in Labels : /\ (b \in Mine(m, i) <=> (b.trader = Human /\ i = "quote"))
                         /\ (s \in Mine(m, i) <=> (s.trader = Human /\ i = "base"))
  BY <1>9 DEF Mine, Funds, Labels
<1>18. ASSUME b.trader # Human, s.trader # Human
       PROVE  n.bal[Human] = m.bal[Human] /\ \A i \in Labels : Mine(n, i) = Mine(m, i)
  <2>1. n.bal[Human] = m.bal[Human]
    BY <1>10, <1>18, EveryoneIsFinite DEF Settles
  <2>2. \A i \in Labels : Mine(n, i) = Mine(m, i)
    BY <1>16, <1>18
  <2> QED BY <2>1, <2>2
<1>19. Drift(n) = Drift(m) + One + 4 * (2 * TickGap) /\ Drift(m) \in Nat
  <2>1. Drift(n) = Drift(m) + 1 * One + 4 * (2 * TickGap)
    BY <1>1, <1>8, <1>11, DriftGrows
  <2>2. 1 * One = One
    BY GapFacts
  <2> QED BY <1>1, <2>1, <2>2, DriftIs
<1>20. ASSUME NEW i \in Labels, NEW t \in Int, NEW d \in Int, NEW e, Tick(e), Tick(d - t),
              Near(n.bal[Human][i].total, m.bal[Human][i].total + t),
              Near(n.bal[Human][i].declared, m.bal[Human][i].declared + d),
              Needs(Mine(n, i)) = Needs(Mine(m, i)) + d + e
       PROVE  /\ Factor * (Needs(Mine(n, i)) - n.bal[Human][i].declared) <= Drift(n)
              /\ Factor * (n.bal[Human][i].declared - n.bal[Human][i].total) <= Drift(n)
  <2> DEFINE was == m.bal[Human][i]
             now == n.bal[Human][i]
             x == Needs(Mine(m, i))
             y == Needs(Mine(n, i))
  <2>1. was \in Account /\ now \in Account
    BY <1>1, <1>11, EveryoneIsFinite DEF Markets, Balances
  <2>2. x \in Nat /\ y \in Nat
    BY <1>1, <1>11, <1>12, MineNeeds DEF MarketOK
  <2>3. Factor * (x - was.declared) <= Drift(m) /\ Factor * (was.declared - was.total) <= Drift(m)
    BY DEF MarketOK, Covered
  <2>4. /\ Near(now.total, was.total + t) /\ Near(now.declared, was.declared + d)
        /\ y = x + d + e
    BY <1>20
  <2> HIDE DEF was, now, x, y
  <2>5. /\ Factor * (y - now.declared) <= Drift(m) + One + 4 * (2 * TickGap)
        /\ Factor * (now.declared - now.total) <= Drift(m) + One + 4 * (2 * TickGap)
    BY <1>19, <1>20, <2>1, <2>2, <2>3, <2>4, FillDrifts
  <2> QED BY <1>19, <2>5 DEF now, y
<1>21. ASSUME NEW i \in Labels
       PROVE  /\ Factor * (Needs(Mine(n, i)) - n.bal[Human][i].declared) <= Drift(n)
              /\ Factor * (n.bal[Human][i].declared - n.bal[Human][i].total) <= Drift(n)
  <2>1. /\ m.bal[Human][i].declared \in Int /\ m.bal[Human][i].total \in Int
        /\ Needs(Mine(m, i)) \in Nat
    BY <1>1, EveryoneIsFinite, HoldsAre, MineNeeds DEF MarketOK
  <2>2. CASE b.trader # Human /\ s.trader # Human
    <3>1. /\ Factor * (Needs(Mine(m, i)) - m.bal[Human][i].declared) <= Drift(m)
          /\ Factor * (m.bal[Human][i].declared - m.bal[Human][i].total) <= Drift(m)
      BY DEF MarketOK, Covered
    <3>2. Drift(m) <= Drift(n) /\ Drift(n) \in Int
      BY <1>19, GapFacts
    <3> DEFINE x == Needs(Mine(m, i)) - m.bal[Human][i].declared
               y == m.bal[Human][i].declared - m.bal[Human][i].total
    <3>3. Factor * x \in Int /\ Factor * y \in Int
      BY <2>1, GapFacts, Product
    <3>4. Factor * x <= Drift(n) /\ Factor * y <= Drift(n)
      BY <1>19, <3>1, <3>2, <3>3
    <3> QED BY <1>18, <2>2, <3>4
  <2>3. CASE b.trader = Human /\ i = "quote"
    <3>1. Mine(n, i) = (Mine(m, i) \ {b}) \cup RB
      BY <1>16, <2>3
    <3>2. used = MockRequired(b.side, fill, b.limitPrice)
      BY <1>9 DEF MockRequired, used
    <3>3. Splits(b, used, rb)
      BY <1>1, <1>3, <3>2, LeftNeeds DEF rb
    <3>4. PICK e : Tick(e) /\ Needs((Mine(m, i) \ {b}) \cup RB) + used = Needs(Mine(m, i)) + e
      <4>1. b \in Mine(m, i) /\ RB \in SUBSET MockOrders /\ (RB = {} \/ RB = {rb})
        BY <1>6, <1>17, <2>3
      <4> DEFINE M == Mine(m, i)
      <4>2. /\ M \in SUBSET MockOrders /\ IsFiniteSet(M) /\ b \in M /\ rb \notin M
            /\ rb \in MockOrders /\ used \in Nat
        BY <1>5, <1>6, <1>15, <4>1
      <4> HIDE DEF M
      <4>3. Relieves((M \ {b}) \cup RB, M, used)
        BY <3>3, <4>1, <4>2, NeedsReplaced
      <4> QED BY <4>3 DEF M, Relieves
    <3>5. /\ Near(n.bal[Human][i].total, m.bal[Human][i].total - notional)
          /\ Near(n.bal[Human][i].declared, m.bal[Human][i].declared - used)
      BY <1>10, <2>3, Zenon DEF Settles
    <3>6. /\ -notional \in Int /\ -used \in Int /\ -used - (-notional) = notional - used
          /\ m.bal[Human][i].total + (-notional) = m.bal[Human][i].total - notional
          /\ m.bal[Human][i].declared + (-used) = m.bal[Human][i].declared - used
      BY <1>5, <2>1
    <3>7. Needs(Mine(n, i)) = Needs(Mine(m, i)) + (-used) + e
      <4>1. Needs(Mine(n, i)) \in Nat /\ e \in Int
        BY <1>11, <1>12, <3>4, MineNeeds DEF Tick
      <4> QED BY <1>5, <2>1, <3>1, <3>4, <4>1
    <3> QED BY <1>5, <1>20, <3>4, <3>5, <3>6, <3>7
  <2>4. CASE s.trader = Human /\ i = "base"
    <3>1. Mine(n, i) = (Mine(m, i) \ {s}) \cup RS
      BY <1>16, <2>4
    <3>2. fill = MockRequired(s.side, fill, s.limitPrice)
      BY <1>9 DEF MockRequired
    <3>3. Splits(s, fill, rs)
      BY <1>1, <1>3, <3>2, LeftNeeds DEF rs
    <3>4. PICK e : Tick(e) /\ Needs((Mine(m, i) \ {s}) \cup RS) + fill = Needs(Mine(m, i)) + e
      <4>1. s \in Mine(m, i) /\ RS \in SUBSET MockOrders /\ (RS = {} \/ RS = {rs})
        BY <1>7, <1>17, <2>4
      <4> DEFINE M == Mine(m, i)
      <4>2. /\ M \in SUBSET MockOrders /\ IsFiniteSet(M) /\ s \in M /\ rs \notin M
            /\ rs \in MockOrders /\ fill \in Nat
        BY <1>3, <1>7, <1>15, <4>1
      <4> HIDE DEF M
      <4>3. Relieves((M \ {s}) \cup RS, M, fill)
        BY <3>3, <4>1, <4>2, NeedsReplaced
      <4> QED BY <4>3 DEF M, Relieves
    <3>5. /\ Near(n.bal[Human][i].total, m.bal[Human][i].total - fill)
          /\ Near(n.bal[Human][i].declared, m.bal[Human][i].declared - fill)
      BY <1>10, <2>4, Zenon DEF Settles
    <3>6. /\ -fill \in Int /\ -fill - (-fill) \in Int /\ -fill - (-fill) <= 0
          /\ m.bal[Human][i].total + (-fill) = m.bal[Human][i].total - fill
          /\ m.bal[Human][i].declared + (-fill) = m.bal[Human][i].declared - fill
      BY <1>3, <2>1
    <3>7. Needs(Mine(n, i)) = Needs(Mine(m, i)) + (-fill) + e
      <4>1. Needs(Mine(n, i)) \in Nat /\ e \in Int
        BY <1>11, <1>12, <3>4, MineNeeds DEF Tick
      <4> QED BY <1>3, <2>1, <3>1, <3>4, <4>1
    <3>8. Tick(-fill - (-fill))
      BY <3>6, NegativeTick
    <3> QED BY <1>20, <3>4, <3>5, <3>6, <3>7, <3>8
  <2>5. ASSUME NEW t \in Nat, Mine(n, i) = Mine(m, i),
               Near(n.bal[Human][i].total, m.bal[Human][i].total + t),
               Near(n.bal[Human][i].declared, m.bal[Human][i].declared)
        PROVE  /\ Factor * (Needs(Mine(n, i)) - n.bal[Human][i].declared) <= Drift(n)
               /\ Factor * (n.bal[Human][i].declared - n.bal[Human][i].total) <= Drift(n)
    <3>1. /\ 0 \in Int /\ 0 - t \in Int /\ 0 - t <= 0 /\ t \in Int
          /\ m.bal[Human][i].declared + 0 = m.bal[Human][i].declared
          /\ Needs(Mine(n, i)) = Needs(Mine(m, i)) + 0 + 0
      BY <2>1, <2>5
    <3>2. Tick(0) /\ Tick(0 - t)
      BY <3>1, NegativeTick
    <3> QED BY <1>20, <2>5, <3>1, <3>2
  <2>6. CASE b.trader = Human /\ i = "base"
    <3>1. Mine(n, i) = Mine(m, i)
      BY <1>9, <1>16, <2>6
    <3>2. /\ Near(n.bal[Human][i].total, m.bal[Human][i].total + fill)
          /\ Near(n.bal[Human][i].declared, m.bal[Human][i].declared)
      BY <1>10, <2>6, Zenon DEF Settles
    <3> QED BY <1>3, <2>5, <3>1, <3>2
  <2>7. CASE s.trader = Human /\ i = "quote"
    <3>1. Mine(n, i) = Mine(m, i)
      BY <1>9, <1>16, <2>7
    <3>2. /\ Near(n.bal[Human][i].total, m.bal[Human][i].total + notional)
          /\ Near(n.bal[Human][i].declared, m.bal[Human][i].declared)
      BY <1>10, <2>7, Zenon DEF Settles
    <3> QED BY <1>5, <2>5, <3>1, <3>2
  <2> QED BY <2>2, <2>3, <2>4, <2>6, <2>7 DEF Labels
<1>22. MarketOK(n)
  BY <1>11, <1>12, <1>13, <1>21 DEF MarketOK, Covered
<1> QED BY <1>14, <1>18, <1>22

-----------------------------------------------------------------------------
\* A pass: one buy after another, each from a market that is in order

LEMMA FirstsExist ==
  ASSUME NEW S \in SUBSET MockOrders, IsFiniteSet(S), S # {}
  PROVE  HighestFirst(S) \in S /\ CheapestFirst(S) \in S
<1> DEFINE Higher(o, q) == \/ o.limitPrice > q.limitPrice
                           \/ o.limitPrice = q.limitPrice /\ o.id <= q.id
           Lower(o, q) == \/ o.limitPrice < q.limitPrice
                          \/ o.limitPrice = q.limitPrice /\ o.id <= q.id
           P == {T \in SUBSET S : T # {} => /\ \E o \in T : \A q \in T : Higher(o, q)
                                            /\ \E o \in T : \A q \in T : Lower(o, q)}
<1>1. \A o \in S : o.limitPrice \in Nat /\ o.id \in Nat
  BY OrdersNeed
<1>2. {} \in P
  OBVIOUS
<1>3. ASSUME NEW T \in SUBSET S, NEW x \in S \ T, T \in P PROVE T \cup {x} \in P
  <2>1. Higher(x, x) /\ Lower(x, x)
    BY <1>1
  <2>2. CASE T = {}
    BY <2>1, <2>2
  <2>3. CASE T # {}
    <3>1. PICK h \in T : \A q \in T : Higher(h, q)
      BY <1>3, <2>3
    <3>2. PICK l \in T : \A q \in T : Lower(l, q)
      BY <1>3, <2>3
    <3>3. \E o \in T \cup {x} : \A q \in T \cup {x} : Higher(o, q)
      <4>1. CASE Higher(h, x)
        BY <3>1, <4>1
      <4>2. CASE ~Higher(h, x)
        <5>1. \A q \in T : Higher(x, q)
          BY <1>1, <3>1, <4>2
        <5> QED BY <2>1, <5>1
      <4> QED BY <4>1, <4>2
    <3>4. \E o \in T \cup {x} : \A q \in T \cup {x} : Lower(o, q)
      <4>1. CASE Lower(l, x)
        BY <3>2, <4>1
      <4>2. CASE ~Lower(l, x)
        <5>1. \A q \in T : Lower(x, q)
          BY <1>1, <3>2, <4>2
        <5> QED BY <2>1, <5>1
      <4> QED BY <4>1, <4>2
    <3> QED BY <3>3, <3>4
  <2> QED BY <2>2, <2>3
<1>4. S \in P
  <2> HIDE DEF P
  <2> QED BY <1>2, <1>3, SubsetInduction
<1>5. (\E o \in S : \A q \in S : Higher(o, q)) /\ (\E o \in S : \A q \in S : Lower(o, q))
  BY <1>4
<1> QED BY <1>5 DEF HighestFirst, CheapestFirst

\* A trader without orders is left alone.
Kept(m, n) == (\A i \in Labels : Mine(m, i) = {}) =>
                /\ n.bal[Human] = m.bal[Human]
                /\ \A i \in Labels : Mine(n, i) = {}

LEMMA MatchOrdersKeeps ==
  ASSUME NEW m, MarketOK(m), NEW b, NEW s, Pair(m, b, s), NEW n, n = MatchOrders(m, b, s)
  PROVE  MarketOK(n) /\ m.orders \ {b, s} \subseteq n.orders /\ Kept(m, n)
<1>1. \/ n = m
      \/ n = Matched(m, b, s) /\ MockMidpoint(b.limitPrice, s.limitPrice) <= b.limitPrice
  <2> DEFINE price == MockMidpoint(b.limitPrice, s.limitPrice)
             inside == MockPriceWithin("Buy", price, b.limitPrice)
  <2>1. inside => price <= b.limitPrice
    BY DEF MockPriceWithin
  <2>2. n = m \/ (inside /\ n = Matched(m, b, s))
    <3> HIDE DEF inside
    <3>1. ~inside => n = m
      BY DEF MatchOrders, inside
    <3>2. n = m \/ n = Matched(m, b, s)
      BY DEF MatchOrders, Matched, Fill
    <3> QED BY <3>1, <3>2
  <2> QED BY <2>1, <2>2
<1>2. CASE n = m
  BY <1>2 DEF Kept
<1>3. CASE n = Matched(m, b, s) /\ MockMidpoint(b.limitPrice, s.limitPrice) <= b.limitPrice
  <2>1. /\ MarketOK(n) /\ m.orders \ {b, s} \subseteq n.orders
        /\ (b.trader # Human /\ s.trader # Human) =>
             /\ n.bal[Human] = m.bal[Human]
             /\ \A i \in Labels : Mine(n, i) = Mine(m, i)
    BY <1>3, MatchedPreserves
  <2>2. b.trader = Human => b \in Mine(m, "quote")
    BY DEF Mine, Pair, Funds
  <2>3. s.trader = Human => s \in Mine(m, "base")
    BY DEF Mine, Pair, Funds
  <2>4. Kept(m, n)
    BY <2>1, <2>2, <2>3 DEF Kept, Labels
  <2> QED BY <2>1, <2>4
<1> QED BY <1>1, <1>2, <1>3

\* Where a pass over m may stand: the buys and sells it has still to consider
\* all rest.
Stands(m) == {w \in [m : Markets, buys : SUBSET MockOrders, sells : SUBSET MockOrders] :
                /\ MarketOK(w.m) /\ Kept(m, w.m)
                /\ w.buys \subseteq OnSide(w.m, "Buy") /\ w.sells \subseteq OnSide(w.m, "Sell")}

LEMMA NextBuyStands ==
  ASSUME NEW m, NEW w \in Stands(m), w.buys # {}, NEW v, v = NextBuy(w)
  PROVE  v \in Stands(m) /\ IsFiniteSet(w.buys) /\ Cardinality(v.buys) = Cardinality(w.buys) - 1
<1> DEFINE b == HighestFirst(w.buys)
           open == {o \in w.sells : o.trader # b.trader /\ b.limitPrice >= o.limitPrice}
           s == CheapestFirst(open)
           n == MatchOrders(w.m, b, s)
<1>1. /\ w \in [m : Markets, buys : SUBSET MockOrders, sells : SUBSET MockOrders]
      /\ MarketOK(w.m) /\ Kept(m, w.m)
      /\ \A o \in w.buys : o \in w.m.orders /\ o.side = "Buy"
      /\ \A o \in w.sells : o \in w.m.orders /\ o.side = "Sell"
  BY DEF Stands, OnSide
<1>2. IsFiniteSet(w.m.orders) /\ w.buys \subseteq w.m.orders /\ w.sells \subseteq w.m.orders
  BY <1>1 DEF MarketOK, Numbered
<1>3. IsFiniteSet(w.buys) /\ IsFiniteSet(open) /\ open \subseteq w.sells
  BY <1>2, FS_Subset
<1>4. w.buys \in SUBSET MockOrders /\ open \in SUBSET MockOrders
  BY <1>1, <1>3
<1>5. b \in w.buys
  BY <1>3, <1>4, FirstsExist
<1>6. Cardinality(w.buys \ {b}) = Cardinality(w.buys) - 1
  BY <1>3, <1>5, FS_RemoveElement
<1>7. CASE open = {}
  <2>1. v = [w EXCEPT !.buys = w.buys \ {b}]
    BY <1>7 DEF NextBuy
  <2> HIDE DEF b
  <2>2. v.m = w.m /\ v.sells = w.sells /\ v.buys = w.buys \ {b}
        /\ v \in [m : Markets, buys : SUBSET MockOrders, sells : SUBSET MockOrders]
    BY <1>1, <2>1
  <2>3. v \in Stands(m)
    BY <1>1, <2>2 DEF Stands, OnSide
  <2> QED BY <1>3, <1>6, <2>2, <2>3
<1>8. CASE open # {}
  <2>1. s \in open
    BY <1>3, <1>4, <1>8, FirstsExist
  <2>2. v = [m |-> n, buys |-> w.buys \ {b}, sells |-> w.sells \ {s}]
    BY <1>8 DEF NextBuy
  <2>3. Pair(w.m, b, s)
    <3>1. s \in w.sells /\ s.trader # b.trader /\ b.limitPrice >= s.limitPrice
      BY <2>1
    <3>2. b.limitPrice \in Nat /\ s.limitPrice \in Nat
      <4> HIDE DEF b, s, open
      <4> QED BY <1>1, <1>5, <3>1, OrdersNeed
    <3> HIDE DEF b, s, open
    <3> QED BY <1>1, <1>5, <3>1, <3>2 DEF Pair
  <2> HIDE DEF b, s, open
  <2>4. MarketOK(n) /\ w.m.orders \ {b, s} \subseteq n.orders /\ Kept(w.m, n)
    BY <1>1, <2>3, MatchOrdersKeeps
  <2> HIDE DEF n
  <2>5. Kept(m, n)
    BY <1>1, <2>4 DEF Kept
  <2>6. v.m = n /\ v.buys = w.buys \ {b} /\ v.sells = w.sells \ {s}
        /\ v \in [m : Markets, buys : SUBSET MockOrders, sells : SUBSET MockOrders]
    BY <1>1, <2>2, <2>4 DEF MarketOK
  <2>7. b.side = "Buy" /\ s.side = "Sell"
    BY <2>3 DEF Pair
  <2>8. v.buys \subseteq OnSide(n, "Buy") /\ v.sells \subseteq OnSide(n, "Sell")
    BY <1>1, <2>4, <2>6, <2>7 DEF OnSide
  <2>9. v \in Stands(m)
    BY <2>4, <2>5, <2>6, <2>8 DEF Stands
  <2> QED BY <1>3, <1>6, <2>6, <2>9
<1> QED BY <1>7, <1>8

LEMMA PassKeeps ==
  ASSUME NEW m, MarketOK(m)
  PROVE  MarketOK(MatchPass(m)) /\ Kept(m, MatchPass(m))
<1> DEFINE buys == OnSide(m, "Buy")
           N == Cardinality(buys)
           first == [m |-> m, buys |-> buys, sells |-> OnSide(m, "Sell")]
           V == Stands(m)
           Goes(f) == f = [n \in 0 .. N |-> IF n = 0 THEN first ELSE NextBuy(f[n - 1])]
           step == [n \in 1 .. N |-> [v \in V |-> IF v.buys = {} THEN v ELSE NextBuy(v)]]
<1>1. IsFiniteSet(buys) /\ N \in Nat
  <2>1. IsFiniteSet(m.orders) /\ buys \subseteq m.orders
    BY DEF MarketOK, Numbered, OnSide
  <2> QED BY <2>1, FS_Subset, FS_CardinalityType
<1>2. first \in V
  BY DEF Stands, MarketOK, Markets, OnSide, Kept
<1>3. Stepping(step, N, V)
  <2> HIDE DEF V
  <2>1. ASSUME NEW n \in 1 .. N, NEW v \in V PROVE step[n][v] \in V
    <3>1. v.buys # {} => NextBuy(v) \in V
      BY NextBuyStands DEF V
    <3> QED BY <3>1
  <2> QED BY <2>1 DEF Stepping
<1> HIDE DEF V
<1>4. PICK f : Walks(f, step, N, V, first)
  <2> HIDE DEF step, first, N
  <2> QED BY <1>1, <1>2, <1>3, StepsExist
<1> DEFINE Still(v, n) == v \in V /\ Cardinality(v.buys) = N - n
<1>5. ASSUME NEW n \in Nat, n < N, NEW v, Still(v, n)
      PROVE  v.buys # {} /\ Still(NextBuy(v), n + 1)
  <2>1. v.buys # {}
    <3>1. Cardinality(v.buys) # 0
      BY <1>1, <1>5
    <3> QED BY <3>1, FS_EmptySet
  <2>2. NextBuy(v) \in V /\ Cardinality(NextBuy(v).buys) = Cardinality(v.buys) - 1
    BY <1>5, <2>1, NextBuyStands DEF V
  <2> HIDE DEF N
  <2> QED BY <1>1, <1>5, <2>1, <2>2
<1>6. Still(first, 0)
  <2> HIDE DEF buys
  <2> QED BY <1>1, <1>2
<1> HIDE DEF Still, first, N, step
<1>7. Goes(f)
  <2> DEFINE T == {n \in Nat : n <= N => Still(f[n], n)}
  <2>1. 0 \in T
    BY <1>4, <1>6 DEF Walks
  <2>2. ASSUME NEW n \in Nat, n \in T PROVE n + 1 \in T
    <3>1. SUFFICES ASSUME n + 1 <= N PROVE Still(f[n + 1], n + 1)
      OBVIOUS
    <3>2. n < N /\ Still(f[n], n) /\ n + 1 \in 1 .. N /\ (n + 1) - 1 = n
      BY <1>1, <2>2, <3>1
    <3>3. f[n + 1] = step[n + 1][f[n]]
      BY <1>4, <3>2 DEF Walks
    <3>4. f[n] \in V /\ f[n].buys # {}
      BY <1>5, <3>2 DEF Still
    <3>5. f[n + 1] = NextBuy(f[n])
      BY <3>2, <3>3, <3>4 DEF step
    <3> QED BY <1>5, <3>2, <3>5
  <2>3. Nat \subseteq T
    <3> HIDE DEF T
    <3> QED BY <2>1, <2>2, SetInduction
  <2>4. ASSUME NEW n \in 1 .. N PROVE f[n] = NextBuy(f[n - 1])
    <3>1. n - 1 \in Nat /\ n - 1 < N /\ n - 1 <= N
      BY <1>1
    <3>2. Still(f[n - 1], n - 1)
      BY <2>3, <3>1
    <3>3. f[n - 1].buys # {} /\ f[n - 1] \in V
      BY <1>5, <3>1, <3>2 DEF Still
    <3>4. f[n] = step[n][f[n - 1]]
      BY <1>4 DEF Walks
    <3> QED BY <3>3, <3>4 DEF step
  <2>5. f \in [0 .. N -> V] /\ f[0] = first
    BY <1>4 DEF Walks
  <2>6. \A n \in 0 .. N : n = 0 \/ n \in 1 .. N
    BY <1>1
  <2> QED BY <2>4, <2>5, <2>6
<1> DEFINE pass == CHOOSE g : Goes(g)
<1>8. Goes(pass)
  <2> HIDE DEF Goes
  <2> QED BY <1>7
<1>9. MatchPass(m) = pass[N].m
  BY DEF MatchPass, first, N, buys
<1> HIDE DEF pass
<1>10. /\ \A n \in 1 .. N : pass[n] = NextBuy(pass[n - 1])
       /\ pass[0] = first
  <2>1. \A n \in 0 .. N : pass[n] = IF n = 0 THEN first ELSE NextBuy(pass[n - 1])
    BY <1>8
  <2>2. 0 \in 0 .. N /\ \A n \in 1 .. N : n \in 0 .. N /\ n # 0
    BY <1>1
  <2> QED BY <2>1, <2>2
<1> DEFINE T == {n \in Nat : n <= N => Still(pass[n], n)}
<1>11. 0 \in T
  BY <1>6, <1>10
<1>12. ASSUME NEW n \in Nat, n \in T PROVE n + 1 \in T
  <2>1. SUFFICES ASSUME n + 1 <= N PROVE Still(pass[n + 1], n + 1)
    OBVIOUS
  <2>2. n < N /\ Still(pass[n], n) /\ n + 1 \in 1 .. N /\ (n + 1) - 1 = n
    BY <1>1, <1>12, <2>1
  <2>3. pass[n + 1] = NextBuy(pass[n])
    BY <1>10, <2>2
  <2> QED BY <1>5, <2>2, <2>3
<1>13. Nat \subseteq T
  <2> HIDE DEF T
  <2> QED BY <1>11, <1>12, SetInduction
<1>14. pass[N] \in V
  <2>1. Still(pass[N], N)
    BY <1>1, <1>13
  <2> QED BY <2>1 DEF Still
<1> QED BY <1>9, <1>14 DEF V, Stands

-----------------------------------------------------------------------------
\* An order placed and an order cancelled

\* One adjustment of what somebody has declared.
LEMMA OneAdjustment ==
  ASSUME NEW m, MarketOK(m), NEW n \in Markets, NEW p \in Everyone, NEW i \in Labels,
         NEW d \in Int, Adjusts(n.bal, m.bal, p, i, 0, d),
         n.adjusts = m.adjusts + 1, n.fills = m.fills
  PROVE  /\ Balanced(n)
         /\ Drift(m) \in Nat /\ Drift(n) = Drift(m) + 2 * TickGap /\ 2 * TickGap <= Drift(n)
<1>1. m \in Markets /\ m.adjusts \in Nat /\ m.fills \in Nat /\ m.bal \in Balances /\ n.bal \in Balances
  BY DEF MarketOK, Markets
<1>2. Drift(m) \in Nat /\ Drift(n) = Drift(m) + 2 * TickGap
  <2>1. n.fills = m.fills + 0
    BY <1>1
  <2>2. Drift(n) = Drift(m) + 0 * One + 1 * (2 * TickGap)
    BY <1>1, <2>1, DriftGrows
  <2>3. 0 * One = 0 /\ 1 * (2 * TickGap) = 2 * TickGap /\ TickGap \in Nat
    BY GapFacts
  <2>4. Drift(m) \in Nat
    BY <1>1, DriftIs
  <2> HIDE DEF Drift
  <2> QED BY <2>2, <2>3, <2>4
<1>3. ASSUME NEW j \in Labels
      PROVE  2 * Size(Totals(n.bal, j) - SeedTotal * Cardinality(Everyone)) <= n.adjusts * AmountGap
  <2> DEFINE x == Totals(m.bal, j)
             y == Totals(n.bal, j)
             c == SeedTotal * Cardinality(Everyone)
  <2>1. x \in Int /\ y \in Int /\ c \in Int
    <3>1. SeedTotal \in Int /\ Cardinality(Everyone) \in Int
      BY MockAssumption, EveryoneIsFinite, FS_CardinalityType
    <3> QED BY <1>1, <3>1, HoldsAre, Product
  <2>2. 2 * x - 2 * y <= AmountGap /\ 2 * y - 2 * x <= AmountGap
    <3>1. CASE j = i
      <4>1. Near(y, x + 0)
        BY <3>1 DEF Adjusts
      <4> HIDE DEF x, y
      <4> QED BY <2>1, <4>1, GapFacts DEF Near
    <3>2. CASE j # i
      <4>1. y = x
        BY <3>2 DEF Adjusts
      <4> HIDE DEF x, y
      <4> QED BY <2>1, <4>1, GapFacts
    <3> QED BY <3>1, <3>2
  <2>3. 2 * Size(x - c) <= m.adjusts * AmountGap
    BY DEF MarketOK, Balanced
  <2> HIDE DEF x, y, c
  <2>4. 2 * x - 2 * y <= 1 * AmountGap /\ 2 * y - 2 * x <= 1 * AmountGap
    BY <2>2, GapFacts
  <2>5. 2 * Size(y - c) <= (m.adjusts + 1) * AmountGap
    BY <1>1, <2>1, <2>3, <2>4, BalanceDrifts
  <2> QED BY <2>5 DEF y, c
<1>4. 2 * TickGap <= Drift(n)
  <2> HIDE DEF Drift
  <2> QED BY <1>2, GapFacts
<1> QED BY <1>2, <1>3, <1>4 DEF Balanced

\* A gap that is left alone.
LEMMA GapKept ==
  ASSUME NEW x \in Int, NEW C \in Nat, NEW D \in Int, D = C + 2 * TickGap, Factor * x <= C
  PROVE  Factor * x <= D
<1>1. Factor * x \in Int
  BY GapFacts, Product
<1> QED BY <1>1, GapFacts

\* What Free allows to be declared stays below what is held.
LEMMA GapOfFree ==
  ASSUME NEW x \in Int, NEW D \in Int, 2 * TickGap <= D, 2 * x <= 3 * AmountGap
  PROVE  Factor * x <= D
<1>1. x <= 2 * AmountGap /\ AmountGap \in Int /\ Factor \in Nat
  BY GapFacts
<1>2. x * Factor <= (2 * AmountGap) * Factor
  BY <1>1, Scaled
<1>3. x * Factor = Factor * x /\ (2 * AmountGap) * Factor = 2 * TickGap
  BY <1>1, SMT DEF TickGap
<1>4. Factor * x \in Int /\ TickGap \in Nat
  BY GapFacts, Product
<1> QED BY <1>2, <1>3, <1>4

\* An order that placeOrder accepts needs no more than is free, as Free rounds it.
Fits(t, account) ==
  2 * MockRequired(t.side, t.quantity, t.limitPrice)
    <= 2 * (account.total - account.declared) + AmountGap

LEMMA TermsNeed ==
  ASSUME NEW t \in MockTerms
  PROVE  /\ MockRequired(t.side, t.quantity, t.limitPrice) \in Nat /\ Funds(t.side) \in Labels
<1>1. t.side \in {"Buy", "Sell"} /\ t.quantity \in Decimals /\ t.limitPrice \in 0 .. MaxPrice
  BY DEF MockTerms
<1>2. PICK k \in 0 .. MaxTicks : t.quantity = Decimal(k)
  BY <1>1 DEF Decimals
<1>3. k \in Nat
  BY GapFacts
<1>4. t.quantity \in Nat /\ t.limitPrice \in Nat
  BY <1>1, <1>2, <1>3, DecimalIsNear, GapFacts
<1> QED BY <1>1, <1>4, NeedNat DEF Funds, Labels

LEMMA ValidFits ==
  ASSUME NEW bal \in Balances, NEW t \in MockTerms,
         MockRequired(t.side, t.quantity, t.limitPrice) <= Free(bal, Human, Funds(t.side))
  PROVE  Fits(t, bal[Human][Funds(t.side)])
<1> DEFINE need == MockRequired(t.side, t.quantity, t.limitPrice)
           a == bal[Human][Funds(t.side)]
           x == a.total - a.declared
           free == Amount(x, 1)
<1>1. need \in Nat /\ Funds(t.side) \in Labels
  BY TermsNeed
<1>2. x \in Int
  <2>1. a.total \in Int /\ a.declared \in Int
    BY <1>1, EveryoneIsFinite, HoldsAre
  <2> QED BY <2>1
<1>3. need <= free
  BY DEF Free
<1> HIDE DEF need, x
<1>4. free \in Int /\ Near(free, x)
  BY <1>2, AmountIsNear
<1> HIDE DEF free
<1>5. 2 * need <= 2 * x + AmountGap
  BY <1>1, <1>2, <1>3, <1>4, GapFacts DEF Near
<1> QED BY <1>5 DEF Fits, need, x

LEMMA PushKeeps ==
  ASSUME NEW m, MarketOK(m), NEW p \in Everyone, NEW t \in MockTerms, NEW n, n = Push(m, p, t),
         p = Human => Fits(t, m.bal[Human][Funds(t.side)])
  PROVE  /\ MarketOK(n) /\ (p # Human => Kept(m, n))
         /\ \A i \in Labels : i # Funds(t.side) => n.bal[Human][i] = m.bal[Human][i]
<1> DEFINE o == MockOrder(m, p, t)
           i == Funds(t.side)
           need == Need(o)
<1>1. /\ m.orders \in SUBSET MockOrders /\ m.bal \in Balances /\ m.seq \in Nat
      /\ IsFiniteSet(m.orders) /\ \A q \in m.orders : q.id < m.seq
      /\ m = [orders |-> m.orders, bal |-> m.bal, seq |-> m.seq, adjusts |-> m.adjusts,
              fills |-> m.fills]
      /\ m.adjusts \in Nat /\ m.fills \in Nat
  BY DEF MarketOK, Markets, Numbered
<1>2. /\ o \in MockOrders /\ o.id = m.seq /\ o.trader = p /\ o.side = t.side
      /\ o.quantity = t.quantity /\ o.limitPrice = t.limitPrice
  BY <1>1 DEF MockOrder, MockTerms, MockOrders
<1>3. i \in Labels /\ need \in Nat /\ 0 \in Int
      /\ need = MockRequired(t.side, t.quantity, t.limitPrice)
  BY <1>2, OrdersNeed DEF Need
<1> HIDE DEF o
<1>4. /\ n.orders = m.orders \cup {o} /\ n.seq = m.seq + 1
      /\ n.bal = Adjust(m.bal, p, i, 0, 1 * need)
      /\ n.adjusts = m.adjusts + 1 /\ n.fills = m.fills
      /\ n = [orders |-> n.orders, bal |-> n.bal, seq |-> n.seq, adjusts |-> n.adjusts,
              fills |-> n.fills]
  <2>1. Declare(m.bal, o, 1) = Adjust(m.bal, p, i, 0, 1 * need)
    BY <1>2, <1>3 DEF Declare
  <2>2. n = [m EXCEPT !.orders = m.orders \cup {o}, !.bal = Declare(m.bal, o, 1),
                      !.seq = m.seq + 1, !.adjusts = m.adjusts + 1]
    BY DEF Push, o
  <2> HIDE DEF need, i
  <2> QED BY <1>1, <2>1, <2>2
<1> HIDE DEF need, i
<1>5. 1 * need = need
  BY <1>3, SMT
<1>6. Adjusts(n.bal, m.bal, p, i, 0, need)
  <2>1. need \in Int /\ n.bal = Adjust(m.bal, p, i, 0, need)
    BY <1>3, <1>4, <1>5
  <2>2. Adjusts(Adjust(m.bal, p, i, 0, need), m.bal, p, i, 0, need)
    BY <1>1, <1>3, <2>1, AdjustAdjusts
  <2> QED BY <2>1, <2>2
<1>7. o \notin m.orders
  BY <1>1, <1>2
<1>8. n \in Markets
  BY <1>1, <1>2, <1>4, <1>6 DEF Markets, Adjusts
<1>9. Numbered(n)
  <2>1. IsFiniteSet(n.orders)
    BY <1>1, <1>4, FS_AddElement
  <2>2. \A q \in m.orders : q.id \in Nat
    BY <1>1, OrdersNeed
  <2> QED BY <1>1, <1>2, <1>4, <2>1, <2>2 DEF Numbered
<1>10. /\ Balanced(n)
       /\ Drift(m) \in Nat /\ Drift(n) = Drift(m) + 2 * TickGap /\ 2 * TickGap <= Drift(n)
  BY <1>3, <1>4, <1>6, <1>8, OneAdjustment
<1>11. \A j \in Labels : Mine(n, j) = IF p = Human /\ j = i THEN Mine(m, j) \cup {o} ELSE Mine(m, j)
  BY <1>2, <1>4 DEF Mine, i
<1>12. ASSUME NEW j \in Labels
       PROVE  /\ Factor * (Needs(Mine(n, j)) - n.bal[Human][j].declared) <= Drift(n)
              /\ Factor * (n.bal[Human][j].declared - n.bal[Human][j].total) <= Drift(n)
  <2> DEFINE wt == m.bal[Human][j].total
             wd == m.bal[Human][j].declared
             nt == n.bal[Human][j].total
             nd == n.bal[Human][j].declared
             x == Needs(Mine(m, j))
             y == Needs(Mine(n, j))
  <2>1. Factor * (x - wd) <= Drift(m) /\ Factor * (wd - wt) <= Drift(m)
    BY DEF MarketOK, Covered
  <2>2. /\ wt \in Int /\ wd \in Int /\ nt \in Int /\ nd \in Int /\ x \in Nat /\ y \in Nat
        /\ Drift(n) \in Int /\ AmountGap \in Nat
    <3>1. wt \in Int /\ wd \in Int /\ nt \in Int /\ nd \in Int
      BY <1>1, <1>6, EveryoneIsFinite, HoldsAre DEF Adjusts
    <3>2. x \in Nat /\ y \in Nat
      BY <1>8, <1>9, MineNeeds DEF MarketOK
    <3>3. Drift(n) \in Int
      BY <1>8, DriftIs
    <3> QED BY <3>1, <3>2, <3>3, GapFacts
  <2>3. CASE p = Human /\ j = i
    <3>1. Mine(n, j) = Mine(m, j) \cup {o}
      BY <1>11, <2>3
    <3>2. y = x + need
      <4>1. /\ Mine(m, j) \in SUBSET MockOrders /\ IsFiniteSet(Mine(m, j))
        BY MineNeeds DEF MarketOK
      <4>2. o \notin Mine(m, j)
        BY <1>7 DEF Mine
      <4> QED BY <1>2, <3>1, <4>1, <4>2, NeedsAdd DEF need
    <3>3. Near(nt, wt + 0) /\ Near(nd, wd + need)
      BY <1>6, <2>3 DEF Adjusts
    <3>4. Fits(t, m.bal[Human][j])
      BY <2>3 DEF i
    <3>5. 2 * need <= 2 * (wt - wd) + AmountGap
      BY <1>3, <3>4 DEF Fits
    <3> HIDE DEF x, y, wt, wd, nt, nd
    <3>6. Factor * (y - nd) <= Drift(n)
      <4>1. x - wd \in Int /\ y - nd \in Int
        BY <2>2
      <4>2. 2 * (y - nd) <= 2 * (x - wd) + 2 * AmountGap
        BY <1>3, <2>2, <3>2, <3>3 DEF Near
      <4> QED BY <1>10, <2>1, <4>1, <4>2, GapByChange
    <3>7. Factor * (nd - nt) <= Drift(n)
      <4>1. nd - nt \in Int
        BY <2>2
      <4>2. 2 * (nd - nt) <= 3 * AmountGap
        BY <1>3, <2>2, <3>3, <3>5 DEF Near
      <4> QED BY <1>10, <2>2, <4>1, <4>2, GapOfFree
    <3> QED BY <3>6, <3>7 DEF y, nt, nd
  <2>4. CASE ~(p = Human /\ j = i)
    <3>1. Mine(n, j) = Mine(m, j)
      BY <1>11, <2>4
    <3>2. n.bal[Human][j] = m.bal[Human][j]
      BY <1>6, <2>4, EveryoneIsFinite DEF Adjusts
    <3>3. x = y /\ wt = nt /\ wd = nd
      BY <3>1, <3>2
    <3>4. x - wd \in Int /\ wd - wt \in Int
      BY <2>2
    <3> HIDE DEF x, y, wt, wd, nt, nd
    <3>5. Factor * (x - wd) <= Drift(n) /\ Factor * (wd - wt) <= Drift(n)
      BY <1>10, <2>1, <2>2, <3>4, GapKept
    <3> QED BY <3>3, <3>5 DEF y, nt, nd
  <2> QED BY <2>3, <2>4
<1>13. MarketOK(n)
  BY <1>8, <1>9, <1>10, <1>12 DEF MarketOK, Covered
<1>14. p # Human => Kept(m, n)
  BY <1>6, <1>11, EveryoneIsFinite DEF Kept, Adjusts
<1>15. \A j \in Labels : j # i => n.bal[Human][j] = m.bal[Human][j]
  BY <1>6, EveryoneIsFinite DEF Adjusts
<1> QED BY <1>13, <1>14, <1>15 DEF i

LEMMA CancelKeeps ==
  ASSUME NEW m, MarketOK(m), NEW o \in m.orders, o.trader = Human,
         NEW n, n = [m EXCEPT !.orders = @ \ {o}, !.bal = Declare(@, o, -1),
                            !.adjusts = @ + 1]
  PROVE  MarketOK(n)
<1> DEFINE i == Funds(o.side)
           need == Need(o)
<1>1. /\ m.orders \in SUBSET MockOrders /\ m.bal \in Balances /\ m.seq \in Nat
      /\ IsFiniteSet(m.orders) /\ \A q \in m.orders : q.id < m.seq
      /\ m = [orders |-> m.orders, bal |-> m.bal, seq |-> m.seq, adjusts |-> m.adjusts,
              fills |-> m.fills]
      /\ m.adjusts \in Nat /\ m.fills \in Nat
  BY DEF MarketOK, Markets, Numbered
<1>2. i \in Labels /\ need \in Nat /\ 0 \in Int /\ o \in MockOrders
  BY <1>1, OrdersNeed
<1>3. Declare(m.bal, o, -1) = Adjust(m.bal, Human, i, 0, (-1) * need)
  BY DEF Declare, Need
<1> HIDE DEF need, i
<1>4. (-1) * need = -need /\ -need \in Int
  BY <1>2, SMT
<1>5. /\ n.orders = m.orders \ {o} /\ n.seq = m.seq
      /\ n.bal = Adjust(m.bal, Human, i, 0, -need)
      /\ n.adjusts = m.adjusts + 1 /\ n.fills = m.fills
      /\ n = [orders |-> n.orders, bal |-> n.bal, seq |-> n.seq, adjusts |-> n.adjusts,
              fills |-> n.fills]
  BY <1>1, <1>3, <1>4
<1>6. Adjusts(n.bal, m.bal, Human, i, 0, -need)
  <2>1. Adjusts(Adjust(m.bal, Human, i, 0, -need), m.bal, Human, i, 0, -need)
    BY <1>1, <1>2, <1>4, AdjustAdjusts, EveryoneIsFinite
  <2> QED BY <1>5, <2>1
<1>7. n \in Markets
  BY <1>1, <1>5, <1>6 DEF Markets, Adjusts
<1>8. Numbered(n)
  <2>1. IsFiniteSet(n.orders)
    BY <1>1, <1>5, FS_RemoveElement
  <2> QED BY <1>1, <1>5, <2>1 DEF Numbered
<1>9. /\ Balanced(n)
      /\ Drift(m) \in Nat /\ Drift(n) = Drift(m) + 2 * TickGap /\ 2 * TickGap <= Drift(n)
  BY <1>2, <1>4, <1>5, <1>6, <1>7, OneAdjustment, EveryoneIsFinite
<1>10. \A j \in Labels : Mine(n, j) = IF j = i THEN Mine(m, j) \ {o} ELSE Mine(m, j)
  BY <1>5 DEF Mine, i
<1>11. ASSUME NEW j \in Labels
       PROVE  /\ Factor * (Needs(Mine(n, j)) - n.bal[Human][j].declared) <= Drift(n)
              /\ Factor * (n.bal[Human][j].declared - n.bal[Human][j].total) <= Drift(n)
  <2> DEFINE wt == m.bal[Human][j].total
             wd == m.bal[Human][j].declared
             nt == n.bal[Human][j].total
             nd == n.bal[Human][j].declared
             x == Needs(Mine(m, j))
             y == Needs(Mine(n, j))
  <2>1. Factor * (x - wd) <= Drift(m) /\ Factor * (wd - wt) <= Drift(m)
    BY DEF MarketOK, Covered
  <2>2. /\ wt \in Int /\ wd \in Int /\ nt \in Int /\ nd \in Int /\ x \in Nat /\ y \in Nat
        /\ Drift(n) \in Int /\ AmountGap \in Nat
    <3>1. wt \in Int /\ wd \in Int /\ nt \in Int /\ nd \in Int
      BY <1>1, <1>6, EveryoneIsFinite, HoldsAre DEF Adjusts
    <3>2. x \in Nat /\ y \in Nat
      BY <1>7, <1>8, MineNeeds DEF MarketOK
    <3>3. Drift(n) \in Int
      BY <1>7, DriftIs
    <3> QED BY <3>1, <3>2, <3>3, GapFacts
  <2>3. CASE j = i
    <3>1. Mine(n, j) = Mine(m, j) \ {o} /\ o \in Mine(m, j)
      BY <1>10, <2>3 DEF Mine, i
    <3>2. x = y + need
      <4>1. /\ Mine(n, j) \in SUBSET MockOrders /\ IsFiniteSet(Mine(n, j))
        BY <1>7, <1>8, MineNeeds
      <4>2. Mine(n, j) \cup {o} = Mine(m, j) /\ o \notin Mine(n, j)
        BY <3>1
      <4> QED BY <1>2, <4>1, <4>2, NeedsAdd DEF need
    <3>3. Near(nt, wt + 0) /\ Near(nd, wd + (-need))
      BY <1>6, <2>3 DEF Adjusts
    <3> HIDE DEF x, y, wt, wd, nt, nd
    <3>4. Factor * (y - nd) <= Drift(n)
      <4>1. x - wd \in Int /\ y - nd \in Int
        BY <2>2
      <4>2. 2 * (y - nd) <= 2 * (x - wd) + 2 * AmountGap
        BY <1>2, <2>2, <3>2, <3>3 DEF Near
      <4> QED BY <1>9, <2>1, <4>1, <4>2, GapByChange
    <3>5. Factor * (nd - nt) <= Drift(n)
      <4>1. wd - wt \in Int /\ nd - nt \in Int
        BY <2>2
      <4>2. 2 * (nd - nt) <= 2 * (wd - wt) + 2 * AmountGap
        BY <1>2, <2>2, <3>3 DEF Near
      <4> QED BY <1>9, <2>1, <4>1, <4>2, GapByChange
    <3> QED BY <3>4, <3>5 DEF y, nt, nd
  <2>4. CASE j # i
    <3>1. Mine(n, j) = Mine(m, j) /\ n.bal[Human][j] = m.bal[Human][j]
      BY <1>6, <1>10, <2>4 DEF Adjusts
    <3>2. x = y /\ wt = nt /\ wd = nd
      BY <3>1
    <3>3. x - wd \in Int /\ wd - wt \in Int
      BY <2>2
    <3> HIDE DEF x, y, wt, wd, nt, nd
    <3>4. Factor * (x - wd) <= Drift(n) /\ Factor * (wd - wt) <= Drift(n)
      BY <1>9, <2>1, <2>2, <3>3, GapKept
    <3> QED BY <3>2, <3>4 DEF y, nt, nd
  <2> QED BY <2>3, <2>4
<1> QED BY <1>7, <1>8, <1>9, <1>11 DEF MarketOK, Covered

-----------------------------------------------------------------------------
\* The market and the panels

\* Nobody has touched the trader's account.
Untouched(m) == \A i \in Labels : /\ Mine(m, i) = {}
                                  /\ m.bal[Human][i] = [total |-> SeedTotal, declared |-> 0]

\* Before the first look at the own rows the trader has only what it was given
\* and the panels have kept nothing.
MockInv ==
  /\ MarketOK(market) /\ seeded \in BOOLEAN
  /\ memo = [own |-> memo.own, book |-> memo.book]
  /\ ~seeded => Untouched(market) /\ memo.own = Stale
  /\ FreshPanels

LEMMA MockStarts == MockInit => MockInv
<1>1. SUFFICES ASSUME MockInit PROVE MockInv
  OBVIOUS
<1> DEFINE account == [total |-> SeedTotal, declared |-> 0]
<1>2. /\ market = [orders |-> SeedOrders, bal |-> [p \in Everyone |-> [i \in Labels |-> account]],
                   seq |-> 1 + Cardinality(SeedOrders), adjusts |-> 0, fills |-> 0]
      /\ seeded = FALSE /\ memo = [own |-> Stale, book |-> Stale]
  BY <1>1 DEF MockInit
<1>3. account \in Account /\ account.total = SeedTotal /\ account.declared = 0 /\ SeedTotal \in Nat
  BY MockAssumption DEF Account
<1> HIDE DEF account
<1>4. /\ IsFiniteSet(SeedOrders) /\ SeedOrders \subseteq MockOrders /\ Cardinality(SeedOrders) \in Nat
      /\ \A o \in SeedOrders : o.trader \in Sims /\ o.id <= Cardinality(SeedOrders)
      /\ Human \notin Sims
  BY MockAssumption, FS_CardinalityType
<1>5. market.bal \in Balances /\ \A p \in Everyone, i \in Labels : market.bal[p][i] = account
  BY <1>2, <1>3 DEF Balances
<1>6. market \in Markets
  <2>1. 1 + Cardinality(SeedOrders) \in Nat
    BY <1>4
  <2> QED BY <1>2, <1>4, <1>5, <2>1 DEF Markets
<1>7. Numbered(market)
  <2>1. \A o \in SeedOrders : o.id \in Nat
    BY <1>4, OrdersNeed
  <2> QED BY <1>2, <1>4, <2>1 DEF Numbered
<1>8. ASSUME NEW i \in Labels PROVE Totals(market.bal, i) = SeedTotal * Cardinality(Everyone)
  <2>1. Totals(market.bal, i) = Sum(Holds(market.bal, i), Everyone)
    BY <1>5, HoldsAre
  <2>2. \A p \in Everyone : Holds(market.bal, i)[p] = SeedTotal
    BY <1>3, <1>5 DEF Holds
  <2>3. SeedTotal \in Int
    BY <1>3
  <2>4. Sum(Holds(market.bal, i), Everyone) = SeedTotal * Cardinality(Everyone)
    BY <2>2, <2>3, EveryoneIsFinite, SumConstant
  <2> QED BY <2>1, <2>4
<1>9. \A i \in Labels : Mine(market, i) = {}
  BY <1>2, <1>4 DEF Mine
<1>10. Balanced(market)
  <2>1. SeedTotal * Cardinality(Everyone) \in Int
    <3>1. SeedTotal \in Int /\ Cardinality(Everyone) \in Int
      BY <1>3, EveryoneIsFinite, FS_CardinalityType
    <3> QED BY <3>1, Product
  <2>2. market.adjusts * AmountGap = 0
    <3>1. 0 * AmountGap = 0
      BY GapFacts
    <3> QED BY <1>2, <3>1
  <2>3. ASSUME NEW i \in Labels
        PROVE  2 * Size(Totals(market.bal, i) - SeedTotal * Cardinality(Everyone))
                 <= market.adjusts * AmountGap
    <3> DEFINE c == SeedTotal * Cardinality(Everyone)
    <3>1. Totals(market.bal, i) = c /\ c \in Int
      BY <1>8, <2>1
    <3> HIDE DEF c
    <3>2. Totals(market.bal, i) - c = 0
      BY <3>1
    <3>3. 2 * Size(0) <= 0
      BY DEF Size
    <3> QED BY <2>2, <3>2, <3>3 DEF c
  <2> QED BY <2>3 DEF Balanced
<1>11. Needs({}) = 0
  <2>1. IsFiniteSet({}) /\ \A o \in {} : Need(o) \in Int
    BY FS_EmptySet
  <2>2. Needs({}) = Sum(Weighs({}), {})
    BY <2>1, NeedsIsSum
  <2> QED BY <2>2, SumEmpty
<1>12. \A i \in Labels : market.bal[Human][i] = account
  BY <1>5, EveryoneIsFinite
<1>13. Covered(market)
  <2>1. Drift(market) \in Nat
    BY <1>6, DriftIs
  <2>2. Factor * 0 = 0 /\ Factor * (0 - SeedTotal) <= 0
    <3>1. 0 - SeedTotal \in Int /\ 0 - SeedTotal <= 0 /\ Factor \in Nat
      BY <1>3, GapFacts
    <3>2. (0 - SeedTotal) * Factor <= 0 * Factor
      BY <3>1, Scaled
    <3>3. (0 - SeedTotal) * Factor = Factor * (0 - SeedTotal) /\ 0 * Factor = 0 /\ Factor * 0 = 0
      BY <3>1, SMT
    <3> QED BY <3>2, <3>3
  <2>3. Factor * (0 - SeedTotal) \in Int
    <3>1. Factor \in Int /\ 0 - SeedTotal \in Int
      BY <1>3, GapFacts
    <3> QED BY <3>1, Product
  <2>4. \A i \in Labels : /\ Needs(Mine(market, i)) = 0 /\ market.bal[Human][i].declared = 0
                          /\ market.bal[Human][i].total = SeedTotal
    BY <1>3, <1>9, <1>11, <1>12
  <2>5. 0 - 0 = 0
    OBVIOUS
  <2>6. ASSUME NEW i \in Labels
        PROVE  /\ Factor * (Needs(Mine(market, i)) - market.bal[Human][i].declared) <= Drift(market)
               /\ Factor * (market.bal[Human][i].declared - market.bal[Human][i].total)
                    <= Drift(market)
    <3> HIDE DEF Drift
    <3>1. Factor * (0 - 0) <= Drift(market) /\ Factor * (0 - SeedTotal) <= Drift(market)
      BY <2>1, <2>2, <2>3, <2>5
    <3> QED BY <2>4, <3>1
  <2> QED BY <2>6 DEF Covered
<1>14. Untouched(market)
  BY <1>9, <1>12 DEF Untouched, account
<1>15. FreshPanels
  BY <1>2 DEF FreshPanels, Stale
<1> QED BY <1>2, <1>6, <1>7, <1>8, <1>10, <1>13, <1>14, <1>15 DEF MockInv, MarketOK

\* The demo orders fit what a new trader has, and are given only to it.
LEMMA EnsuredKeeps ==
  ASSUME MockInv
  PROVE  MarketOK(Ensured) /\ (seeded => Ensured = market)
<1>1. seeded => Ensured = market
  BY DEF Ensured
<1>2. CASE seeded
  BY <1>1, <1>2 DEF MockInv
<1>3. CASE ~seeded
  <2> DEFINE one == Push(market, Human, DemoTerms[1])
             two == Push(one, Human, DemoTerms[2])
  <2>1. Ensured = two
    BY <1>3 DEF Ensured
  <2>2. MarketOK(market) /\ Untouched(market) /\ SeedTotal \in Nat
    BY <1>3, MockAssumption DEF MockInv
  <2>3. /\ DemoTerms[1] \in MockTerms /\ Funds(DemoTerms[1].side) = "quote"
        /\ DemoTerms[2] \in MockTerms /\ Funds(DemoTerms[2].side) = "base"
    BY DemoAssumption DEF Funds
  <2>4. ASSUME NEW a, a = [total |-> SeedTotal, declared |-> 0], NEW k \in 1 .. 2
        PROVE  Fits(DemoTerms[k], a)
    <3> DEFINE t == DemoTerms[k]
               need == MockRequired(t.side, t.quantity, t.limitPrice)
    <3>1. need <= SeedTotal /\ need \in Nat
      <4>1. t \in MockTerms /\ need <= SeedTotal
        BY DemoAssumption
      <4>2. need \in Nat
        BY <4>1, TermsNeed
      <4> QED BY <4>1, <4>2
    <3>2. a.total = SeedTotal /\ a.declared = 0
      BY <2>4
    <3> HIDE DEF need
    <3>3. 2 * need <= 2 * (a.total - a.declared) + AmountGap
      BY <2>2, <3>1, <3>2, GapFacts
    <3> QED BY <3>3 DEF Fits, need
  <2> HIDE DEF one
  <2>5. MarketOK(one) /\ one.bal[Human]["base"] = market.bal[Human]["base"]
    <3>1. one = Push(market, Human, DemoTerms[1])
      BY DEF one
    <3>2. "base" \in Labels /\ "base" # "quote"
      BY DEF Labels
    <3>3. Fits(DemoTerms[1], market.bal[Human]["quote"])
      BY <2>2, <2>4 DEF Untouched, Labels
    <3> QED BY <2>2, <2>3, <3>1, <3>2, <3>3, EveryoneIsFinite, PushKeeps
  <2>6. Fits(DemoTerms[2], one.bal[Human]["base"])
    BY <2>2, <2>4, <2>5 DEF Untouched, Labels
  <2>7. MarketOK(two)
    BY <2>3, <2>5, <2>6, EveryoneIsFinite, PushKeeps
  <2> QED BY <1>3, <2>1, <2>7
<1> QED BY <1>2, <1>3 DEF MockInv

LEMMA MockStep == MockInv /\ [MockNext]_mockVars => MockInv'
<1>1. SUFFICES ASSUME MockInv, [MockNext]_mockVars PROVE MockInv'
  OBVIOUS
<1>2. /\ MarketOK(market) /\ seeded \in BOOLEAN
      /\ memo = [own |-> memo.own, book |-> memo.book]
      /\ ~seeded => Untouched(market) /\ memo.own = Stale
      /\ memo.own \subseteq {Own(market)}
  BY <1>1 DEF MockInv, FreshPanels
<1>3. MarketOK(Ensured) /\ (seeded => Ensured = market)
  BY <1>1, EnsuredKeeps
<1>4. CASE ReadOwn
  <2>1. market' = Ensured /\ seeded' = TRUE
        /\ memo' = [memo EXCEPT !.own = IF @ = Stale THEN {Own(market')} ELSE @]
    BY <1>4 DEF ReadOwn
  <2>2. memo' = [own |-> IF memo.own = Stale THEN {Own(market')} ELSE memo.own, book |-> memo.book]
    BY <1>2, <2>1
  <2>3. memo'.own \subseteq {Own(market')}
    BY <1>2, <1>3, <2>1, <2>2
  <2> QED BY <1>3, <2>1, <2>2, <2>3 DEF MockInv, FreshPanels
<1>5. CASE ReadBook
  BY <1>2, <1>5 DEF ReadBook, MockInv, FreshPanels
<1>6. CASE UNCHANGED mockVars
  BY <1>1, <1>6 DEF mockVars, MockInv, FreshPanels
<1>7. ASSUME Notify, MarketOK(market'), seeded' \in BOOLEAN, ~seeded' => Untouched(market')
      PROVE  MockInv'
  BY <1>7 DEF Notify, MockInv, FreshPanels, Stale
<1>8. ASSUME NEW m, MarketOK(m), seeded' = seeded, NotifyIf(market' # market),
             market' = MatchPass(m), ~seeded => Untouched(m)
      PROVE  MockInv'
  <2>1. MarketOK(market') /\ Kept(m, market')
    BY <1>8, PassKeeps
  <2>2. ~seeded => Untouched(market')
    BY <1>8, <2>1 DEF Untouched, Kept
  <2>3. CASE market' # market
    BY <1>2, <1>7, <1>8, <2>1, <2>2, <2>3 DEF NotifyIf
  <2>4. CASE market' = market
    BY <1>1, <1>8, <2>4 DEF NotifyIf, MockInv, FreshPanels
  <2> QED BY <2>3, <2>4
<1>9. CASE RunMatchPass
  BY <1>2, <1>8, <1>9 DEF RunMatchPass
<1>10. ASSUME NEW t \in HumanTerms, PlaceMock(t) PROVE MockInv'
  <2>1. t \in MockTerms
    BY MockAssumption
  <2>2. CASE ValidOrder(Ensured.bal, Human, t)
    <3>1. market' = Push(Ensured, Human, t) /\ Notify /\ seeded' = TRUE
      BY <1>10, <2>2 DEF PlaceMock
    <3>2. Fits(t, Ensured.bal[Human][Funds(t.side)])
      <4>1. Ensured.bal \in Balances
        BY <1>3 DEF MarketOK, Markets
      <4>2. MockRequired(t.side, t.quantity, t.limitPrice) <= Free(Ensured.bal, Human, Funds(t.side))
        BY <2>2 DEF ValidOrder
      <4> QED BY <2>1, <4>1, <4>2, ValidFits
    <3>3. MarketOK(market')
      BY <1>3, <2>1, <3>1, <3>2, PushKeeps, EveryoneIsFinite
    <3> QED BY <1>7, <3>1, <3>3
  <2>3. CASE ~ValidOrder(Ensured.bal, Human, t)
    <3>1. market' = Ensured /\ UNCHANGED memo /\ seeded' = TRUE
      BY <1>10, <2>3 DEF PlaceMock
    <3> QED BY <1>2, <1>3, <3>1 DEF MockInv, FreshPanels, Stale
  <2> QED BY <2>2, <2>3
<1>11. ASSUME NEW o \in market.orders, CancelMock(o) PROVE MockInv'
  <2>1. /\ o.trader = Human /\ Notify /\ seeded' = seeded
        /\ market' = [market EXCEPT !.orders = @ \ {o}, !.bal = Declare(@, o, -1),
                                     !.adjusts = @ + 1]
    BY <1>11 DEF CancelMock
  <2>2. MarketOK(market')
    BY <1>2, <2>1, CancelKeeps
  <2>3. seeded
    <3>1. o \in Mine(market, Funds(o.side)) /\ o \in MockOrders
      BY <1>2, <2>1 DEF Mine, MarketOK, Markets
    <3> QED BY <1>2, <3>1, OrdersNeed DEF Untouched
  <2> QED BY <1>2, <1>7, <2>1, <2>2, <2>3
<1>12. ASSUME NEW p \in Sims, NEW t \in SimTerms, SimTick(p, t) PROVE MockInv'
  <2> DEFINE placed == IF ValidOrder(market.bal, p, t) THEN Push(market, p, t) ELSE market
  <2>1. market' = MatchPass(placed) /\ NotifyIf(market' # market) /\ seeded' = seeded
    BY <1>12 DEF SimTick
  <2>2. t \in MockTerms /\ p \in Everyone /\ p # Human
    BY MockAssumption DEF Everyone
  <2>3. MarketOK(Push(market, p, t)) /\ Kept(market, Push(market, p, t))
    BY <1>2, <2>2, PushKeeps
  <2>4. MarketOK(placed) /\ Kept(market, placed)
    BY <1>2, <2>3 DEF Kept
  <2> HIDE DEF placed
  <2>5. ~seeded => Untouched(placed)
    BY <1>2, <2>4 DEF Kept, Untouched
  <2> QED BY <1>8, <2>1, <2>4, <2>5
<1> QED BY <1>1, <1>4, <1>5, <1>6, <1>9, <1>10, <1>11, <1>12 DEF MockNext

\* The inductive invariant of the browser's own market, for any traders, terms
\* and length of a pass.
THEOREM MarketInvariance == ClientsSpec => []MockInv
<1>1. ClientsInit => MockInv
  BY MockStarts DEF ClientsInit
<1>2. MockInv /\ [ClientsNext]_clientsVars => MockInv'
  BY MockStep DEF ClientsNext, clientsVars
<1> QED BY <1>1, <1>2, PTL DEF ClientsSpec

\* Passes, settlements and counterparties move value between the traders of the
\* browser's own market and make none, but for what its doubles round: half a
\* spacing for each change of a balance.
THEOREM MarketConserves == ClientsSpec => []MockConserves
<1>1. MockInv => MockConserves
  BY DEF MockInv, MarketOK, Balanced, MockConserves, AmountGap
<1> QED BY <1>1, MarketInvariance, PTL

\* However its orders are filled in parts, the trader has declared enough for
\* all that rest, and no more than it holds, but for the drift of the floors and
\* the doubles: a tick for each fill and two spacings for each change of a
\* balance.  Without the drift the code does fall short: 10 @ 2.7 with a fill of
\* 8 leaves 5.399999999999999 declared for 2 @ 2.7.
THEOREM MarketCoversOrders == ClientsSpec => []DeclaredCovers
<1>1. MockInv => DeclaredCovers
  BY DEF MockInv, MarketOK, Covered, DeclaredCovers, Mine
<1> QED BY <1>1, MarketInvariance, PTL

\* What the own panels keep is the trader's present orders and balances: every
\* change that reaches them notifies.
THEOREM PanelsAreFresh == ClientsSpec => []FreshPanels
<1>1. MockInv => FreshPanels
  BY DEF MockInv
<1> QED BY <1>1, MarketInvariance, PTL

-----------------------------------------------------------------------------
\* The wallet connection

PCs == Waiting \cup {"idle", "done"}

AttemptRecords == [pc : PCs, mode : Modes]

KitRecords == [status : {"idle", "connecting", "connected", "disconnected"},
               client : Attempts \cup {None}, party : Accounts \cup {None},
               isLocked : BOOLEAN, pairingUri : BOOLEAN, connectError : BOOLEAN]

BarRecords == [reconnecting : BOOLEAN, connectToastPending : BOOLEAN,
               key : BOOLEAN, wants : {"in", "out"}]

\* What a step of one attempt leaves of the others.
LEMMA GotoMoves ==
  ASSUME attempt \in [Attempts -> AttemptRecords], NEW a \in Attempts,
         NEW pc \in PCs, Goto(a, pc)
  PROVE  /\ attempt' \in [Attempts -> AttemptRecords]
         /\ attempt'[a].pc = pc
         /\ \A b \in Attempts \ {a} : attempt'[b] = attempt[b]
BY DEF Goto, AttemptRecords

LEMMA LandedBar ==
  ASSUME NEW b \in BarRecords, NEW p
  PROVE  /\ Landed(b, p) \in BarRecords
         /\ Landed(b, p).reconnecting = b.reconnecting
         /\ Landed(b, p).key = b.key
         /\ Landed(b, p).wants = b.wants
         /\ Landed(b, p).connectToastPending => b.connectToastPending
BY DEF Landed, BarRecords

LEMMA ConnectInitInv == Init => ConnectInv
BY DEF Init, ConnectInv, ConnectTypeOK, OneAttempt, ConnectedIsUsable, OneListener,
       RespectsTheUser, InitialKit, InitialBar, Idle, Waiting, Modes

\* An attempt that is still waiting after a step, and moves only the bridges.
LEMMA WaitsOn ==
  ASSUME ConnectInv, NEW a \in Attempts, NEW pc \in Waiting \ {"detect"},
         attempt[a].pc \in Waiting, Goto(a, pc),
         bridges' \in Nat, host = "app" => bridges' <= 1,
         UNCHANGED <<host, teardownRef, listening, late, bar>>,
         kit' \in KitRecords, kit'.status = kit.status, kit'.client = kit.client
  PROVE  ConnectInv'
<1>1. ConnectTypeOK'
  BY GotoMoves DEF ConnectInv, ConnectTypeOK, AttemptRecords, PCs, KitRecords
<1>2. OneAttempt'
  BY GotoMoves DEF ConnectInv, ConnectTypeOK, AttemptRecords, PCs, OneAttempt, Waiting
<1>3. ConnectedIsUsable' /\ OneListener' /\ RespectsTheUser'
  BY DEF ConnectInv, ConnectedIsUsable, OneListener, RespectsTheUser
<1> QED
  BY <1>1, <1>2, <1>3 DEF ConnectInv

\* The call of connect ends: connected or not, and not in between.
LEMMA Ends ==
  ASSUME ConnectInv, NEW a \in Attempts, attempt[a].pc \in Waiting, Goto(a, "done"),
         UNCHANGED <<host, late, bridges>>, kit' \in KitRecords, bar' \in BarRecords,
         teardownRef' \in Attempts \cup {None}, listening' \subseteq Attempts,
         kit'.status \in {"connected", "disconnected"},
         kit'.status = "connected" =>
           /\ kit'.client \in listening' /\ teardownRef' = kit'.client
           /\ listening' = listening \cup {kit'.client},
         kit'.status = "disconnected" => listening' = listening,
         host = "app" => ~bar'.reconnecting /\ ~bar'.connectToastPending
                         /\ (bar'.key => bar'.wants = "in")
  PROVE  ConnectInv'
<1>1. ConnectTypeOK'
  BY GotoMoves DEF ConnectInv, ConnectTypeOK, AttemptRecords, PCs, KitRecords, BarRecords
<1>2. OneAttempt'
  BY GotoMoves DEF ConnectInv, ConnectTypeOK, AttemptRecords, PCs, OneAttempt, Waiting
<1>3. OneListener'
  BY DEF ConnectInv, OneListener, OneAttempt
<1>4. ConnectedIsUsable' /\ RespectsTheUser'
  BY DEF ConnectedIsUsable, RespectsTheUser
<1> QED
  BY <1>1, <1>2, <1>3, <1>4 DEF ConnectInv

\* connect() and its answers.
LEMMA AnsweredInv ==
  ASSUME ConnectInv, NEW a \in Attempts, Answered(a)
  PROVE  ConnectInv'
<1> USE DEF Waiting
<1>1. CASE Detected(a)
  BY <1>1, WaitsOn DEF Detected, ConnectInv, ConnectTypeOK, OneAttempt, KitRecords
<1>2. CASE FallBack(a)
  BY <1>2, WaitsOn DEF FallBack, ConnectInv, ConnectTypeOK, OneListener, KitRecords
<1>3. CASE Pairing(a)
  <2>1. kit' \in KitRecords /\ kit'.status = kit.status /\ kit'.client = kit.client
    BY <1>3 DEF Pairing, ConnectInv, ConnectTypeOK, KitRecords
  <2> QED
    BY <1>3, <2>1, WaitsOn DEF Pairing, ConnectInv, ConnectTypeOK, OneListener
<1>4. CASE Accepted(a)
  BY <1>4, WaitsOn DEF Accepted, ConnectInv, ConnectTypeOK, OneListener, KitRecords
<1>5. CASE NoAccounts(a)
  BY <1>5, WaitsOn DEF NoAccounts, ConnectInv, ConnectTypeOK, OneListener, KitRecords
<1>6. CASE Fails(a)
  <2>1. kit' \in KitRecords /\ kit'.status = "disconnected"
    BY <1>6 DEF Fails, ConnectInv, ConnectTypeOK, KitRecords
  <2>2. /\ bar' \in BarRecords /\ ~bar'.reconnecting /\ ~bar'.connectToastPending
        /\ bar'.key => bar.key
        /\ bar'.wants = bar.wants
    BY <1>6 DEF Fails, ConnectInv, ConnectTypeOK, BarRecords
  <2> QED
    BY <1>6, <2>1, <2>2, Ends
    DEF Fails, ConnectInv, ConnectTypeOK, RespectsTheUser
<1>7. ASSUME NEW p \in Accounts, Connected(a, p) PROVE ConnectInv'
  <2>1. kit' \in KitRecords /\ kit'.status = "connected" /\ kit'.client = a
    BY <1>7 DEF Connected, ConnectInv, ConnectTypeOK, KitRecords
  <2>2. CASE host = "app"
    <3>1. /\ bar' \in BarRecords /\ ~bar'.reconnecting
          /\ ~bar'.connectToastPending /\ bar'.wants = bar.wants
      <4>1. p # None
        BY ConnectAssumption
      <4> QED
        BY <1>7, <2>2, <4>1 DEF Connected, Landed, ConnectInv, ConnectTypeOK, BarRecords
    <3>2. bar.wants = "in"
      BY <1>7, <2>2 DEF Connected, ConnectInv, OneAttempt
    <3> QED
      BY <1>7, <2>1, <2>2, <3>1, <3>2, Ends
      DEF Connected, Wired, ConnectInv, ConnectTypeOK
  <2>3. CASE host # "app"
    BY <1>7, <2>1, <2>3, Ends
    DEF Connected, Wired, ConnectInv, ConnectTypeOK, BarRecords
  <2> QED
    BY <2>2, <2>3
<1> QED
  BY <1>1, <1>2, <1>3, <1>4, <1>5, <1>6, <1>7 DEF Answered

\* connect() is called: its guard keeps a second attempt from starting.
LEMMA BeginInv ==
  ASSUME ConnectInv, NEW a \in Attempts, NEW mode \in Modes, Begin(a, mode, kit),
         UNCHANGED <<host, teardownRef, listening, late, bridges>>,
         bar' \in BarRecords,
         host = "app" => /\ kit.status # "connected" /\ ~bar'.reconnecting
                         /\ bar'.wants = "in"
  PROVE  ConnectInv'
<1>1. /\ kit' \in KitRecords /\ kit'.status = "connecting"
      /\ kit.status # "connecting"
  BY DEF Begin, ConnectInv, ConnectTypeOK, KitRecords
<1> DEFINE pc == CASE mode = "walletconnect" -> "pair"
                   [] bridges > 0 -> "request" [] OTHER -> "detect"
           r == [pc |-> pc, mode |-> mode]
<1>2. pc \in Waiting /\ (pc = "detect" => ~(bridges > 0))
  BY DEF Waiting
<1>3. attempt' = [attempt EXCEPT ![a] = r]
  BY DEF Begin
<1> HIDE DEF pc
<1>4. r \in AttemptRecords /\ r.pc = pc
  BY <1>2 DEF AttemptRecords, PCs
<1> HIDE DEF r
<1>5. /\ attempt' \in [Attempts -> AttemptRecords]
      /\ attempt'[a].pc = pc
      /\ \A b \in Attempts \ {a} : attempt'[b] = attempt[b]
  BY <1>3, <1>4 DEF ConnectInv, ConnectTypeOK, AttemptRecords, PCs
<1>6. ConnectTypeOK'
  BY <1>1, <1>5 DEF ConnectInv, ConnectTypeOK, AttemptRecords, PCs, KitRecords, BarRecords
<1>7. OneAttempt'
  BY <1>1, <1>2, <1>5 DEF ConnectInv, ConnectTypeOK, OneAttempt
<1>8. ConnectedIsUsable' /\ OneListener' /\ RespectsTheUser'
  BY <1>1 DEF ConnectInv, ConnectedIsUsable, OneListener, RespectsTheUser
<1> QED
  BY <1>6, <1>7, <1>8 DEF ConnectInv

\* Nothing of the attempts, only what is known of the wallet.
LEMMA WalletPushesInv ==
  ASSUME ConnectInv, NEW a \in Attempts, WalletPushes(a)
  PROVE  ConnectInv'
<1>1. /\ kit' \in KitRecords /\ kit'.status = kit.status /\ kit'.client = kit.client
      /\ bar' \in BarRecords /\ late' \subseteq Attempts
      /\ UNCHANGED <<host, attempt, teardownRef, listening, bridges>>
      /\ bar'.reconnecting = bar.reconnecting /\ bar'.key = bar.key
      /\ bar'.wants = bar.wants
      /\ bar'.connectToastPending => bar.connectToastPending
  <2> USE DEF ConnectInv, ConnectTypeOK, KitRecords
  <2>1. kit \in KitRecords /\ bar \in BarRecords /\ late \subseteq Attempts
    BY DEF BarRecords
  <2>2. CASE UNCHANGED <<host, attempt, kit, teardownRef, listening, bridges, bar>>
             /\ late' \subseteq Attempts
    BY <2>1, <2>2
  <2>3. ASSUME NEW p \in Accounts \cup {None}, SetParty(p), late' \subseteq Attempts
        PROVE  <1>1!:
    BY <2>1, <2>3, LandedBar DEF SetParty
  <2>4. CASE AccountsChanged(a)
    BY <2>1, <2>2, <2>3, <2>4 DEF AccountsChanged
  <2>5. CASE LateAccounts(a)
    BY <2>1, <2>2, <2>3, <2>5 DEF LateAccounts
  <2>6. CASE StatusChanged(a)
    BY <2>1, <2>6 DEF StatusChanged
  <2> QED
    BY <2>4, <2>5, <2>6 DEF WalletPushes
<1>2. ConnectTypeOK'
  BY <1>1 DEF ConnectInv, ConnectTypeOK, KitRecords, BarRecords
<1>3. OneAttempt'
  BY <1>1 DEF ConnectInv, OneAttempt
<1>4. ConnectedIsUsable' /\ OneListener' /\ RespectsTheUser'
  BY <1>1 DEF ConnectInv, ConnectedIsUsable, OneListener, RespectsTheUser
<1> QED
  BY <1>2, <1>3, <1>4 DEF ConnectInv

\* In the app an attempt that is under way blocks the button, so none is
\* left to end after a disconnect.
LEMMA DisconnectInv ==
  ASSUME ConnectInv, Disconnect, bar' \in BarRecords,
         host = "app" => /\ kit.status = "connected"
                         /\ ~bar'.reconnecting /\ ~bar'.connectToastPending
                         /\ ~bar'.key
  PROVE  ConnectInv'
<1>1. kit' \in KitRecords /\ kit'.status = "disconnected"
  BY DEF Disconnect, InitialKit, KitRecords
<1>2. ConnectTypeOK'
  BY <1>1 DEF Disconnect, ConnectInv, ConnectTypeOK, KitRecords, BarRecords
<1>3. OneAttempt'
  BY <1>1 DEF Disconnect, ConnectInv, OneAttempt
<1>4. OneListener'
  BY <1>1 DEF Disconnect, ConnectInv, ConnectedIsUsable, OneListener
<1>5. ConnectedIsUsable' /\ RespectsTheUser'
  BY <1>1 DEF Disconnect, ConnectedIsUsable, RespectsTheUser
<1> QED
  BY <1>2, <1>3, <1>4, <1>5 DEF ConnectInv

\* Whatever was under way is gone with the page.
LEMMA ReloadInv ==
  ASSUME ConnectInv, NEW a \in Attempts, Reload(a)
  PROVE  ConnectInv'
<1> DEFINE gone == [b \in Attempts |-> IF attempt[b].pc = "idle" THEN Idle
                                       ELSE [attempt[b] EXCEPT !.pc = "done"]]
<1>1. /\ gone \in [Attempts -> AttemptRecords]
      /\ \A b \in Attempts : gone[b].pc \in {"idle", "done"}
  <2>1. ASSUME NEW b \in Attempts
        PROVE  gone[b] \in AttemptRecords /\ gone[b].pc \in {"idle", "done"}
    BY DEF ConnectInv, ConnectTypeOK, AttemptRecords, PCs, Idle, Modes
  <2> QED
    BY <2>1
<1>2. /\ UNCHANGED host
      /\ teardownRef' = None /\ listening' = {} /\ late' = {} /\ bridges' = 0
  BY DEF Reload
<1>3. /\ bar' \in BarRecords /\ bar'.reconnecting = bar.key
      /\ ~bar'.connectToastPending /\ bar'.key = bar.key /\ bar'.wants = bar.wants
  BY DEF Reload, ConnectInv, ConnectTypeOK, BarRecords
<1>4. CASE bar.key
  <2>1. attempt' = [gone EXCEPT ![a].pc = "detect"]
    BY <1>4 DEF Reload
  <2> HIDE DEF gone
  <2>2. /\ attempt' \in [Attempts -> AttemptRecords]
        /\ attempt'[a].pc = "detect"
        /\ \A b \in Attempts \ {a} : attempt'[b].pc \in {"idle", "done"}
    BY <1>1, <2>1 DEF AttemptRecords, PCs, Waiting
  <2>3. kit' \in KitRecords /\ kit'.status = "connecting"
    BY <1>4 DEF Reload, InitialKit, KitRecords
  <2>4. ConnectTypeOK'
    BY <1>2, <1>3, <2>2, <2>3
    DEF ConnectInv, ConnectTypeOK, AttemptRecords, PCs, KitRecords, BarRecords
  <2>5. OneAttempt'
    BY <1>2, <1>3, <1>4, <2>2, <2>3 DEF ConnectInv, OneAttempt, RespectsTheUser, Waiting
  <2>6. ConnectedIsUsable' /\ OneListener' /\ RespectsTheUser'
    BY <1>2, <1>3, <2>3
    DEF ConnectInv, ConnectedIsUsable, OneListener, RespectsTheUser
  <2> QED
    BY <2>4, <2>5, <2>6 DEF ConnectInv
<1>5. CASE ~bar.key
  <2>1. attempt' = gone
    BY <1>5 DEF Reload
  <2> HIDE DEF gone
  <2>2. kit' \in KitRecords /\ kit'.status = "idle"
    <3>1. kit' = InitialKit
      BY <1>5 DEF Reload
    <3> QED
      BY <3>1 DEF InitialKit, KitRecords
  <2>3. ConnectTypeOK'
    BY <1>1, <1>2, <1>3, <2>1, <2>2
    DEF ConnectInv, ConnectTypeOK, AttemptRecords, PCs, KitRecords, BarRecords
  <2>4. OneAttempt'
    BY <1>1, <1>2, <1>3, <1>5, <2>1, <2>2 DEF OneAttempt, Waiting
  <2>5. ConnectedIsUsable' /\ OneListener' /\ RespectsTheUser'
    BY <1>2, <1>3, <1>5, <2>2 DEF ConnectedIsUsable, OneListener, RespectsTheUser
  <2> QED
    BY <2>3, <2>4, <2>5 DEF ConnectInv
<1> QED
  BY <1>4, <1>5

LEMMA ConnectStepInv == ConnectInv /\ [Next]_vars => ConnectInv'
<1> SUFFICES ASSUME ConnectInv, [Next]_vars PROVE ConnectInv'
  OBVIOUS
<1>1. bar \in BarRecords
  BY DEF ConnectInv, ConnectTypeOK, BarRecords
<1>2. CASE OnDisconnect
  <2>1. /\ bar' \in BarRecords /\ ~bar'.connectToastPending /\ ~bar'.key
        /\ bar'.reconnecting = bar.reconnecting
    BY <1>1, <1>2 DEF OnDisconnect, BarRecords
  <2> QED
    BY <1>2, <2>1, DisconnectInv DEF OnDisconnect, ConnectInv, OneAttempt
<1>3. CASE ConsumerDisconnects
  BY <1>1, <1>3, DisconnectInv DEF ConsumerDisconnects
<1>4. ASSUME NEW a \in Attempts, OnConnect(a) PROVE ConnectInv'
  <2>1. bar' \in BarRecords /\ bar'.wants = "in" /\ bar'.reconnecting = bar.reconnecting
    BY <1>1, <1>4 DEF OnConnect, BarRecords
  <2> QED
    BY <1>4, <2>1, BeginInv DEF OnConnect, OffersConnect, Modes
<1>5. ASSUME NEW a \in Attempts, NEW mode \in Modes, ConsumerConnects(a, mode)
      PROVE  ConnectInv'
  BY <1>1, <1>5, BeginInv DEF ConsumerConnects
<1>6. CASE UNCHANGED vars
  BY <1>6 DEF vars, ConnectInv, ConnectTypeOK, OneAttempt, ConnectedIsUsable,
              OneListener, RespectsTheUser
<1> QED
  BY <1>2, <1>3, <1>4, <1>5, <1>6, AnsweredInv, WalletPushesInv, ReloadInv DEF Next

\* The inductive invariant of the kit and the header that drives it.
THEOREM ConnectInvariance == ConnectSpec => []ConnectInv
BY ConnectInitInv, ConnectStepInv, PTL DEF ConnectSpec

\* However connect() and disconnect() overlap, and whoever calls them, a kit
\* that says connected has a client it listens to and can detach from.
THEOREM ConnectedKitIsUsable == ConnectSpec => []ConnectedIsUsable
<1>1. ConnectInv => ConnectedIsUsable
  BY DEF ConnectInv
<1> QED
  BY <1>1, ConnectInvariance, PTL

\* In the app no wallet event is handled twice or after a disconnect: the
\* header, the kit and the wallet never leave a second listener registered.
THEOREM EventsHandledOnce == ConnectSpec => []OneListener
<1>1. ConnectInv => OneListener
  BY DEF ConnectInv
<1> QED
  BY <1>1, ConnectInvariance, PTL

\* No reload brings back a session the user has ended, whenever in an attempt
\* the user ended it.
THEOREM UserStaysDisconnected == ConnectSpec => []RespectsTheUser
<1>1. ConnectInv => RespectsTheUser
  BY DEF ConnectInv
<1> QED
  BY <1>1, ConnectInvariance, PTL

=============================================================================
