------------------------- MODULE VenueServiceProofs -------------------------
(***************************************************************************)
(* Proofs about the venue service, for any number of overlapping calls of  *)
(* runPass, of requests and of faults, and whatever the traders do.        *)
(***************************************************************************)
EXTENDS VenueService, MatcherProofs

\* The fields that the lemmas update exist.
Shapes ==
  /\ pass = [p \in Passes |-> pass[p]]
  /\ \A p \in Passes : "pc" \in DOMAIN pass[p]
  /\ reads = [r \in Readers |-> reads[r]]
  /\ \A r \in Readers : "open" \in DOMAIN reads[r]
  /\ \A m \in matching \cup rejecting : "to" \in DOMAIN m

OnePass == \A p, q \in Passes : Active(p) /\ Active(q) => p = q

PassInv == Shapes /\ AnswersFindTheirPass /\ OnePass /\ HeartbeatAlive

LEMMA InvGivesSingleWriter == PassInv => SingleWriter
<1> SUFFICES ASSUME PassInv PROVE SingleWriter
  OBVIOUS
<1>1. ASSUME NEW m \in matching, NEW n \in matching, m.to # Nobody, n.to # Nobody
      PROVE  m = n
  <2>1. m.to \in Passes /\ n.to \in Passes
    BY <1>1 DEF PassInv, AnswersFindTheirPass
  <2>2. Active(m.to) /\ Active(n.to)
    BY <2>1 DEF PassInv, AnswersFindTheirPass, Active
  <2>3. m.to = n.to
    BY <2>1, <2>2 DEF PassInv, OnePass
  <2> QED
    BY <2>1, <2>3 DEF PassInv, AnswersFindTheirPass
<1> QED
  BY <1>1 DEF SingleWriter, PassInv, OnePass

LEMMA InitPassInv == VenueInit => PassInv
<1> SUFFICES ASSUME VenueInit PROVE PassInv
  OBVIOUS
<1>1. /\ pass = [p \in Passes |-> IdlePass] /\ reads = [r \in Readers |-> Closed]
      /\ running = FALSE /\ timer = TRUE /\ matching = {} /\ rejecting = {}
  BY DEF VenueInit
<1>2. /\ IdlePass.pc = "idle" /\ "pc" \in DOMAIN IdlePass
      /\ Closed.open = FALSE /\ "open" \in DOMAIN Closed
  BY DEF IdlePass, Closed
<1>3. \A p \in Passes : pass[p] = IdlePass /\ reads[p] = Closed /\ ~Active(p)
  BY <1>1, <1>2 DEF Active, Readers
<1>4. Shapes
  BY <1>1, <1>2 DEF Shapes
<1>5. AnswersFindTheirPass
  BY <1>1, <1>2, <1>3 DEF AnswersFindTheirPass
<1>6. OnePass /\ HeartbeatAlive
  BY <1>1, <1>3 DEF OnePass, HeartbeatAlive
<1> QED
  BY <1>4, <1>5, <1>6 DEF PassInv

\* A step that changes no pass, no reader's openness and no message, and does
\* not lose the timer.
LEMMA QuietKeeps ==
  ASSUME PassInv, pass' = pass, running' = running,
         reads' = [r \in Readers |-> reads'[r]],
         \A r \in Readers : /\ "open" \in DOMAIN reads'[r]
                            /\ r \in Passes => reads'[r].open = reads[r].open,
         matching' = matching, rejecting' = rejecting,
         (up' => timer') \/ \E p \in Passes : Active(p)
  PROVE  PassInv'
<1>1. Shapes'
  BY DEF PassInv, Shapes
<1>2. AnswersFindTheirPass'
  BY DEF PassInv, AnswersFindTheirPass, Readers
<1>3. OnePass' /\ HeartbeatAlive'
  BY DEF PassInv, OnePass, HeartbeatAlive, Active
<1> QED
  BY <1>1, <1>2, <1>3 DEF PassInv

LEMMA BeginKeeps ==
  ASSUME PassInv, NEW p \in Passes, NEW by, BeginPass(p, by),
         matching' = matching, rejecting' = rejecting
  PROVE  PassInv'
<1> DEFINE begun == [IdlePass EXCEPT !.pc = "refresh", !.by = by]
<1>1. begun.pc = "refresh" /\ "pc" \in DOMAIN begun
  BY DEF IdlePass
<1>2. pass' = [pass EXCEPT ![p] = begun] /\ reads' = [reads EXCEPT ![p] = Opened]
      /\ running' = TRUE /\ ~running /\ pass[p].pc = "idle"
  BY DEF BeginPass
<1> HIDE DEF begun
<1>3. /\ pass' = [q \in Passes |-> pass'[q]]
      /\ pass'[p].pc = "refresh" /\ "pc" \in DOMAIN pass'[p]
      /\ \A q \in Passes : q # p => pass'[q] = pass[q]
  BY <1>1, <1>2 DEF PassInv, Shapes
<1>4. "open" \in DOMAIN Opened
  BY DEF Opened, Closed
<1>5. /\ reads' = [r \in Readers |-> reads'[r]]
      /\ \A r \in Readers : "open" \in DOMAIN reads'[r]
      /\ \A q \in Passes : q # p => reads'[q] = reads[q]
  BY <1>2, <1>4 DEF PassInv, Shapes, Readers
<1>6. \A q \in Passes : ~Active(q)
  BY <1>2 DEF PassInv, HeartbeatAlive
<1>7. \A q \in Passes : Active(q)' <=> q = p
  BY <1>3, <1>6 DEF Active
<1>8. Shapes'
  BY <1>3, <1>5 DEF PassInv, Shapes
<1>9. \A m \in matching \cup rejecting : m.to \notin Passes
  BY <1>6 DEF PassInv, AnswersFindTheirPass, Active
<1>10. AnswersFindTheirPass'
  <2>1. \A q \in Passes : reads'[q].open => pass'[q].pc \in {"refresh", "recover"}
    BY <1>3, <1>5 DEF PassInv, AnswersFindTheirPass
  <2> QED
    BY <2>1, <1>9 DEF PassInv, AnswersFindTheirPass
<1>11. OnePass' /\ HeartbeatAlive'
  BY <1>2, <1>7 DEF OnePass, HeartbeatAlive
<1> QED
  BY <1>8, <1>10, <1>11 DEF PassInv

\* What the pass that is under way may turn into.
LEMMA MoveKeeps ==
  ASSUME PassInv, NEW p \in Passes, Active(p), NEW r, "pc" \in DOMAIN r,
         r.pc # "idle", pass' = [pass EXCEPT ![p] = r], running' = running,
         reads' = [x \in Readers |-> reads'[x]],
         \A x \in Readers : "open" \in DOMAIN reads'[x],
         \A q \in Passes : q # p => reads'[q] = reads[q],
         reads'[p].open => r.pc \in {"refresh", "recover"},
         \A m \in matching' \cup rejecting' :
           /\ "to" \in DOMAIN m
           /\ m.to \in {p, Nobody},
         \A m \in matching' : m.to = p => r.pc = "settle",
         \A m \in rejecting' : m.to = p => r.pc = "sweep",
         \A m, n \in matching' : m.to = p /\ n.to = p => m = n
  PROVE  PassInv'
<1>1. /\ pass' = [q \in Passes |-> pass'[q]] /\ pass'[p] = r
      /\ \A q \in Passes : q # p => pass'[q] = pass[q]
  BY DEF PassInv, Shapes
<1>2. Shapes'
  BY <1>1 DEF PassInv, Shapes
<1>3. Nobody \notin Passes
  BY VenueAssumption DEF Nobody
<1>4. AnswersFindTheirPass'
  <2>1. \A q \in Passes : reads'[q].open => pass'[q].pc \in {"refresh", "recover"}
    BY <1>1 DEF PassInv, AnswersFindTheirPass
  <2> QED
    BY <2>1, <1>1, <1>3 DEF AnswersFindTheirPass
<1>5. \A q \in Passes : Active(q)' <=> q = p
  BY <1>1 DEF PassInv, OnePass, Active
<1>6. OnePass' /\ HeartbeatAlive'
  BY <1>5 DEF PassInv, OnePass, HeartbeatAlive
<1> QED
  BY <1>2, <1>4, <1>6 DEF PassInv

\* No pass is left, and nobody waits for anything.
LEMMA RestKeeps ==
  ASSUME pass' = [q \in Passes |-> pass'[q]],
         \A q \in Passes : pass'[q].pc = "idle" /\ "pc" \in DOMAIN pass'[q],
         running' = FALSE,
         up' => timer',
         reads' = [x \in Readers |-> reads'[x]],
         \A x \in Readers : "open" \in DOMAIN reads'[x],
         \A q \in Passes : ~reads'[q].open,
         \A m \in matching' \cup rejecting' :
           /\ "to" \in DOMAIN m
           /\ m.to = Nobody
  PROVE  PassInv'
<1>2. Nobody \notin Passes
  BY VenueAssumption DEF Nobody
<1>3. \A q \in Passes : ~Active(q)'
  BY DEF Active
<1>4. Shapes'
  BY DEF Shapes
<1>5. AnswersFindTheirPass'
  BY <1>2 DEF AnswersFindTheirPass
<1>6. OnePass' /\ HeartbeatAlive'
  BY <1>3 DEF OnePass, HeartbeatAlive
<1> QED
  BY <1>4, <1>5, <1>6 DEF PassInv

\* In the state of the invariant, only the pass under way has messages.
LEMMA OthersQuiet ==
  ASSUME PassInv, NEW p \in Passes, Active(p)
  PROVE  /\ \A m \in matching \cup rejecting : m.to \in {p, Nobody}
         /\ \A q \in Passes : q # p => pass[q].pc = "idle" /\ ~reads[q].open
  BY DEF PassInv, AnswersFindTheirPass, OnePass, Active

LEMMA OpenedClosed ==
  /\ "open" \in DOMAIN Opened /\ Opened.open = TRUE
  /\ "open" \in DOMAIN Closed /\ Closed.open = FALSE
  BY DEF Opened, Closed

LEMMA ReadsOpened ==
  ASSUME Shapes, NEW p \in Readers, NEW r, "open" \in DOMAIN r,
         reads' = [reads EXCEPT ![p] = r]
  PROVE  /\ reads' = [x \in Readers |-> reads'[x]]
         /\ \A x \in Readers : "open" \in DOMAIN reads'[x]
         /\ \A q \in Readers : q # p => reads'[q] = reads[q]
         /\ reads'[p] = r
  BY DEF Shapes

LEMMA ProceedKeeps ==
  ASSUME PassInv, NEW p \in Passes, Active(p),
         pass[p].pc \notin {"settle", "sweep"},
         NEW plans, NEW t, NEW cached, Proceed(p, plans, t, cached),
         reads' = [x \in Readers |-> reads'[x]],
         \A x \in Readers : "open" \in DOMAIN reads'[x],
         \A q \in Passes : q # p => reads'[q] = reads[q],
         ~reads'[p].open
  PROVE  PassInv'
<1>1. \A m \in matching \cup rejecting : m.to = Nobody /\ "to" \in DOMAIN m
  BY OthersQuiet DEF PassInv, AnswersFindTheirPass, Shapes
<1>2. Nobody \notin Passes
  BY VenueAssumption DEF Nobody
<1>3. CASE plans # << >>
  <2> DEFINE r == [pc |-> "settle", by |-> pass[p].by, now |-> t,
                   plans |-> plans,
                   buyer |-> TraderOf(plans[1].buy, cached),
                   seller |-> TraderOf(plans[1].sell, cached)]
             m0 == [pair |-> Pair(plans[1]), to |-> p]
  <2>1. /\ pass' = [pass EXCEPT ![p] = r] /\ running' = running
        /\ matching' = matching \cup {m0} /\ rejecting' = rejecting
    BY <1>3 DEF Proceed
  <2>2. r.pc = "settle" /\ "pc" \in DOMAIN r /\ m0.to = p /\ "to" \in DOMAIN m0
    OBVIOUS
  <2> HIDE DEF r, m0
  <2>3. \A m, n \in matching' : m.to = p /\ n.to = p => m = n
    BY <2>1, <1>1, <1>2
  <2>4. \A m \in matching' \cup rejecting' :
          "to" \in DOMAIN m /\ m.to \in {p, Nobody}
    BY <2>1, <2>2, <1>1
  <2>5. /\ \A m \in matching' : m.to = p => r.pc = "settle"
        /\ \A m \in rejecting' : m.to = p => r.pc = "sweep"
        /\ r.pc # "idle" /\ (reads'[p].open => r.pc \in {"refresh", "recover"})
    BY <2>1, <2>2, <1>1, <1>2
  <2>6. /\ "pc" \in DOMAIN r /\ running' = running
        /\ pass' = [pass EXCEPT ![p] = r]
    BY <2>1, <2>2
  <2> QED
    BY <2>3, <2>4, <2>5, <2>6, MoveKeeps
<1>4. CASE plans = << >> /\ Stale(cached, t) # {}
  <2> DEFINE r == [IdlePass EXCEPT !.pc = "sweep", !.by = pass[p].by]
             new == {[order |-> o, to |-> p] : o \in Stale(cached, t)}
  <2>1. /\ pass' = [pass EXCEPT ![p] = r] /\ running' = running
        /\ rejecting' = rejecting \cup new /\ matching' = matching
    BY <1>4 DEF Proceed
  <2>2. r.pc = "sweep" /\ "pc" \in DOMAIN r
    BY DEF IdlePass
  <2>3. \A m \in new : m.to = p /\ "to" \in DOMAIN m
    OBVIOUS
  <2> HIDE DEF r, new
  <2>4. \A m \in matching' \cup rejecting' :
          "to" \in DOMAIN m /\ m.to \in {p, Nobody}
    BY <2>1, <2>3, <1>1
  <2>5. \A m \in matching' : m.to # p
    BY <2>1, <1>1, <1>2
  <2>6. /\ \A m \in matching' : m.to = p => r.pc = "settle"
        /\ \A m \in rejecting' : m.to = p => r.pc = "sweep"
        /\ r.pc # "idle" /\ (reads'[p].open => r.pc \in {"refresh", "recover"})
    BY <2>2, <2>5
  <2>7. /\ "pc" \in DOMAIN r /\ running' = running
        /\ pass' = [pass EXCEPT ![p] = r]
    BY <2>1, <2>2
  <2>8. \A m, n \in matching' : m.to = p /\ n.to = p => m = n
    BY <2>5
  <2> QED
    BY <2>4, <2>6, <2>7, <2>8, MoveKeeps
<1>5. CASE plans = << >> /\ Stale(cached, t) = {}
  <2>1. /\ pass' = [pass EXCEPT ![p] = IdlePass] /\ running' = FALSE /\ timer' = TRUE
        /\ matching' = matching /\ rejecting' = rejecting
    BY <1>5 DEF Proceed
  <2>2. \A q \in Passes : pass'[q].pc = "idle" /\ "pc" \in DOMAIN pass'[q]
                          /\ ~reads'[q].open
    BY <2>1, OthersQuiet DEF PassInv, Shapes, IdlePass
  <2>3. pass' = [q \in Passes |-> pass'[q]]
    BY <2>1 DEF PassInv, Shapes
  <2> QED
    BY <2>1, <2>2, <2>3, <1>1, RestKeeps
<1> QED
  BY <1>3, <1>4, <1>5

LEMMA ThrowKeeps ==
  ASSUME PassInv, NEW p \in Passes, Active(p), pass[p].pc # "settle", Throw(p),
         matching' = matching,
         NEW left \in SUBSET rejecting, rejecting' = ThrowingDisowns(p, left)
  PROVE  PassInv'
<1>1. /\ \A m \in matching : m.to = Nobody /\ "to" \in DOMAIN m
      /\ \A m \in left : m.to \in {p, Nobody} /\ "to" \in DOMAIN m
  BY OthersQuiet DEF PassInv, AnswersFindTheirPass, Shapes
<1>2. \A m \in rejecting' : m.to = Nobody /\ "to" \in DOMAIN m
  <2>1. \A m \in left : /\ [m EXCEPT !.to = Nobody].to = Nobody
                        /\ "to" \in DOMAIN [m EXCEPT !.to = Nobody]
    BY <1>1
  <2> QED
    BY <1>1, <2>1 DEF ThrowingDisowns, Disowned
<1>3. CASE pass[p].by = "timer"
  <2>1. /\ running' = FALSE /\ timer' = FALSE /\ up' = FALSE
        /\ pass' = [q \in Passes |-> IdlePass]
        /\ reads' = [r \in Readers |-> Closed]
    BY <1>3 DEF Throw, Exit
  <2>2. \A q \in Passes : pass'[q].pc = "idle" /\ "pc" \in DOMAIN pass'[q]
    BY <2>1 DEF IdlePass
  <2> QED
    BY <1>1, <1>2, <2>1, <2>2, OpenedClosed, RestKeeps DEF Readers
<1>4. CASE pass[p].by # "timer"
  <2>1. /\ running' = FALSE /\ timer' = TRUE
        /\ pass' = [pass EXCEPT ![p] = IdlePass]
        /\ reads' = [reads EXCEPT ![p] = Closed]
    BY <1>4 DEF Throw
  <2>2. \A q \in Passes : pass'[q].pc = "idle" /\ "pc" \in DOMAIN pass'[q]
    BY <2>1, OthersQuiet DEF PassInv, Shapes, IdlePass
  <2>3. pass' = [q \in Passes |-> pass'[q]]
    BY <2>1 DEF PassInv, Shapes
  <2>4. p \in Readers
    BY DEF Readers
  <2>5. /\ reads' = [x \in Readers |-> reads'[x]]
        /\ \A x \in Readers : "open" \in DOMAIN reads'[x]
        /\ \A q \in Readers : q # p => reads'[q] = reads[q]
        /\ reads'[p] = Closed
    BY <2>1, <2>4, OpenedClosed, ReadsOpened DEF PassInv
  <2>6. \A q \in Passes : ~reads'[q].open
    BY <2>5, OthersQuiet, OpenedClosed DEF Readers
  <2> QED
    BY <1>1, <1>2, <2>1, <2>2, <2>3, <2>5, <2>6, RestKeeps
<1> QED
  BY <1>3, <1>4

-----------------------------------------------------------------------------
\* One lemma per action.

LEMMA TimerFiresKeeps == PassInv /\ TimerFires => PassInv'
<1> SUFFICES ASSUME PassInv, TimerFires PROVE PassInv'
  OBVIOUS
<1>1. CASE \E p \in Passes : BeginPass(p, "timer")
  BY <1>1, BeginKeeps DEF TimerFires
<1>2. CASE running /\ UNCHANGED <<running, pass, reads>>
  <2>1. \E p \in Passes : Active(p)
    BY <1>2 DEF PassInv, HeartbeatAlive
  <2>2. /\ pass' = pass /\ running' = running /\ reads' = reads
        /\ matching' = matching /\ rejecting' = rejecting
    BY <1>2 DEF TimerFires
  <2> QED
    BY <2>1, <2>2, QuietKeeps DEF PassInv, Shapes
<1> QED
  BY <1>1, <1>2 DEF TimerFires

LEMMA PostMatchKeeps == PassInv /\ PostMatch => PassInv'
  BY BeginKeeps DEF PostMatch

LEMMA SetIntervalMsKeeps == PassInv /\ SetIntervalMs => PassInv'
<1> SUFFICES ASSUME PassInv, SetIntervalMs PROVE PassInv'
  OBVIOUS
<1>1. /\ pass' = pass /\ running' = running /\ reads' = reads /\ timer' = TRUE
      /\ matching' = matching /\ rejecting' = rejecting
  BY DEF SetIntervalMs
<1> QED
  BY <1>1, QuietKeeps DEF PassInv, Shapes

\* A running service keeps its timer or its pass when neither changes.
LEMMA TimerOrPass ==
  ASSUME PassInv, up' = up, timer' = timer
  PROVE  (up' => timer') \/ \E p \in Passes : Active(p)
  BY DEF PassInv, HeartbeatAlive

LEMMA GetVenueKeeps ==
  ASSUME PassInv, NEW h \in Handlers, GetVenue(h)
  PROVE  PassInv'
<1>1. /\ pass' = pass /\ running' = running /\ up' = up /\ timer' = timer
      /\ matching' = matching /\ rejecting' = rejecting
      /\ reads' = [reads EXCEPT ![h] = Opened]
  BY DEF GetVenue
<1>2. /\ reads' = [r \in Readers |-> reads'[r]]
      /\ \A r \in Readers : "open" \in DOMAIN reads'[r]
      /\ \A r \in Readers : r # h => reads'[r] = reads[r]
  <2>1. Shapes
    BY DEF PassInv
  <2> QED
    BY <1>1, <2>1, OpenedClosed DEF Shapes
<1>3. h \notin Passes
  BY VenueAssumption
<1> QED
  BY <1>1, <1>2, <1>3, TimerOrPass, QuietKeeps DEF Readers

LEMMA ReadsKeep ==
  ASSUME PassInv, NEW r \in Readers, ReadPools(r) \/ ReadOrders(r)
  PROVE  PassInv'
<1>1. /\ pass' = pass /\ running' = running /\ up' = up /\ timer' = timer
      /\ matching' = matching /\ rejecting' = rejecting
  BY DEF ReadPools, ReadOrders
<1>2. \E x : \/ reads' = [reads EXCEPT ![r] = [reads[r] EXCEPT !.pool = x]]
             \/ reads' = [reads EXCEPT ![r] = [reads[r] EXCEPT !.orders = x]]
  BY DEF ReadPools, ReadOrders
<1>3. /\ reads' = [q \in Readers |-> reads'[q]]
      /\ \A q \in Readers : /\ "open" \in DOMAIN reads'[q]
                            /\ reads'[q].open = reads[q].open
  <2>1. /\ reads = [q \in Readers |-> reads[q]]
        /\ \A q \in Readers : "open" \in DOMAIN reads[q]
    BY DEF PassInv, Shapes
  <2>2. PICK x : \/ reads' = [reads EXCEPT ![r] = [reads[r] EXCEPT !.pool = x]]
                 \/ reads' = [reads EXCEPT ![r] = [reads[r] EXCEPT !.orders = x]]
    BY <1>2
  <2>3. CASE reads' = [reads EXCEPT ![r] = [reads[r] EXCEPT !.pool = x]]
    BY <2>1, <2>3
  <2>4. CASE reads' = [reads EXCEPT ![r] = [reads[r] EXCEPT !.orders = x]]
    BY <2>1, <2>4
  <2> QED
    BY <2>2, <2>3, <2>4
<1> QED
  BY <1>1, <1>3, TimerOrPass, QuietKeeps

LEMMA RefreshDoneKeeps ==
  ASSUME PassInv, NEW r \in Readers, RefreshDone(r)
  PROVE  PassInv'
<1>1. reads' = [reads EXCEPT ![r] = Closed] /\ reads[r].open /\ up' = up
  BY DEF RefreshDone, HasRead
<1>2. /\ reads' = [x \in Readers |-> reads'[x]]
      /\ \A x \in Readers : "open" \in DOMAIN reads'[x]
      /\ \A q \in Readers : q # r => reads'[q] = reads[q]
      /\ reads'[r] = Closed
  BY <1>1, OpenedClosed, ReadsOpened DEF PassInv
<1>3. CASE r \in Handlers
  <2>1. /\ pass' = pass /\ running' = running /\ timer' = timer
        /\ matching' = matching /\ rejecting' = rejecting
    BY <1>3 DEF RefreshDone
  <2>2. r \notin Passes
    BY <1>3, VenueAssumption
  <2> QED
    BY <1>1, <1>2, <1>3, <2>1, <2>2, TimerOrPass, QuietKeeps
<1>4. CASE r \notin Handlers
  <2>1. r \in Passes
    BY <1>4 DEF Readers
  <2>2. pass[r].pc \in {"refresh", "recover"}
    BY <1>1, <2>1 DEF PassInv, AnswersFindTheirPass
  <2>3. Active(r) /\ pass[r].pc \notin {"settle", "sweep"}
    BY <2>2 DEF Active
  <2>4. /\ \A q \in Passes : q # r => reads'[q] = reads[q]
        /\ ~reads'[r].open
    BY <1>2, OpenedClosed DEF Readers
  <2>5. \/ Proceed(r, IF ReadBy(r).pool = NoPool THEN << >>
                      ELSE FindMatches(ReadBy(r).pool, ReadBy(r).orders, now),
                   now, ReadBy(r))
        \/ Proceed(r, Tail(pass[r].plans), pass[r].now, ReadBy(r))
    BY <1>4 DEF RefreshDone
  <2> QED
    BY <1>2, <2>1, <2>3, <2>4, <2>5, ProceedKeeps
<1> QED
  BY <1>3, <1>4

LEMMA RefreshFailsKeeps ==
  ASSUME PassInv, NEW r \in Readers, RefreshFails(r)
  PROVE  PassInv'
<1>1. reads[r].open /\ matching' = matching
  BY DEF RefreshFails
<1>2. CASE r \in Handlers
  <2>1. /\ pass' = pass /\ running' = running /\ timer' = timer /\ up' = up
        /\ rejecting' = rejecting /\ reads' = [reads EXCEPT ![r] = Closed]
    BY <1>2 DEF RefreshFails
  <2>2. r \notin Passes
    BY <1>2, VenueAssumption
  <2>3. /\ reads' = [x \in Readers |-> reads'[x]]
        /\ \A x \in Readers : "open" \in DOMAIN reads'[x]
        /\ \A q \in Readers : q # r => reads'[q] = reads[q]
    BY <2>1, OpenedClosed, ReadsOpened DEF PassInv
  <2> QED
    BY <1>1, <1>2, <2>1, <2>2, <2>3, TimerOrPass, QuietKeeps
<1>3. CASE r \notin Handlers
  <2>1. r \in Passes
    BY <1>3 DEF Readers
  <2>2. Active(r) /\ pass[r].pc # "settle"
    BY <1>1, <2>1 DEF PassInv, AnswersFindTheirPass, Active
  <2>3. Throw(r) /\ rejecting' = ThrowingDisowns(r, rejecting)
    BY <1>3 DEF RefreshFails
  <2> QED
    BY <1>1, <2>1, <2>2, <2>3, ThrowKeeps
<1> QED
  BY <1>2, <1>3

\* The ledger decides a match: its pass, if one waits, has an answer.
LEMMA DecisionKeeps ==
  ASSUME PassInv, NEW m \in matching, NEW answer \in {"matched", "refused"},
         matching' = matching \ {m}, rejecting' = rejecting,
         pass' = [p \in Passes |-> IF p = m.to
                                   THEN [pass[p] EXCEPT !.pc = answer]
                                   ELSE pass[p]],
         UNCHANGED <<reads, running, timer, up>>
  PROVE  PassInv'
<1>1. Shapes /\ reads' = reads
  BY DEF PassInv
<1>2. Nobody \notin Passes
  BY VenueAssumption DEF Nobody
<1>3. CASE m.to \in Passes
  <2> DEFINE p == m.to
             r == [pass[p] EXCEPT !.pc = answer]
  <2>1. p \in Passes /\ pass[p].pc = "settle" /\ "pc" \in DOMAIN pass[p]
    BY <1>1, <1>3 DEF PassInv, AnswersFindTheirPass, Shapes
  <2>2. r.pc = answer /\ "pc" \in DOMAIN r
    BY <2>1
  <2>3. Active(p) /\ pass' = [pass EXCEPT ![p] = r]
    <3>1. pass = [q \in Passes |-> pass[q]]
      BY <1>1 DEF Shapes
    <3> QED
      BY <2>1, <3>1 DEF Active
  <2>4. ~reads[p].open
    BY <2>1 DEF PassInv, AnswersFindTheirPass
  <2>5. \A n \in matching \cup rejecting :
          n.to \in {p, Nobody} /\ "to" \in DOMAIN n
    BY <1>1, <2>1, <2>3, OthersQuiet DEF Shapes
  <2>6. \A n \in matching' : n.to # p
    BY <1>2, <2>1 DEF PassInv, AnswersFindTheirPass
  <2>7. \A n \in rejecting' : n.to # p
    BY <2>1 DEF PassInv, AnswersFindTheirPass
  <2>8. p \in Passes /\ r.pc # "idle" /\ r.pc \in {"matched", "refused"}
    BY <2>1, <2>2
  <2>9. /\ \A n \in matching' \cup rejecting' :
             "to" \in DOMAIN n /\ n.to \in {p, Nobody}
        /\ reads' = [x \in Readers |-> reads'[x]]
        /\ \A x \in Readers : "open" \in DOMAIN reads'[x]
        /\ \A q \in Passes : q # p => reads'[q] = reads[q]
        /\ ~reads'[p].open
    BY <1>1, <2>4, <2>5 DEF Shapes
  <2> HIDE DEF p, r
  <2> QED
    BY <2>2, <2>3, <2>6, <2>7, <2>8, <2>9, MoveKeeps
<1>4. CASE m.to \notin Passes
  <2>1. pass' = pass
    <3>1. pass = [q \in Passes |-> pass[q]]
      BY <1>1 DEF Shapes
    <3> QED
      BY <1>4, <3>1
  <2>2. Shapes' /\ OnePass' /\ HeartbeatAlive'
    BY <2>1, <1>1 DEF PassInv, Shapes, OnePass, HeartbeatAlive, Active
  <2>3. AnswersFindTheirPass'
    BY <2>1, <1>1 DEF PassInv, AnswersFindTheirPass
  <2> QED
    BY <2>2, <2>3 DEF PassInv
<1> QED
  BY <1>3, <1>4

LEMMA LedgerDecidesKeeps ==
  ASSUME PassInv, NEW m \in matching, LedgerMatches(m) \/ LedgerRefuses(m)
  PROVE  PassInv'
<1>1. CASE LedgerMatches(m)
  BY <1>1, DecisionKeeps DEF LedgerMatches
<1>2. CASE LedgerRefuses(m)
  BY <1>2, DecisionKeeps DEF LedgerRefuses
<1> QED
  BY <1>1, <1>2

LEMMA MatchAnsweredKeeps ==
  ASSUME PassInv, NEW p \in Passes, MatchAnswered(p)
  PROVE  PassInv'
<1>1. pass[p].pc = "matched" /\ reads' = reads
      /\ Proceed(p, Tail(pass[p].plans), pass[p].now, view)
  BY DEF MatchAnswered
<1>2. Active(p) /\ pass[p].pc \notin {"settle", "sweep"} /\ ~reads[p].open
  BY <1>1 DEF PassInv, AnswersFindTheirPass, Active
<1>3. /\ reads' = [x \in Readers |-> reads'[x]]
      /\ \A x \in Readers : "open" \in DOMAIN reads'[x]
  BY <1>1 DEF PassInv, Shapes
<1> QED
  BY <1>1, <1>2, <1>3, ProceedKeeps

\* What is disowned keeps its shape, and nobody waits for it.
LEMMA DisownedKeeps ==
  ASSUME NEW messages, \A m \in messages : "to" \in DOMAIN m
  PROVE  \A senders : \A m \in Disowned(messages, senders) :
           /\ "to" \in DOMAIN m
           /\ (m \in messages /\ m.to \notin senders) \/ m.to = Nobody
<1>1. \A m \in messages : /\ [m EXCEPT !.to = Nobody].to = Nobody
                          /\ "to" \in DOMAIN [m EXCEPT !.to = Nobody]
  OBVIOUS
<1> QED
  BY <1>1 DEF Disowned

LEMMA SettleFailsKeeps ==
  ASSUME PassInv, NEW p \in Passes, SettleFails(p)
  PROVE  PassInv'
<1> DEFINE r == [pass[p] EXCEPT !.pc = "recover"]
<1>1. /\ pass' = [pass EXCEPT ![p] = r] /\ reads' = [reads EXCEPT ![p] = Opened]
      /\ running' = running /\ rejecting' = rejecting
      /\ pass[p].pc \in {"refused", "settle", "matched"}
  BY DEF SettleFails
<1>2. Active(p) /\ "pc" \in DOMAIN pass[p] /\ Shapes
  BY <1>1 DEF Active, PassInv, Shapes
<1>3. r.pc = "recover" /\ "pc" \in DOMAIN r
  BY <1>2
<1> HIDE DEF r
<1>4. Nobody \notin Passes
  BY VenueAssumption DEF Nobody
<1>5. \A m \in matching \cup rejecting : m.to \in {p, Nobody} /\ "to" \in DOMAIN m
  BY <1>2, OthersQuiet DEF Shapes
<1>6. \A m \in matching' : m.to = Nobody /\ "to" \in DOMAIN m
  <2>1. CASE pass[p].pc = "refused" /\ matching' = matching
    BY <2>1, <1>5 DEF PassInv, AnswersFindTheirPass
  <2>2. CASE matching' = Disowned(matching, {p})
    BY <2>2, <1>5, DisownedKeeps
  <2> QED
    BY <2>1, <2>2 DEF SettleFails
<1>7. \A m \in rejecting' : m.to # p
  BY <1>1, <1>4 DEF PassInv, AnswersFindTheirPass
<1>8. /\ reads' = [x \in Readers |-> reads'[x]]
      /\ \A x \in Readers : "open" \in DOMAIN reads'[x]
      /\ \A q \in Passes : q # p => reads'[q] = reads[q]
  BY <1>1, <1>2, OpenedClosed, ReadsOpened DEF Readers
<1>9. /\ r.pc # "idle" /\ (reads'[p].open => r.pc \in {"refresh", "recover"})
      /\ \A m \in matching' : m.to = p => r.pc = "settle"
      /\ \A m \in rejecting' : m.to = p => r.pc = "sweep"
      /\ \A m, n \in matching' : m.to = p /\ n.to = p => m = n
      /\ \A m \in matching' \cup rejecting' :
           "to" \in DOMAIN m /\ m.to \in {p, Nobody}
  BY <1>1, <1>3, <1>4, <1>5, <1>6, <1>7
<1> QED
  BY <1>1, <1>2, <1>3, <1>8, <1>9, MoveKeeps

\* An answer that changes no pass.
LEMMA FewerKeeps ==
  ASSUME PassInv, UNCHANGED <<reads, running, timer, pass, up, matching>>,
         rejecting' \in SUBSET rejecting
  PROVE  PassInv'
<1>1. Shapes'
  BY DEF PassInv, Shapes
<1>2. AnswersFindTheirPass'
  BY DEF PassInv, AnswersFindTheirPass
<1>3. OnePass' /\ HeartbeatAlive'
  BY DEF PassInv, OnePass, HeartbeatAlive, Active
<1> QED
  BY <1>1, <1>2, <1>3 DEF PassInv

LEMMA LedgerRejectsKeeps ==
  ASSUME PassInv, NEW m \in rejecting, LedgerRejects(m)
  PROVE  PassInv'
<1>1. rejecting' = rejecting \ {m} /\ matching' = matching /\ reads' = reads
      /\ up' = up
  BY DEF LedgerRejects
<1>2. CASE m.to \in Passes /\ \A n \in rejecting \ {m} : n.to # m.to
  <2> DEFINE p == m.to
  <2>1. /\ pass' = [pass EXCEPT ![p] = IdlePass] /\ running' = FALSE
        /\ timer' = TRUE
    BY <1>2 DEF LedgerRejects
  <2>2. p \in Passes /\ pass[p].pc = "sweep"
    BY <1>2 DEF PassInv, AnswersFindTheirPass
  <2> HIDE DEF p
  <2>3. Active(p) /\ ~reads[p].open
    BY <2>2 DEF PassInv, AnswersFindTheirPass, Active
  <2>4. \A n \in matching' \cup rejecting' : n.to = Nobody /\ "to" \in DOMAIN n
    <3>1. \A n \in matching \cup rejecting :
            n.to \in {p, Nobody} /\ "to" \in DOMAIN n
      BY <2>2, <2>3, OthersQuiet DEF PassInv, Shapes
    <3>2. \A n \in matching : n.to # p
      BY <2>2 DEF PassInv, AnswersFindTheirPass
    <3> QED
      BY <1>1, <1>2, <3>1, <3>2 DEF p
  <2>5. /\ pass' = [q \in Passes |-> pass'[q]]
        /\ \A q \in Passes : pass'[q].pc = "idle" /\ "pc" \in DOMAIN pass'[q]
    BY <2>1, <2>2, <2>3, OthersQuiet DEF PassInv, Shapes, IdlePass
  <2>6. /\ reads' = [x \in Readers |-> reads'[x]]
        /\ \A x \in Readers : "open" \in DOMAIN reads'[x]
        /\ \A q \in Passes : ~reads'[q].open
    BY <1>1, <2>2, <2>3, OthersQuiet DEF PassInv, Shapes
  <2> QED
    BY <2>1, <2>4, <2>5, <2>6, RestKeeps
<1>3. CASE ~(m.to \in Passes /\ \A n \in rejecting \ {m} : n.to # m.to)
  <2>1. UNCHANGED <<pass, running, timer>>
    BY <1>3 DEF LedgerRejects
  <2> QED
    BY <1>1, <2>1, FewerKeeps
<1> QED
  BY <1>2, <1>3

LEMMA RejectFailsKeeps ==
  ASSUME PassInv, NEW m \in rejecting, RejectFails(m)
  PROVE  PassInv'
<1>1. CASE m.to \in Passes
  <2>1. Throw(m.to) /\ rejecting' = ThrowingDisowns(m.to, rejecting \ {m})
        /\ matching' = matching
    BY <1>1 DEF RejectFails
  <2>2. Active(m.to) /\ pass[m.to].pc # "settle"
    BY <1>1 DEF PassInv, AnswersFindTheirPass, Active
  <2>3. rejecting \ {m} \in SUBSET rejecting
    OBVIOUS
  <2> QED
    BY <1>1, <2>1, <2>2, <2>3, ThrowKeeps
<1>2. CASE m.to \notin Passes
  BY <1>2, FewerKeeps DEF RejectFails
<1> QED
  BY <1>1, <1>2

LEMMA CrashKeeps == PassInv /\ Crash => PassInv'
<1> SUFFICES ASSUME PassInv, Crash PROVE PassInv'
  OBVIOUS
<1>1. /\ running' = FALSE /\ up' = FALSE
      /\ pass' = [p \in Passes |-> IdlePass]
      /\ reads' = [r \in Readers |-> Closed]
      /\ matching' = Disowned(matching, Passes)
      /\ rejecting' = Disowned(rejecting, Passes)
  BY DEF Crash, Exit
<1>2. \A m \in matching' \cup rejecting' : "to" \in DOMAIN m /\ m.to = Nobody
  <2>1. \A m \in matching \cup rejecting :
          "to" \in DOMAIN m /\ m.to \in Passes \cup {Nobody}
    BY DEF PassInv, Shapes, AnswersFindTheirPass
  <2>2. \A m \in matching' : "to" \in DOMAIN m /\ m.to = Nobody
    BY <1>1, <2>1, DisownedKeeps
  <2>3. \A m \in rejecting' : "to" \in DOMAIN m /\ m.to = Nobody
    BY <1>1, <2>1, DisownedKeeps
  <2> QED
    BY <2>2, <2>3
<1>3. \A q \in Passes : pass'[q].pc = "idle" /\ "pc" \in DOMAIN pass'[q]
  BY <1>1 DEF IdlePass
<1> QED
  BY <1>1, <1>2, <1>3, OpenedClosed, RestKeeps DEF Readers

LEMMA RestartKeeps == PassInv /\ Restart => PassInv'
<1> SUFFICES ASSUME PassInv, Restart PROVE PassInv'
  OBVIOUS
<1>1. /\ pass' = pass /\ running' = running /\ reads' = reads /\ timer' = TRUE
      /\ matching' = matching /\ rejecting' = rejecting
  BY DEF Restart
<1> QED
  BY <1>1, QuietKeeps DEF PassInv, Shapes

LEMMA VenueNextKeeps == PassInv /\ [VenueNext]_venueVars => PassInv'
<1> SUFFICES ASSUME PassInv, [VenueNext]_venueVars PROVE PassInv'
  OBVIOUS
<1>1. CASE OthersAct \/ UNCHANGED venueVars
  <2>1. /\ UNCHANGED <<reads, running, timer, pass, up, matching>>
        /\ rejecting' \in SUBSET rejecting
    BY <1>1 DEF OthersAct, venueVars, serviceVars
  <2> QED
    BY <2>1, FewerKeeps
<1>2. CASE \/ TimerFires \/ PostMatch \/ SetIntervalMs
           \/ \E h \in Handlers : GetVenue(h)
  BY <1>2, TimerFiresKeeps, PostMatchKeeps, SetIntervalMsKeeps, GetVenueKeeps
<1>3. CASE \E r \in Readers : \/ ReadPools(r) \/ ReadOrders(r)
                              \/ RefreshDone(r) \/ RefreshFails(r)
  BY <1>3, ReadsKeep, RefreshDoneKeeps, RefreshFailsKeeps
<1>4. CASE \E m \in matching : LedgerMatches(m) \/ LedgerRefuses(m)
  BY <1>4, LedgerDecidesKeeps
<1>5. CASE \E p \in Passes : MatchAnswered(p) \/ SettleFails(p)
  BY <1>5, MatchAnsweredKeeps, SettleFailsKeeps
<1>6. CASE \E m \in rejecting : LedgerRejects(m) \/ RejectFails(m)
  BY <1>6, LedgerRejectsKeeps, RejectFailsKeeps
<1>7. CASE Crash \/ Restart
  BY <1>7, CrashKeeps, RestartKeeps
<1> QED
  BY <1>1, <1>2, <1>3, <1>4, <1>5, <1>6, <1>7 DEF VenueNext

LEMMA PassInvariance == VenueSpec => []PassInv
  BY InitPassInv, VenueNextKeeps, PTL DEF VenueSpec

-----------------------------------------------------------------------------
\* The results.

\* scheduler.ts's "one guarded runPass()": however many requests and timeouts
\* call it, and whatever fails inside, passes never overlap and at most one
\* match the service waits for is before the ledger.
THEOREM PassesNeverOverlap == VenueSpec => []SingleWriter
  BY PassInvariance, InvGivesSingleWriter, PTL

\* The guard is set exactly while a pass is under way and a running service
\* always has its timer or a pass: no failure silently stops the matching.
THEOREM HeartbeatSurvives == VenueSpec => []HeartbeatAlive
<1>1. PassInv => HeartbeatAlive
  BY DEF PassInv
<1> QED
  BY <1>1, PassInvariance, PTL

\* Late and lost answers, failures and restarts never leave an answer to a pass
\* that has moved on: each finds the await that asked for it, or nobody.
THEOREM AnswersNeverStray == VenueSpec => []AnswersFindTheirPass
<1>1. PassInv => AnswersFindTheirPass
  BY DEF PassInv
<1> QED
  BY <1>1, PassInvariance, PTL

\* To the ledger, a step of the service is a step of a contract or nothing.
LEMMA StepsLawfully == [VenueNext]_venueVars => [Next]_vars
<1> SUFFICES ASSUME [VenueNext]_venueVars PROVE [Next]_vars
  OBVIOUS
<1>1. CASE UNCHANGED venueVars
  BY <1>1 DEF venueVars, ledgerVars
<1>2. CASE OthersAct
  BY <1>2 DEF OthersAct, Next
<1>3. ASSUME NEW m \in matching, LedgerMatches(m) PROVE Next
  <2>1. /\ m.pair.buy \in orders /\ m.pair.sell \in orders
        /\ DarkPool_Match(m.pair.buy, m.pair.sell)
    BY <1>3 DEF LedgerMatches, CanSettle
  <2> QED
    BY <2>1 DEF Next
<1>4. ASSUME NEW m \in rejecting, LedgerRejects(m) PROVE Next
  BY <1>4 DEF LedgerRejects, TraderStep, Next
<1>5. CASE \E m \in matching : LedgerRefuses(m)
  BY <1>5 DEF LedgerRefuses, ledgerVars
<1>6. CASE \E m \in rejecting : RejectFails(m)
  BY <1>6 DEF RejectFails, ledgerVars
<1>7. CASE \/ TimerFires \/ PostMatch \/ SetIntervalMs
           \/ \E h \in Handlers : GetVenue(h)
           \/ Crash \/ Restart
  BY <1>7 DEF TimerFires, PostMatch, SetIntervalMs, GetVenue, Crash, Restart,
              ledgerVars
<1>8. CASE \E r \in Readers : \/ ReadPools(r) \/ ReadOrders(r)
                              \/ RefreshDone(r) \/ RefreshFails(r)
  BY <1>8 DEF ReadPools, ReadOrders, RefreshDone, RefreshFails, ledgerVars
<1>9. CASE \E p \in Passes : MatchAnswered(p) \/ SettleFails(p)
  BY <1>9 DEF MatchAnswered, SettleFails, ledgerVars
<1> QED
  BY <1>1, <1>2, <1>3, <1>4, <1>5, <1>6, <1>7, <1>8, <1>9 DEF VenueNext

\* Whatever the service does, and whatever it misses, the ledger only sees what
\* the contracts allow: its matches, its rejections and the traders' own steps
\* are together a behaviour of DarkPool.
THEOREM ServiceActsLawfully == VenueSpec => LedgerSpec
<1>1. VenueInit => Init
  BY DEF VenueInit
<1> QED
  BY <1>1, StepsLawfully, PTL DEF VenueSpec, LedgerSpec, Spec

\* So a trader is as safe with this service as with any other venue: nothing it
\* retries, loses, repeats after a restart or decides from a stale cache makes
\* an order send or fill more than was signed for.
THEOREM ServiceNeverOverspends == VenueSpec => []NeverOverspent
  BY ServiceActsLawfully, SpendingIsBounded, PTL DEF LedgerSpec

-----------------------------------------------------------------------------
\* The sweep.  What readers saw were orders, a pass remembers a time that has
\* been, and an order that had expired by then still has.

SweepInv ==
  /\ view.orders \subseteq Order
  /\ \A r \in Readers : /\ "orders" \in DOMAIN reads[r]
                        /\ reads[r].orders.read => reads[r].orders.value \subseteq Order
  /\ \A p \in Passes : "now" \in DOMAIN pass[p] /\ pass[p].now \in 0 .. now
  /\ \A m \in rejecting : /\ "order" \in DOMAIN m /\ m.order \in Order
                          /\ ~IsLive(m.order, now)

LEMMA StaysExpired ==
  ASSUME NEW o \in Order, NEW t \in Nat, NEW u \in Nat, t <= u, ~IsLive(o, t)
  PROVE  ~IsLive(o, u)
<1>1. o.expiresAt \in Nat \cup {NoExpiry}
  BY DEF Order
<1> QED
  BY <1>1 DEF IsLive, NoExpiry

LEMMA LedgerTypes == ASSUME IInv PROVE orders \subseteq Order /\ now \in Nat
  BY DEF IInv, TypeOK, RegistryTypeOK

LEMMA RestingNow ==
  /\ "now" \in DOMAIN IdlePass /\ IdlePass.now = 0
  /\ "orders" \in DOMAIN Opened /\ Opened.orders.read = FALSE
  /\ "orders" \in DOMAIN Closed /\ Closed.orders.read = FALSE
  BY DEF IdlePass, Opened, Closed, Unread

\* What an action may do to the four without looking at the ledger.
LEMMA SweepFrame ==
  ASSUME SweepInv, now \in Nat, now' = now, view'.orders \subseteq Order,
         \A r \in Readers : reads'[r] \in {reads[r], Opened, Closed},
         \A p \in Passes : \/ pass'[p] = pass[p]
                           \/ "now" \in DOMAIN pass'[p] /\ pass'[p].now \in 0 .. now,
         \A m \in rejecting' : \/ m \in rejecting
                               \/ /\ "order" \in DOMAIN m /\ m.order \in Order
                                  /\ ~IsLive(m.order, now)
  PROVE  SweepInv'
<1>1. \A r \in Readers : /\ "orders" \in DOMAIN reads'[r]
                         /\ reads'[r].orders.read => reads'[r].orders.value \subseteq Order
  BY RestingNow DEF SweepInv
<1>2. \A p \in Passes : "now" \in DOMAIN pass'[p] /\ pass'[p].now \in 0 .. now'
  BY DEF SweepInv
<1>3. \A m \in rejecting' : /\ "order" \in DOMAIN m /\ m.order \in Order
                            /\ ~IsLive(m.order, now')
  BY DEF SweepInv
<1> QED
  BY <1>1, <1>2, <1>3 DEF SweepInv

\* Time passes, whatever else the others do.
LEMMA OthersLeaveSweep ==
  ASSUME SweepInv, now \in Nat, now' \in Nat, now <= now',
         view' = view, reads' = reads, pass' = pass, rejecting' = rejecting
  PROVE  SweepInv'
<1>1. \A p \in Passes : "now" \in DOMAIN pass'[p] /\ pass'[p].now \in 0 .. now'
  BY DEF SweepInv
<1>2. \A m \in rejecting' : /\ "order" \in DOMAIN m /\ m.order \in Order
                            /\ ~IsLive(m.order, now')
  BY StaysExpired DEF SweepInv
<1> QED
  BY <1>1, <1>2 DEF SweepInv

\* Time only passes.
LEMMA TimePasses ==
  ASSUME now \in Nat, [Next]_vars
  PROVE  now' \in Nat /\ now <= now'
<1>1. ASSUME HoldingStep PROVE now' = now
  BY <1>1 DEF HoldingStep, Mint, Transfer, Recover
<1>2. ASSUME Tick PROVE now' = now + 1
  BY <1>2 DEF Tick
<1>3. ASSUME NEW p, NEW m, NEW t, NEW declared, NEW placed, Rest(p, m, t, declared, placed)
      PROVE  now' = now
  BY <1>3 DEF Rest
<1>4. ASSUME NEW o, ArchiveOrder(o) PROVE now' = now
  BY <1>4 DEF ArchiveOrder
<1>5. ASSUME PoolStep PROVE now' = now
  BY <1>5 DEF PoolStep, ArchivePool, CreatePool, registryVars
<1>6. ASSUME NEW o, NEW f, NEW price, NEW cp, NEW d, Order_Fill(o, f, price, cp, d)
      PROVE  now' = now
  BY <1>6 DEF Order_Fill
<1>7. ASSUME NEW a, NEW b, FillAuthority_Settle(a, b) PROVE now' = now
  BY <1>7 DEF FillAuthority_Settle
<1>8. ASSUME NEW b, NEW s, DarkPool_Match(b, s) PROVE now' = now
  BY <1>8 DEF DarkPool_Match
<1>9. ASSUME UNCHANGED vars PROVE now' = now
  BY <1>9 DEF vars
<1>10. now' = now \/ now' = now + 1
  BY <1>1, <1>2, <1>3, <1>4, <1>5, <1>6, <1>7, <1>8, <1>9
  DEF Next, TraderStep, DarkPool_PlaceOrder, CreateOrder
<1> QED
  BY <1>10

LEMMA ProceedSweeps ==
  ASSUME SweepInv, Shapes, now \in Nat, NEW p \in Passes, NEW plans, NEW t \in 0 .. now,
         NEW cached, cached.orders \subseteq Order, Proceed(p, plans, t, cached)
  PROVE  /\ \A q \in Passes :
              \/ pass'[q] = pass[q]
              \/ "now" \in DOMAIN pass'[q] /\ pass'[q].now \in 0 .. now
         /\ \A m \in rejecting' :
              \/ m \in rejecting
              \/ /\ "order" \in DOMAIN m /\ m.order \in Order
                 /\ ~IsLive(m.order, now)
<1>1. \A r : pass' = [pass EXCEPT ![p] = r] =>
               pass'[p] = r /\ \A q \in Passes : q # p => pass'[q] = pass[q]
  BY DEF Shapes
<1>2. CASE plans # << >>
  <2> DEFINE r == [pc |-> "settle", by |-> pass[p].by, now |-> t, plans |-> plans,
                   buyer |-> TraderOf(plans[1].buy, cached),
                   seller |-> TraderOf(plans[1].sell, cached)]
  <2>1. pass' = [pass EXCEPT ![p] = r] /\ rejecting' = rejecting
    BY <1>2 DEF Proceed
  <2>2. "now" \in DOMAIN r /\ r.now = t
    OBVIOUS
  <2> HIDE DEF r
  <2> QED
    BY <1>1, <2>1, <2>2
<1>3. CASE plans = << >> /\ Stale(cached, t) # {}
  <2> DEFINE r == [IdlePass EXCEPT !.pc = "sweep", !.by = pass[p].by]
             new == {[order |-> o, to |-> p] : o \in Stale(cached, t)}
  <2>1. pass' = [pass EXCEPT ![p] = r] /\ rejecting' = rejecting \cup new
    BY <1>3 DEF Proceed
  <2>2. "now" \in DOMAIN r /\ r.now = 0
    BY DEF IdlePass
  <2>3. \A m \in new : "order" \in DOMAIN m /\ m.order \in Stale(cached, t)
    OBVIOUS
  <2>4. \A o \in Stale(cached, t) : o \in Order /\ ~IsLive(o, now)
    BY StaysExpired DEF Stale
  <2> HIDE DEF r, new
  <2> QED
    BY <1>1, <2>1, <2>2, <2>3, <2>4
<1>4. CASE plans = << >> /\ Stale(cached, t) = {}
  <2>1. pass' = [pass EXCEPT ![p] = IdlePass] /\ rejecting' = rejecting
    BY <1>4 DEF Proceed
  <2> QED
    BY <1>1, <2>1, RestingNow
<1> QED
  BY <1>2, <1>3, <1>4

\* Disowned or not, what was to be rejected is.
LEMMA DisownedSweeps ==
  ASSUME NEW left, NEW senders, \A m \in left : "order" \in DOMAIN m
  PROVE  \A m \in Disowned(left, senders) :
           "order" \in DOMAIN m /\ \E n \in left : m.order = n.order
<1>1. \A n \in left : /\ "order" \in DOMAIN [n EXCEPT !.to = Nobody]
                      /\ [n EXCEPT !.to = Nobody].order = n.order
  OBVIOUS
<1> QED
  BY <1>1 DEF Disowned

\* What the end of a process leaves, or of a pass that throws.
LEMMA ThrowSweeps ==
  ASSUME SweepInv, Shapes, now \in Nat, now' = now, NEW p \in Passes,
         Throw(p) \/ Exit,
         NEW left \in SUBSET rejecting, NEW senders, rejecting' = Disowned(left, senders)
  PROVE  SweepInv'
<1>1. \A m \in rejecting' : "order" \in DOMAIN m /\ m.order \in Order /\ ~IsLive(m.order, now)
  BY DisownedSweeps DEF SweepInv
<1>2. CASE Exit
  <2>1. /\ pass' = [q \in Passes |-> IdlePass] /\ reads' = [r \in Readers |-> Closed]
        /\ view'.orders = {}
    BY <1>2 DEF Exit
  <2> QED
    BY <1>1, <2>1, RestingNow, SweepFrame
<1>3. CASE Throw(p) /\ ~Exit
  <2>1. /\ pass' = [pass EXCEPT ![p] = IdlePass] /\ reads' = [reads EXCEPT ![p] = Closed]
        /\ view' = view
    BY <1>3 DEF Throw
  <2>2. /\ \A q \in Passes : pass'[q] \in {pass[q], IdlePass}
        /\ \A r \in Readers : reads'[r] \in {reads[r], Opened, Closed}
    BY <2>1 DEF Shapes
  <2> QED
    BY <1>1, <2>1, <2>2, RestingNow, SweepFrame DEF SweepInv
<1> QED
  BY <1>2, <1>3

LEMMA ReadsSweep ==
  ASSUME SweepInv, Shapes, orders \subseteq Order, NEW r \in Readers,
         ReadPools(r) \/ ReadOrders(r)
  PROVE  SweepInv'
<1>1. /\ now' = now /\ view' = view /\ pass' = pass /\ rejecting' = rejecting
  BY DEF ReadPools, ReadOrders, ledgerVars, vars
<1>2. \/ reads' = [reads EXCEPT ![r] = [reads[r] EXCEPT !.pool = Snapshot(pool)]]
      \/ reads' = [reads EXCEPT ![r] = [reads[r] EXCEPT !.orders = Snapshot(orders)]]
  BY DEF ReadPools, ReadOrders
<1>3. /\ reads = [q \in Readers |-> reads[q]]
      /\ "orders" \in DOMAIN reads[r]
  BY DEF Shapes, SweepInv
<1>4. Snapshot(orders).value = orders
  BY DEF Snapshot
<1>5. /\ "orders" \in DOMAIN reads'[r]
      /\ reads'[r].orders = reads[r].orders \/ reads'[r].orders = Snapshot(orders)
      /\ \A q \in Readers : q # r => reads'[q] = reads[q]
  <2>1. CASE reads' = [reads EXCEPT ![r] = [reads[r] EXCEPT !.pool = Snapshot(pool)]]
    BY <1>3, <2>1
  <2>2. CASE reads' = [reads EXCEPT ![r] = [reads[r] EXCEPT !.orders = Snapshot(orders)]]
    BY <1>3, <2>2
  <2> QED
    BY <1>2, <2>1, <2>2
<1> QED
  BY <1>1, <1>4, <1>5 DEF SweepInv

LEMMA RefreshSweeps ==
  ASSUME SweepInv, Shapes, now \in Nat, NEW r \in Readers, RefreshDone(r)
  PROVE  SweepInv'
<1>1. /\ now' = now /\ view' = ReadBy(r) /\ reads' = [reads EXCEPT ![r] = Closed]
      /\ reads[r].orders.read
  BY DEF RefreshDone, HasRead, ledgerVars, vars
<1>2. ReadBy(r).orders \subseteq Order
  BY <1>1 DEF ReadBy, SweepInv
<1>3. \A q \in Readers : reads'[q] \in {reads[q], Opened, Closed}
  BY <1>1 DEF Shapes
<1>4. CASE r \in Handlers
  <2>1. pass' = pass /\ rejecting' = rejecting
    BY <1>4 DEF RefreshDone
  <2> QED
    BY <1>1, <1>2, <1>3, <2>1, SweepFrame
<1>5. CASE r \notin Handlers
  <2>1. r \in Passes /\ now \in 0 .. now /\ pass[r].now \in 0 .. now
    BY <1>5 DEF Readers, SweepInv
  <2>2. \/ Proceed(r, IF ReadBy(r).pool = NoPool THEN << >>
                      ELSE FindMatches(ReadBy(r).pool, ReadBy(r).orders, now),
                   now, ReadBy(r))
        \/ Proceed(r, Tail(pass[r].plans), pass[r].now, ReadBy(r))
    BY <1>5 DEF RefreshDone
  <2> QED
    BY <1>1, <1>2, <1>3, <2>1, <2>2, ProceedSweeps, SweepFrame
<1> QED
  BY <1>4, <1>5

\* The actions that only move a pass on, or open a reader.
LEMMA MovesSweep ==
  ASSUME SweepInv, Shapes, now \in Nat, now' = now, view' = view,
         rejecting' \in SUBSET rejecting,
         \A r \in Readers : reads'[r] \in {reads[r], Opened, Closed},
         \A p \in Passes : \/ pass'[p] = pass[p]
                           \/ \E x : pass'[p] = [pass[p] EXCEPT !.pc = x]
                           \/ "now" \in DOMAIN pass'[p] /\ pass'[p].now = 0
  PROVE  SweepInv'
<1>1. \A p \in Passes : "now" \in DOMAIN pass'[p] /\ pass'[p].now \in 0 .. now
  <2>1. ASSUME NEW p \in Passes, NEW x, pass'[p] = [pass[p] EXCEPT !.pc = x]
        PROVE  "now" \in DOMAIN pass'[p] /\ pass'[p].now \in 0 .. now
    <3>1. "now" \in DOMAIN pass[p] /\ pass[p].now \in 0 .. now
      BY DEF SweepInv
    <3> QED
      BY <2>1, <3>1
  <2>2. \A p \in Passes : "now" \in DOMAIN pass[p] /\ pass[p].now \in 0 .. now
    BY DEF SweepInv
  <2>3. 0 \in 0 .. now
    OBVIOUS
  <2> QED
    BY <2>1, <2>2, <2>3, Zenon
<1> QED
  BY <1>1, SweepFrame DEF SweepInv

LEMMA BeginSweeps ==
  ASSUME SweepInv, Shapes, now \in Nat, now' = now, view' = view, rejecting' = rejecting,
         NEW p \in Passes, NEW by, BeginPass(p, by)
  PROVE  SweepInv'
<1> DEFINE begun == [IdlePass EXCEPT !.pc = "refresh", !.by = by]
<1>1. pass' = [pass EXCEPT ![p] = begun] /\ reads' = [reads EXCEPT ![p] = Opened]
  BY DEF BeginPass
<1>2. "now" \in DOMAIN begun /\ begun.now = 0
  BY DEF IdlePass
<1> HIDE DEF begun
<1>3. /\ \A q \in Passes : pass'[q] = pass[q] \/ pass'[q] = begun
      /\ \A r \in Readers : reads'[r] \in {reads[r], Opened, Closed}
  BY <1>1 DEF Shapes
<1> QED
  BY <1>2, <1>3, MovesSweep

LEMMA SweepNext ==
  PassInv /\ IInv /\ SweepInv /\ [VenueNext]_venueVars => SweepInv'
<1> SUFFICES ASSUME PassInv, IInv, SweepInv, [VenueNext]_venueVars PROVE SweepInv'
  OBVIOUS
<1>0. Shapes /\ orders \subseteq Order /\ now \in Nat
  BY LedgerTypes DEF PassInv
<1>1. CASE OthersAct \/ UNCHANGED venueVars
  <2>1. /\ view' = view /\ reads' = reads /\ pass' = pass /\ rejecting' = rejecting
        /\ [Next]_vars
    BY <1>1 DEF OthersAct, Next, venueVars, serviceVars, ledgerVars
  <2> QED
    BY <1>0, <2>1, TimePasses, OthersLeaveSweep
<1>2. CASE TimerFires
  <2>1. now' = now /\ view' = view /\ rejecting' = rejecting
    BY <1>2 DEF TimerFires, ledgerVars, vars
  <2>2. CASE \E p \in Passes : BeginPass(p, "timer")
    BY <1>0, <2>1, <2>2, BeginSweeps
  <2>3. CASE pass' = pass /\ reads' = reads
    BY <1>0, <2>1, <2>3, MovesSweep
  <2> QED
    BY <1>2, <2>2, <2>3 DEF TimerFires
<1>3. CASE PostMatch
  BY <1>0, <1>3, BeginSweeps DEF PostMatch, ledgerVars, vars
<1>4. CASE SetIntervalMs
  BY <1>0, <1>4, MovesSweep DEF SetIntervalMs, ledgerVars, vars
<1>5. ASSUME NEW h \in Handlers, GetVenue(h) PROVE SweepInv'
  <2>1. /\ now' = now /\ view' = view /\ pass' = pass /\ rejecting' = rejecting
        /\ reads' = [reads EXCEPT ![h] = Opened]
    BY <1>5 DEF GetVenue, ledgerVars, vars
  <2>2. \A r \in Readers : reads'[r] \in {reads[r], Opened, Closed}
    BY <1>0, <2>1 DEF Shapes
  <2> QED
    BY <1>0, <2>1, <2>2, MovesSweep
<1>6. ASSUME NEW r \in Readers, RefreshFails(r) PROVE SweepInv'
  <2>1. now' = now
    BY <1>6 DEF RefreshFails, ledgerVars, vars
  <2>2. CASE r \in Handlers
    <3>1. /\ view' = view /\ pass' = pass /\ rejecting' = rejecting
          /\ reads' = [reads EXCEPT ![r] = Closed]
      BY <1>6, <2>2 DEF RefreshFails
    <3>2. \A q \in Readers : reads'[q] \in {reads[q], Opened, Closed}
      BY <1>0, <3>1 DEF Shapes
    <3> QED
      BY <1>0, <2>1, <3>1, <3>2, MovesSweep
  <2>3. CASE r \notin Handlers
    <3>1. r \in Passes /\ Throw(r) /\ rejecting \in SUBSET rejecting
          /\ \E senders : rejecting' = Disowned(rejecting, senders)
      BY <1>6, <2>3 DEF RefreshFails, Readers, ThrowingDisowns
    <3> QED
      BY <1>0, <2>1, <3>1, ThrowSweeps
  <2> QED
    BY <2>2, <2>3
<1>7. ASSUME NEW m \in matching, LedgerMatches(m) \/ LedgerRefuses(m) PROVE SweepInv'
  <2>1. /\ now' = now /\ view' = view /\ reads' = reads /\ rejecting' = rejecting
    BY <1>7 DEF LedgerMatches, LedgerRefuses, DarkPool_Match, ledgerVars, vars
  <2>2. \A p \in Passes : pass'[p] = pass[p] \/ \E x : pass'[p] = [pass[p] EXCEPT !.pc = x]
    BY <1>7 DEF LedgerMatches, LedgerRefuses
  <2> QED
    BY <1>0, <2>1, <2>2, MovesSweep
<1>8. ASSUME NEW p \in Passes, MatchAnswered(p) PROVE SweepInv'
  <2>1. /\ now' = now /\ view' = view /\ reads' = reads
        /\ Proceed(p, Tail(pass[p].plans), pass[p].now, view)
    BY <1>8 DEF MatchAnswered, ledgerVars, vars
  <2>2. view.orders \subseteq Order /\ pass[p].now \in 0 .. now
    BY DEF SweepInv
  <2> QED
    BY <1>0, <2>1, <2>2, ProceedSweeps, SweepFrame
<1>9. ASSUME NEW p \in Passes, SettleFails(p) PROVE SweepInv'
  <2>1. /\ now' = now /\ view' = view /\ rejecting' = rejecting
        /\ pass' = [pass EXCEPT ![p] = [pass[p] EXCEPT !.pc = "recover"]]
        /\ reads' = [reads EXCEPT ![p] = Opened]
    BY <1>9 DEF SettleFails, ledgerVars, vars
  <2>2. /\ \A q \in Passes : \/ pass'[q] = pass[q]
                             \/ \E x : pass'[q] = [pass[q] EXCEPT !.pc = x]
        /\ \A r \in Readers : reads'[r] \in {reads[r], Opened, Closed}
    BY <1>0, <2>1 DEF Shapes
  <2> QED
    BY <1>0, <2>1, <2>2, MovesSweep
<1>10. ASSUME NEW m \in rejecting, LedgerRejects(m) PROVE SweepInv'
  <2>1. /\ now' = now /\ view' = view /\ reads' = reads /\ rejecting' \in SUBSET rejecting
        /\ pass' = pass \/ pass' = [pass EXCEPT ![m.to] = IdlePass]
    BY <1>10 DEF LedgerRejects, ArchiveOrder
  <2>2. \A p \in Passes : pass'[p] = pass[p] \/ pass'[p] = IdlePass
    BY <1>0, <2>1 DEF Shapes
  <2> QED
    BY <1>0, <2>1, <2>2, RestingNow, SweepFrame DEF SweepInv
<1>11. ASSUME NEW m \in rejecting, RejectFails(m) PROVE SweepInv'
  <2>1. now' = now
    BY <1>11 DEF RejectFails, ledgerVars, vars
  <2>2. CASE m.to \in Passes
    <3>1. Throw(m.to) /\ rejecting \ {m} \in SUBSET rejecting
          /\ \E senders : rejecting' = Disowned(rejecting \ {m}, senders)
      BY <1>11, <2>2 DEF RejectFails, ThrowingDisowns
    <3> QED
      BY <1>0, <2>1, <2>2, <3>1, ThrowSweeps
  <2>3. CASE m.to \notin Passes
    <3>1. view' = view /\ reads' = reads /\ pass' = pass /\ rejecting' = rejecting \ {m}
      BY <1>11, <2>3 DEF RejectFails
    <3> QED
      BY <1>0, <2>1, <3>1, MovesSweep
  <2> QED
    BY <2>2, <2>3
<1>12. CASE Crash
  <2>1. /\ now' = now /\ Exit /\ rejecting' = Disowned(rejecting, Passes)
        /\ rejecting \in SUBSET rejecting
    BY <1>12 DEF Crash, ledgerVars, vars
  <2>2. /\ pass' = [q \in Passes |-> IdlePass] /\ reads' = [r \in Readers |-> Closed]
        /\ view'.orders = {}
    BY <2>1 DEF Exit
  <2>3. \A m \in rejecting' :
          "order" \in DOMAIN m /\ m.order \in Order /\ ~IsLive(m.order, now)
    BY <2>1, DisownedSweeps DEF SweepInv
  <2> QED
    BY <1>0, <2>1, <2>2, <2>3, RestingNow, SweepFrame
<1>13. CASE Restart
  <2>1. /\ now' = now /\ view'.orders = orders /\ reads' = reads /\ pass' = pass
        /\ rejecting' = rejecting
    BY <1>13 DEF Restart, ledgerVars, vars
  <2> QED
    BY <1>0, <2>1, SweepFrame
<1>14. CASE \E r \in Readers : ReadPools(r) \/ ReadOrders(r) \/ RefreshDone(r)
  BY <1>0, <1>14, ReadsSweep, RefreshSweeps
<1> QED
  BY <1>1, <1>2, <1>3, <1>4, <1>5, <1>6, <1>7, <1>8, <1>9, <1>10, <1>11, <1>12, <1>13,
     <1>14 DEF VenueNext

\* scheduler.ts's sweep looks at a cache that any other refresh may have
\* replaced and at the time its pass began: still it rejects expired orders
\* only, and none whose match the service waits for.
THEOREM SweepIsLawful == VenueSpec => []SweepsOnlyExpired
<1>1. VenueInit => SweepInv
  <2> SUFFICES ASSUME VenueInit PROVE SweepInv
    OBVIOUS
  <2>1. /\ view.orders = {} /\ reads = [r \in Readers |-> Closed]
        /\ pass = [p \in Passes |-> IdlePass] /\ rejecting = {} /\ now = 0
    BY DEF VenueInit, Init, RegistryInit
  <2> QED
    BY <2>1, RestingNow DEF SweepInv
<1>2. PassInv /\ IInv /\ SweepInv => SweepsOnlyExpired
  <2> SUFFICES ASSUME PassInv, IInv, SweepInv, NEW m \in rejecting
               PROVE  /\ Expired(m.order)
                      /\ \A n \in matching : ~(n.to # Nobody /\ n.to = m.to)
    BY DEF SweepsOnlyExpired
  <2>1. m.order \in Order /\ ~IsLive(m.order, now)
    BY DEF SweepInv
  <2>2. Expired(m.order)
    BY <2>1, LedgerTypes DEF Expired, IsLive, Order, NoExpiry
  <2>3. ASSUME NEW n \in matching, n.to # Nobody, n.to = m.to PROVE FALSE
    BY <2>3 DEF PassInv, AnswersFindTheirPass
  <2> QED
    BY <2>2, <2>3
<1>3. VenueSpec => []IInv
  BY ServiceActsLawfully, Invariance, PTL DEF LedgerSpec
<1> QED
  BY <1>1, <1>2, <1>3, SweepNext, PassInvariance, PTL DEF VenueSpec

-----------------------------------------------------------------------------
\* The recorded trades.  A submission carries the plan its pass is at; a pair
\* that settled cannot settle again, since what its buy left is smaller.

Fields(p) == {"pc", "plans", "buyer", "seller"} \subseteq DOMAIN pass[p]

AtPlan(p) == pass[p].pc \in {"settle", "matched"}

NamesPlan(p) ==
  /\ pass[p].buyer \in {pass[p].plans[1].buy.trader, Unknown}
  /\ pass[p].seller \in {pass[p].plans[1].sell.trader, Unknown}

CarriesPlan(m) ==
  /\ "pair" \in DOMAIN m
  /\ m.pair = [buy |-> m.pair.buy, sell |-> m.pair.sell]
  /\ m.to \in Passes => m.pair = Pair(pass[m.to].plans[1])

PlansInv ==
  /\ \A p \in Passes : Fields(p) /\ (AtPlan(p) => NamesPlan(p))
  /\ \A m \in matching : CarriesPlan(m)

SpentBuy(x) ==
  /\ x.buy.origin < nextId
  /\ \A o \in orders : o.origin = x.buy.origin => o.quantity < x.buy.quantity

SettledInv ==
  /\ settled \subseteq [buy : Order, sell : Order]
  /\ \A x \in settled : SpentBuy(x)

Recorded == [pair : [buy : Order, sell : Order],
             buyer : Parties \cup {Unknown}, seller : Parties \cup {Unknown}]

TradeInv ==
  /\ trades \in Seq(Recorded)
  /\ TradesAreSettled
  /\ \A p \in Passes : pass[p].pc = "matched" =>
       /\ Pair(pass[p].plans[1]) \in settled
       /\ \A i \in DOMAIN trades : trades[i].pair # Pair(pass[p].plans[1])

LEMMA SpentStays ==
  ASSUME IInv, IInv', [Next]_vars, NEW x \in [buy : Order, sell : Order], SpentBuy(x)
  PROVE  SpentBuy(x)'
<1>0. \A o \in Order : o.quantity \in Nat /\ o.origin \in Nat
  BY DEF Order, PosNat, Ids
<1>1. /\ nextId \in Nat /\ nextId' \in Nat
      /\ orders \subseteq Order /\ orders' \subseteq Order
  BY DEF IInv, TypeOK, RegistryTypeOK
<1>4. nextId <= nextId'
  BY NewIds, <1>1
<1>5. x.buy.origin \in Nat /\ x.buy.quantity \in Nat
  BY <1>0
<1>2. ASSUME NEW o \in orders', o.origin = x.buy.origin
      PROVE  o.quantity < x.buy.quantity
  <2>1. CASE o \in orders
    BY <1>2, <2>1 DEF SpentBuy
  <2>2. CASE o \notin orders
    <3>1. o.origin # nextId
      BY <1>1, <1>2 DEF SpentBuy
    <3>2. PICK q \in orders : o.origin = q.origin /\ o.quantity < q.quantity
      BY <2>2, <3>1, ChainsShrink
    <3>3. q.quantity < x.buy.quantity
      BY <1>2, <3>2 DEF SpentBuy
    <3> QED
      BY <1>0, <1>1, <1>2, <1>5, <3>2, <3>3
  <2> QED
    BY <2>1, <2>2
<1>3. x.buy.origin < nextId'
  BY <1>1, <1>4, <1>5 DEF SpentBuy
<1> QED
  BY <1>2, <1>3 DEF SpentBuy

LEMMA MatchSpends ==
  ASSUME IInv, IInv', NEW b \in orders, NEW s \in orders, DarkPool_Match(b, s), [Next]_vars,
         NEW x, x.buy = b
  PROVE  SpentBuy(x)'
<1>1. /\ b.origin \in Nat /\ b.origin < nextId /\ nextId \in Nat /\ nextId' \in Nat
      /\ nextId <= nextId'
  BY NewIds DEF IInv, TypeOK, RegistryTypeOK, OneActive, Order, Ids
<1>2. b.origin # s.origin
  BY PairFacts DEF DarkPool_Match, CanMatch
<1>3. ASSUME NEW o \in orders', o.origin = b.origin PROVE o.quantity < b.quantity
  <2>1. o \notin orders \ {b, s}
    BY <1>3 DEF IInv, OneActive
  <2> QED
    BY <1>2, <1>3, <2>1, MatchShrinks
<1> QED
  BY <1>1, <1>3 DEF SpentBuy

\* Steps that leave every plan where it is, or drop it.
LEMMA PlansFrame ==
  ASSUME PlansInv, PassInv',
         \A p \in Passes : /\ Fields(p)'
                           /\ \/ ~AtPlan(p)'
                              \/ /\ AtPlan(p) /\ pass'[p].plans = pass[p].plans
                                 /\ pass'[p].buyer = pass[p].buyer
                                 /\ pass'[p].seller = pass[p].seller,
         \A m \in matching' : /\ "pair" \in DOMAIN m
                              /\ \E n \in matching : /\ m.pair = n.pair
                                                     /\ m.to \in {n.to, Nobody}
  PROVE  PlansInv'
<1>1. \A p \in Passes : Fields(p)' /\ (AtPlan(p)' => NamesPlan(p)')
  BY DEF PlansInv, NamesPlan
<1>2. ASSUME NEW m \in matching' PROVE CarriesPlan(m)'
  <2>1. PICK n \in matching : m.pair = n.pair /\ m.to \in {n.to, Nobody}
    OBVIOUS
  <2>2. ASSUME m.to \in Passes PROVE m.pair = Pair(pass'[m.to].plans[1])
    <3>1. m.to = n.to
      BY <2>1, <2>2, VenueAssumption DEF Nobody
    <3>2. AtPlan(m.to)'
      BY <2>2 DEF PassInv, AnswersFindTheirPass, AtPlan
    <3>3. pass'[m.to].plans = pass[m.to].plans
      BY <2>2, <3>2
    <3>4. n.pair = Pair(pass[n.to].plans[1])
      BY <2>1, <2>2, <3>1 DEF PlansInv, CarriesPlan
    <3> QED
      BY <2>1, <3>1, <3>3, <3>4 DEF Pair
  <2>3. "pair" \in DOMAIN m
    OBVIOUS
  <2>4. m.pair = [buy |-> m.pair.buy, sell |-> m.pair.sell]
    BY <2>1 DEF PlansInv, CarriesPlan
  <2> QED
    BY <2>2, <2>3, <2>4 DEF CarriesPlan
<1> QED
  BY <1>1, <1>2 DEF PlansInv

LEMMA IdleFields ==
  /\ {"pc", "plans", "buyer", "seller"} \subseteq DOMAIN IdlePass
  /\ IdlePass.pc = "idle"
  BY DEF IdlePass

LEMMA BegunFields ==
  ASSUME NEW x \in {"refresh", "sweep"}, NEW y
  PROVE  LET r == [IdlePass EXCEPT !.pc = x, !.by = y]
         IN  /\ {"pc", "plans", "buyer", "seller"} \subseteq DOMAIN r
             /\ r.pc = x
  BY DEF IdlePass

LEMMA MovedFields ==
  ASSUME NEW q, {"pc", "plans", "buyer", "seller"} \subseteq DOMAIN q, NEW x
  PROVE  LET r == [q EXCEPT !.pc = x]
         IN  /\ {"pc", "plans", "buyer", "seller"} \subseteq DOMAIN r
             /\ r.pc = x /\ r.plans = q.plans /\ r.buyer = q.buyer /\ r.seller = q.seller
  OBVIOUS

LEMMA DisownedCarry ==
  ASSUME \A n \in matching : {"pair", "to"} \subseteq DOMAIN n, NEW senders
  PROVE  \A m \in Disowned(matching, senders) :
           /\ "pair" \in DOMAIN m
           /\ \E n \in matching : m.pair = n.pair /\ m.to \in {n.to, Nobody}
<1>1. \A n \in matching : LET m == [n EXCEPT !.to = Nobody]
                          IN  /\ "pair" \in DOMAIN m /\ m.pair = n.pair
                              /\ m.to = Nobody
  OBVIOUS
<1> QED
  BY <1>1 DEF Disowned

\* The synchronous code of a pass that waits for no match.
LEMMA ProceedPlans ==
  ASSUME PlansInv, PassInv, PassInv', NEW p \in Passes, pass[p].pc # "settle",
         NEW plans, NEW t, NEW cached, Proceed(p, plans, t, cached)
  PROVE  PlansInv' /\ \A q \in Passes : pass'[q].pc = "matched" => q # p /\ pass'[q] = pass[q]
<1>0. \A r : pass' = [pass EXCEPT ![p] = r] =>
               pass'[p] = r /\ \A q \in Passes : q # p => pass'[q] = pass[q]
  BY DEF PassInv, Shapes
<1>1. \A m \in matching : m.to # p
  BY DEF PassInv, AnswersFindTheirPass
<1>2. CASE plans # << >>
  <2> DEFINE r == [pc |-> "settle", by |-> pass[p].by, now |-> t, plans |-> plans,
                   buyer |-> TraderOf(plans[1].buy, cached),
                   seller |-> TraderOf(plans[1].sell, cached)]
             m0 == [pair |-> Pair(plans[1]), to |-> p]
  <2>1. pass' = [pass EXCEPT ![p] = r] /\ matching' = matching \cup {m0}
    BY <1>2 DEF Proceed
  <2>2. /\ {"pc", "plans", "buyer", "seller"} \subseteq DOMAIN r
        /\ r.pc = "settle" /\ r.plans = plans
        /\ r.buyer \in {plans[1].buy.trader, Unknown}
        /\ r.seller \in {plans[1].sell.trader, Unknown}
    BY DEF TraderOf
  <2>3. "pair" \in DOMAIN m0 /\ m0.pair = Pair(plans[1]) /\ m0.to = p
    OBVIOUS
  <2> HIDE DEF r, m0
  <2>4. pass'[p] = r /\ \A q \in Passes : q # p => pass'[q] = pass[q]
    BY <1>0, <2>1
  <2>5. \A q \in Passes : Fields(q)' /\ (AtPlan(q)' => NamesPlan(q)')
    BY <2>2, <2>4 DEF PlansInv, Fields, AtPlan, NamesPlan
  <2>6. CarriesPlan(m0)'
    BY <2>2, <2>3, <2>4 DEF CarriesPlan, Pair
  <2>7. \A m \in matching : CarriesPlan(m)'
    BY <1>1, <2>4 DEF PlansInv, CarriesPlan
  <2> QED
    BY <2>1, <2>2, <2>4, <2>5, <2>6, <2>7 DEF PlansInv
<1>3. CASE plans = << >>
  <2>1. \E r : /\ pass' = [pass EXCEPT ![p] = r] /\ r.pc \in {"idle", "sweep"}
               /\ {"pc", "plans", "buyer", "seller"} \subseteq DOMAIN r
    <3>1. CASE Stale(cached, t) # {}
      <4>1. pass' = [pass EXCEPT ![p] = [IdlePass EXCEPT !.pc = "sweep", !.by = pass[p].by]]
        BY <1>3, <3>1 DEF Proceed
      <4> QED
        BY <4>1, BegunFields
    <3>2. CASE Stale(cached, t) = {}
      <4>1. pass' = [pass EXCEPT ![p] = IdlePass]
        BY <1>3, <3>2 DEF Proceed
      <4> QED
        BY <4>1, IdleFields
    <3> QED
      BY <3>1, <3>2
  <2>2. /\ pass'[p].pc \in {"idle", "sweep"}
        /\ {"pc", "plans", "buyer", "seller"} \subseteq DOMAIN pass'[p]
        /\ \A q \in Passes : q # p => pass'[q] = pass[q]
    BY <1>0, <2>1
  <2>3. matching' = matching
    BY <1>3 DEF Proceed
  <2>4. \A q \in Passes : /\ Fields(q)'
                          /\ \/ ~AtPlan(q)'
                             \/ /\ AtPlan(q) /\ pass'[q].plans = pass[q].plans
                                /\ pass'[q].buyer = pass[q].buyer
                                /\ pass'[q].seller = pass[q].seller
    BY <2>2 DEF PlansInv, Fields, AtPlan
  <2>5. \A m \in matching' : "pair" \in DOMAIN m
    BY <2>3 DEF PlansInv, CarriesPlan
  <2>6. PlansInv'
    BY <2>3, <2>4, <2>5, PlansFrame
  <2> QED
    BY <2>2, <2>6
<1> QED
  BY <1>2, <1>3

\* Steps after which no pass is at another plan than before.
LEMMA PlansRest ==
  ASSUME PlansInv, PassInv, PassInv',
         \A p \in Passes :
           \/ pass'[p] = pass[p]
           \/ /\ {"pc", "plans", "buyer", "seller"} \subseteq DOMAIN pass'[p]
              /\ pass'[p].pc \notin {"settle", "matched"},
         \/ matching' \in SUBSET matching
         \/ \E senders : matching' = Disowned(matching, senders)
  PROVE  PlansInv'
<1>1. \A p \in Passes : /\ Fields(p)'
                        /\ \/ ~AtPlan(p)'
                           \/ /\ AtPlan(p) /\ pass'[p].plans = pass[p].plans
                              /\ pass'[p].buyer = pass[p].buyer
                              /\ pass'[p].seller = pass[p].seller
  BY DEF PlansInv, Fields, AtPlan
<1>2. \A n \in matching : {"pair", "to"} \subseteq DOMAIN n
  BY DEF PlansInv, CarriesPlan, PassInv, Shapes
<1>3. \A m \in matching' : /\ "pair" \in DOMAIN m
                           /\ \E n \in matching : /\ m.pair = n.pair
                                                  /\ m.to \in {n.to, Nobody}
  BY <1>2, DisownedCarry
<1> QED
  BY <1>1, <1>3, PlansFrame

LEMMA BeginPlans ==
  ASSUME Shapes, NEW p \in Passes, NEW by, BeginPass(p, by)
  PROVE  \A q \in Passes :
           \/ pass'[q] = pass[q]
           \/ /\ {"pc", "plans", "buyer", "seller"} \subseteq DOMAIN pass'[q]
              /\ pass'[q].pc \notin {"settle", "matched"}
<1> DEFINE begun == [IdlePass EXCEPT !.pc = "refresh", !.by = by]
<1>1. pass' = [pass EXCEPT ![p] = begun]
  BY DEF BeginPass
<1>2. {"pc", "plans", "buyer", "seller"} \subseteq DOMAIN begun /\ begun.pc = "refresh"
  BY BegunFields
<1> HIDE DEF begun
<1> QED
  BY <1>1, <1>2 DEF Shapes

LEMMA ThrowPlans ==
  ASSUME Shapes, NEW p \in Passes, Throw(p) \/ Exit
  PROVE  /\ trades' \in {trades, << >>}
         /\ \A q \in Passes :
              \/ pass'[q] = pass[q]
              \/ /\ {"pc", "plans", "buyer", "seller"} \subseteq DOMAIN pass'[q]
                 /\ pass'[q].pc \notin {"settle", "matched"}
<1>1. CASE Exit
  <2>1. pass' = [q \in Passes |-> IdlePass] /\ trades' = << >>
    BY <1>1 DEF Exit
  <2> QED
    BY <2>1, IdleFields
<1>2. CASE Throw(p) /\ ~Exit
  <2>1. pass' = [pass EXCEPT ![p] = IdlePass] /\ trades' = trades
    BY <1>2 DEF Throw
  <2> QED
    BY <2>1, IdleFields DEF Shapes
<1> QED
  BY <1>1, <1>2

\* The answer of the ledger moves only the pass that waits for it.
LEMMA DecidedPlans ==
  ASSUME PassInv, PlansInv, NEW m \in matching, NEW x,
         pass' = [p \in Passes |-> IF p = m.to THEN [pass[p] EXCEPT !.pc = x] ELSE pass[p]]
  PROVE  \A p \in Passes :
           \/ p # m.to /\ pass'[p] = pass[p]
           \/ /\ p = m.to /\ AtPlan(p) /\ Fields(p)'
              /\ pass'[p].pc = x /\ pass'[p].plans = pass[p].plans
              /\ pass'[p].buyer = pass[p].buyer /\ pass'[p].seller = pass[p].seller
<1> SUFFICES ASSUME NEW p \in Passes, p = m.to
             PROVE  /\ AtPlan(p) /\ Fields(p)'
                    /\ pass'[p].pc = x /\ pass'[p].plans = pass[p].plans
                    /\ pass'[p].buyer = pass[p].buyer /\ pass'[p].seller = pass[p].seller
  OBVIOUS
<1>1. AtPlan(p)
  BY DEF PassInv, AnswersFindTheirPass, AtPlan
<1>2. Fields(p)
  BY DEF PlansInv
<1>3. pass'[p] = [pass[p] EXCEPT !.pc = x]
  OBVIOUS
<1> QED
  BY <1>1, <1>2, <1>3, MovedFields DEF Fields

\* What TradeInv needs of a step that settles and records nothing.
LEMMA TradesFrame ==
  ASSUME TradeInv, settled' = settled, trades' \in {trades, << >>},
         \A p \in Passes : pass'[p].pc = "matched" => pass'[p] = pass[p]
  PROVE  TradeInv'
<1>1. CASE trades' = << >>
  <2>1. trades' \in Seq(Recorded) /\ DOMAIN trades' = {}
    BY <1>1
  <2>2. TradesAreSettled'
    BY <2>1 DEF TradesAreSettled
  <2>3. \A p \in Passes : pass'[p].pc = "matched" => Pair(pass'[p].plans[1]) \in settled'
    BY DEF TradeInv
  <2> QED
    BY <2>1, <2>2, <2>3 DEF TradeInv
<1>2. CASE trades' = trades
  BY <1>2 DEF TradeInv, TradesAreSettled
<1> QED
  BY <1>1, <1>2

SettledInvs == SettledInv /\ PlansInv /\ TradeInv

\* The ledger settles a pair that had not settled before.
LEMMA MatchTrades ==
  ASSUME PassInv, PassInv', IInv, IInv', SettledInvs, [Next]_vars,
         NEW m \in matching, LedgerMatches(m)
  PROVE  SettledInvs'
<1>1. /\ m.pair.buy \in orders /\ m.pair.sell \in orders
      /\ DarkPool_Match(m.pair.buy, m.pair.sell)
      /\ settled' = settled \cup {m.pair} /\ trades' = trades
      /\ matching' = matching \ {m}
      /\ pass' = [p \in Passes |-> IF p = m.to THEN [pass[p] EXCEPT !.pc = "matched"]
                                   ELSE pass[p]]
  BY DEF LedgerMatches, CanSettle
<1>2. orders \subseteq Order /\ CarriesPlan(m)
  BY LedgerTypes DEF SettledInvs, PlansInv
<1>3. m.pair \in [buy : Order, sell : Order]
  BY <1>1, <1>2 DEF CarriesPlan
<1>4. \A x \in settled : SpentBuy(x)'
  BY SpentStays DEF SettledInvs, SettledInv
<1>5. SpentBuy(m.pair)'
  BY <1>1, MatchSpends
<1>6. SettledInv'
  BY <1>1, <1>3, <1>4, <1>5 DEF SettledInvs, SettledInv
<1>7. m.pair \notin settled
  <2> SUFFICES ASSUME m.pair \in settled PROVE FALSE
    OBVIOUS
  <2>1. m.pair.buy.quantity < m.pair.buy.quantity
    BY <1>1 DEF SettledInvs, SettledInv, SpentBuy
  <2>2. m.pair.buy.quantity \in Nat
    BY <1>3 DEF Order, PosNat
  <2> QED
    BY <2>1, <2>2
<1>8. \A p \in Passes :
        \/ p # m.to /\ pass'[p] = pass[p]
        \/ /\ p = m.to /\ AtPlan(p) /\ Fields(p)'
           /\ pass'[p].pc = "matched" /\ pass'[p].plans = pass[p].plans
           /\ pass'[p].buyer = pass[p].buyer /\ pass'[p].seller = pass[p].seller
  BY <1>1, DecidedPlans DEF SettledInvs
<1>9. PlansInv'
  <2>1. \A n \in matching' : "pair" \in DOMAIN n /\ n \in matching
    BY <1>1 DEF SettledInvs, PlansInv, CarriesPlan
  <2>2. \A p \in Passes : Fields(p)'
    BY <1>8 DEF SettledInvs, PlansInv, Fields
  <2>3. \A p \in Passes : \/ ~AtPlan(p)'
                          \/ /\ AtPlan(p) /\ pass'[p].plans = pass[p].plans
                             /\ pass'[p].buyer = pass[p].buyer
                             /\ pass'[p].seller = pass[p].seller
    BY <1>8 DEF AtPlan
  <2> QED
    BY <2>1, <2>2, <2>3, PlansFrame DEF SettledInvs
<1>10. TradeInv'
  <2>1. ASSUME NEW p \in Passes, pass'[p].pc = "matched"
        PROVE  /\ Pair(pass'[p].plans[1]) \in settled'
               /\ \A i \in DOMAIN trades : trades[i].pair # Pair(pass'[p].plans[1])
    <3>1. CASE p # m.to
      <4>1. pass'[p] = pass[p]
        BY <1>8, <3>1
      <4>2. pass[p].pc = "matched"
        BY <2>1, <4>1
      <4>3. /\ Pair(pass[p].plans[1]) \in settled
            /\ \A i \in DOMAIN trades : trades[i].pair # Pair(pass[p].plans[1])
        BY <4>2 DEF SettledInvs, TradeInv
      <4> QED
        BY <1>1, <4>1, <4>3
    <3>2. CASE p = m.to
      <4>1. Pair(pass'[p].plans[1]) = m.pair
        BY <1>2, <1>8, <3>2 DEF CarriesPlan
      <4> QED
        BY <1>1, <1>7, <4>1 DEF SettledInvs, TradeInv, TradesAreSettled
    <3> QED
      BY <3>1, <3>2
  <2>2. trades' \in Seq(Recorded) /\ TradesAreSettled'
    BY <1>1 DEF SettledInvs, TradeInv, TradesAreSettled
  <2> QED
    BY <1>1, <2>1, <2>2 DEF TradeInv
<1> QED
  BY <1>6, <1>9, <1>10 DEF SettledInvs

\* The answer is recorded, once: no other pass has one.
LEMMA AnswerTrades ==
  ASSUME PassInv, PassInv', SettledInvs, NEW p \in Passes, MatchAnswered(p)
  PROVE  PlansInv' /\ TradeInv'
<1> DEFINE rec == [pair |-> Pair(pass[p].plans[1]), buyer |-> pass[p].buyer,
                   seller |-> pass[p].seller]
<1>1. /\ pass[p].pc = "matched" /\ settled' = settled
      /\ trades' = Append(trades, rec)
      /\ Proceed(p, Tail(pass[p].plans), pass[p].now, view)
  BY DEF MatchAnswered
<1>2. PlansInv' /\ \A q \in Passes : pass'[q].pc = "matched" => q # p /\ pass'[q] = pass[q]
  BY <1>1, ProceedPlans DEF SettledInvs
<1>3. \A q \in Passes : pass'[q].pc # "matched"
  BY <1>1, <1>2 DEF PassInv, OnePass, Active
<1>4. /\ rec.pair \in settled /\ rec.pair \in [buy : Order, sell : Order]
      /\ \A i \in DOMAIN trades : trades[i].pair # rec.pair
  BY <1>1 DEF SettledInvs, SettledInv, TradeInv
<1>5. /\ rec.buyer \in {rec.pair.buy.trader, Unknown}
      /\ rec.seller \in {rec.pair.sell.trader, Unknown}
  BY <1>1 DEF SettledInvs, PlansInv, NamesPlan, AtPlan, Pair
<1>6. rec.pair.buy.trader \in Parties /\ rec.pair.sell.trader \in Parties
  BY <1>4 DEF Order
<1>7. rec \in Recorded
  BY <1>4, <1>5, <1>6 DEF Recorded
<1> HIDE DEF rec
<1>8. trades \in Seq(Recorded) /\ TradesAreSettled
  BY DEF SettledInvs, TradeInv
<1>9. /\ trades' \in Seq(Recorded) /\ DOMAIN trades' = 1 .. Len(trades) + 1
      /\ DOMAIN trades = 1 .. Len(trades) /\ Len(trades) \in Nat
      /\ trades'[Len(trades) + 1] = rec
      /\ \A i \in DOMAIN trades : trades'[i] = trades[i]
  BY <1>1, <1>7, <1>8
<1>10. \A i \in DOMAIN trades' : \/ i \in DOMAIN trades
                                 \/ trades'[i] = rec /\ i = Len(trades) + 1
  BY <1>9
<1>11. TradesAreSettled'
  <2>1. \A i \in DOMAIN trades' :
          /\ trades'[i].pair \in settled'
          /\ trades'[i].buyer \in {trades'[i].pair.buy.trader, Unknown}
          /\ trades'[i].seller \in {trades'[i].pair.sell.trader, Unknown}
    BY <1>1, <1>4, <1>5, <1>8, <1>9, <1>10 DEF TradesAreSettled
  <2>2. \A i, j \in DOMAIN trades' : trades'[i].pair = trades'[j].pair => i = j
    BY <1>4, <1>8, <1>9, <1>10 DEF TradesAreSettled
  <2> QED
    BY <2>1, <2>2 DEF TradesAreSettled
<1> QED
  BY <1>2, <1>3, <1>9, <1>11 DEF TradeInv

LEMMA SettledNext ==
  PassInv /\ IInv /\ IInv' /\ SettledInvs /\ [VenueNext]_venueVars => SettledInvs'
<1> SUFFICES ASSUME PassInv, IInv, IInv', SettledInvs, [VenueNext]_venueVars
             PROVE  SettledInvs'
  OBVIOUS
<1> DEFINE Same(q) == pass'[q] = pass[q]
           Away(q) == /\ {"pc", "plans", "buyer", "seller"} \subseteq DOMAIN pass'[q]
                      /\ pass'[q].pc \notin {"settle", "matched"}
<1>0. PassInv' /\ Shapes /\ [Next]_vars
  BY VenueNextKeeps, StepsLawfully DEF PassInv
<1>1. settled' = settled => SettledInv'
  BY <1>0, SpentStays DEF SettledInvs, SettledInv
<1>2. ASSUME settled' = settled, trades' \in {trades, << >>},
             \A q \in Passes : Same(q) \/ Away(q),
             \/ matching' \in SUBSET matching
             \/ \E senders : matching' = Disowned(matching, senders)
      PROVE  SettledInvs'
  <2>1. PlansInv'
    BY <1>0, <1>2, PlansRest DEF SettledInvs
  <2>2. TradeInv'
    BY <1>2, TradesFrame DEF SettledInvs
  <2> QED
    BY <1>1, <1>2, <2>1, <2>2 DEF SettledInvs
<1>3. CASE \/ OthersAct \/ SetIntervalMs \/ Restart \/ UNCHANGED venueVars
           \/ \E h \in Handlers : GetVenue(h)
           \/ \E r \in Readers : ReadPools(r) \/ ReadOrders(r)
  <2>1. pass' = pass /\ trades' = trades /\ matching' = matching /\ settled' = settled
    BY <1>3 DEF OthersAct, SetIntervalMs, Restart, GetVenue, ReadPools, ReadOrders,
                venueVars, serviceVars
  <2> QED
    BY <1>2, <2>1
<1>4. CASE TimerFires \/ PostMatch
  <2>1. trades' = trades /\ matching' = matching /\ settled' = settled
    BY <1>4 DEF TimerFires, PostMatch
  <2>2. pass' = pass \/ \E p \in Passes : \E by : BeginPass(p, by)
    BY <1>4 DEF TimerFires, PostMatch
  <2>3. \A q \in Passes : Same(q) \/ Away(q)
    BY <1>0, <2>2, BeginPlans
  <2> QED
    BY <1>2, <2>1, <2>3
<1>5. ASSUME NEW r \in Readers, RefreshDone(r) PROVE SettledInvs'
  <2>1. trades' = trades /\ settled' = settled
    BY <1>5 DEF RefreshDone
  <2>2. CASE r \in Handlers
    BY <1>2, <1>5, <2>1, <2>2 DEF RefreshDone
  <2>3. CASE r \notin Handlers
    <3>1. r \in Passes /\ pass[r].pc # "settle"
      BY <1>5, <2>3 DEF Readers, RefreshDone, HasRead, PassInv, AnswersFindTheirPass
    <3>2. \E plans, t, cached : Proceed(r, plans, t, cached)
      BY <1>5, <2>3 DEF RefreshDone
    <3>3. PlansInv' /\ \A q \in Passes : pass'[q].pc = "matched" => pass'[q] = pass[q]
      BY <1>0, <3>1, <3>2, ProceedPlans DEF SettledInvs
    <3>4. TradeInv'
      BY <2>1, <3>3, TradesFrame DEF SettledInvs
    <3> QED
      BY <1>1, <2>1, <3>3, <3>4 DEF SettledInvs
  <2> QED
    BY <2>2, <2>3
<1>6. ASSUME NEW r \in Readers, RefreshFails(r) PROVE SettledInvs'
  <2>1. matching' = matching /\ settled' = settled
    BY <1>6 DEF RefreshFails
  <2>2. \/ pass' = pass /\ trades' = trades
        \/ r \in Passes /\ Throw(r)
    BY <1>6 DEF RefreshFails, Readers
  <2>3. trades' \in {trades, << >>} /\ \A q \in Passes : Same(q) \/ Away(q)
    BY <1>0, <2>2, ThrowPlans
  <2> QED
    BY <1>2, <2>1, <2>3
<1>7. ASSUME NEW m \in matching, LedgerMatches(m) PROVE SettledInvs'
  BY <1>0, <1>7, MatchTrades
<1>8. ASSUME NEW m \in matching, LedgerRefuses(m) PROVE SettledInvs'
  <2>1. /\ trades' = trades /\ settled' = settled /\ matching' \in SUBSET matching
        /\ pass' = [p \in Passes |-> IF p = m.to THEN [pass[p] EXCEPT !.pc = "refused"]
                                     ELSE pass[p]]
    BY <1>8 DEF LedgerRefuses
  <2>2. PassInv /\ PlansInv
    BY DEF SettledInvs
  <2>3. \A p \in Passes :
          \/ p # m.to /\ pass'[p] = pass[p]
          \/ /\ p = m.to /\ AtPlan(p) /\ Fields(p)'
             /\ pass'[p].pc = "refused" /\ pass'[p].plans = pass[p].plans
             /\ pass'[p].buyer = pass[p].buyer /\ pass'[p].seller = pass[p].seller
    BY <2>1, <2>2, DecidedPlans
  <2>4. \A q \in Passes : Same(q) \/ Away(q)
    BY <2>3 DEF Fields
  <2> QED
    BY <1>2, <2>1, <2>4
<1>9. ASSUME NEW p \in Passes, MatchAnswered(p) PROVE SettledInvs'
  <2>1. settled' = settled
    BY <1>9 DEF MatchAnswered
  <2> QED
    BY <1>0, <1>1, <1>9, <2>1, AnswerTrades DEF SettledInvs
<1>10. ASSUME NEW p \in Passes, SettleFails(p) PROVE SettledInvs'
  <2> DEFINE r == [pass[p] EXCEPT !.pc = "recover"]
  <2>1. /\ trades' = trades /\ settled' = settled
        /\ matching' = matching \/ matching' = Disowned(matching, {p})
        /\ pass' = [pass EXCEPT ![p] = r]
    BY <1>10 DEF SettleFails
  <2>2. {"pc", "plans", "buyer", "seller"} \subseteq DOMAIN r /\ r.pc = "recover"
    BY DEF SettledInvs, PlansInv, Fields
  <2> HIDE DEF r
  <2>3. \A q \in Passes : Same(q) \/ Away(q)
    BY <1>0, <2>1, <2>2 DEF Shapes
  <2> QED
    BY <1>2, <2>1, <2>3
<1>11. ASSUME NEW m \in rejecting, LedgerRejects(m) PROVE SettledInvs'
  <2>1. /\ trades' = trades /\ settled' = settled /\ matching' = matching
        /\ pass' = pass \/ pass' = [pass EXCEPT ![m.to] = IdlePass]
    BY <1>11 DEF LedgerRejects
  <2>2. \A q \in Passes : Same(q) \/ Away(q)
    BY <1>0, <2>1, IdleFields DEF Shapes
  <2> QED
    BY <1>2, <2>1, <2>2
<1>12. ASSUME NEW m \in rejecting, RejectFails(m) PROVE SettledInvs'
  <2>1. matching' = matching /\ settled' = settled
    BY <1>12 DEF RejectFails
  <2>2. \/ pass' = pass /\ trades' = trades
        \/ m.to \in Passes /\ Throw(m.to)
    BY <1>12 DEF RejectFails
  <2>3. trades' \in {trades, << >>} /\ \A q \in Passes : Same(q) \/ Away(q)
    BY <1>0, <2>2, ThrowPlans
  <2> QED
    BY <1>2, <2>1, <2>3
<1>13. CASE Crash
  <2>1. Exit /\ matching' = Disowned(matching, Passes) /\ settled' = settled
    BY <1>13 DEF Crash
  <2>2. trades' = << >> /\ \A q \in Passes : Same(q) \/ Away(q)
    <3>1. trades' = << >> /\ pass' = [q \in Passes |-> IdlePass]
      BY <2>1 DEF Exit
    <3> QED
      BY <3>1, IdleFields
  <2> QED
    BY <1>2, <2>1, <2>2
<1> QED
  BY <1>3, <1>4, <1>5, <1>6, <1>7, <1>8, <1>9, <1>10, <1>11, <1>12, <1>13 DEF VenueNext

\* settlement.ts records a trade when submit returns: whatever answers were
\* lost, passes cut short and pairs submitted again, each trade on record did
\* settle, between the traders it names, and is there once.
THEOREM TradesAreTrue == VenueSpec => []TradesAreSettled
<1>1. VenueInit => SettledInvs
  <2> SUFFICES ASSUME VenueInit PROVE SettledInvs
    OBVIOUS
  <2>1. /\ pass = [p \in Passes |-> IdlePass] /\ matching = {} /\ settled = {}
        /\ trades = << >>
    BY DEF VenueInit
  <2>2. \A p \in Passes : /\ pass[p].pc = "idle"
                          /\ {"pc", "plans", "buyer", "seller"} \subseteq DOMAIN pass[p]
    BY <2>1, IdleFields
  <2>3. trades \in Seq(Recorded) /\ DOMAIN trades = {}
    BY <2>1
  <2>4. TradeInv
    BY <2>2, <2>3 DEF TradeInv, TradesAreSettled
  <2>5. PlansInv /\ SettledInv
    BY <2>1, <2>2 DEF PlansInv, SettledInv, Fields, AtPlan
  <2> QED
    BY <2>4, <2>5 DEF SettledInvs
<1>2. SettledInvs => TradesAreSettled
  BY DEF SettledInvs, TradeInv
<1>3. VenueSpec => []IInv
  BY ServiceActsLawfully, Invariance, PTL DEF LedgerSpec
<1> QED
  BY <1>1, <1>2, <1>3, SettledNext, PassInvariance, PTL DEF VenueSpec

-----------------------------------------------------------------------------
\* What everything is.  A cache is a book of numbered orders, so the plans that
\* the matcher makes of it are pairs of orders, and stay so wherever they go.

PoolType == {NoPool} \cup [market : {Market}, minFillFloor : PosNat]

Books == {book \in SUBSET Order : Numbered(book)}

Caches == [pool : PoolType, orders : Books]

ReadType == [open : BOOLEAN,
             pool : {Unread} \cup [read : {TRUE}, value : PoolType],
             orders : {Unread} \cup [read : {TRUE}, value : Books]]

PlanLists == Seq(PlanOf(Order))

Someone == Parties \cup {Unknown}

Steps == {"idle", "refresh", "settle", "matched", "refused", "recover", "sweep"}

PassRecord(t) == [pc : Steps, by : {"timer", Request}, now : 0 .. t,
                  plans : PlanLists, buyer : Someone, seller : Someone]

\* A pass that settles, or recovers from it, has the plan it is about.
PassType(t) ==
  {r \in PassRecord(t) : r.pc \in {"settle", "matched", "refused", "recover"}
                           => r.plans # << >>}

Rejections == [order : Order, to : Passes \cup {Nobody}]

TypeInv ==
  /\ view \in Caches
  /\ reads \in [Readers -> ReadType]
  /\ pass \in [Passes -> PassType(now)]
  /\ matching \subseteq Messages
  /\ rejecting \subseteq Rejections
  /\ settled \subseteq [buy : Order, sell : Order]
  /\ running \in BOOLEAN /\ timer \in BOOLEAN /\ up \in BOOLEAN
  /\ configured \in BOOLEAN /\ faults \in 0 .. MaxFaults

LEMMA TypeInvGivesTypes ==
  ASSUME TypeInv
  PROVE  VenueTypeOK
<1>1. /\ view.orders \subseteq Order
      /\ view.pool = NoPool \/ view.pool \in [market : {Market}, minFillFloor : PosNat]
  BY DEF TypeInv, Caches, Books, PoolType
<1>2. DOMAIN reads = Readers
  BY DEF TypeInv
<1>3. \A p \in Passes : pass[p] \in PassRecord(now)
  BY DEF TypeInv, PassType
<1>4. ASSUME NEW p \in Passes
      PROVE  /\ pass[p].pc \in Steps /\ pass[p].now \in 0 .. now
             /\ {pass[p].buyer, pass[p].seller} \subseteq Someone
  BY <1>3 DEF PassRecord
<1> QED
  BY <1>1, <1>2, <1>4 DEF TypeInv, VenueTypeOK, Steps, Someone, Rejections

LEMMA NoPlans ==
  /\ << >> \in PlanLists
  /\ \A plans \in PlanLists :
       plans # << >> => plans[1] \in PlanOf(Order) /\ Tail(plans) \in PlanLists
  BY DEF PlanLists

LEMMA IdleType ==
  ASSUME NEW t \in Nat
  PROVE  /\ IdlePass \in PassType(t)
         /\ \A x \in {"refresh", "sweep"}, y \in {"timer", Request} :
              [IdlePass EXCEPT !.pc = x, !.by = y] \in PassType(t)
<1>1. 0 \in 0 .. t /\ << >> \in PlanLists /\ Unknown \in Someone
  BY NoPlans DEF Someone
<1>2. IdlePass \in PassRecord(t) /\ IdlePass.pc = "idle"
  BY <1>1 DEF IdlePass, PassRecord, Steps
<1>3. ASSUME NEW x \in {"refresh", "sweep"}, NEW y \in {"timer", Request}
      PROVE  LET r == [IdlePass EXCEPT !.pc = x, !.by = y]
             IN  r \in PassRecord(t) /\ r.pc = x
  BY <1>1 DEF IdlePass, PassRecord, Steps
<1> QED
  BY <1>2, <1>3 DEF PassType

\* A pass that goes on to another step of settling the same plan.
LEMMA MovedType ==
  ASSUME NEW t, NEW r \in PassType(t), r.plans # << >>,
         NEW x \in {"matched", "refused", "recover"}
  PROVE  [r EXCEPT !.pc = x] \in PassType(t)
<1>1. r \in PassRecord(t)
  BY DEF PassType
<1>2. LET q == [r EXCEPT !.pc = x] IN q \in PassRecord(t) /\ q.plans = r.plans
  BY <1>1 DEF PassRecord, Steps
<1> QED
  BY <1>2 DEF PassType

LEMMA ReadTypes ==
  /\ Closed \in ReadType /\ Opened \in ReadType
  /\ \A r \in ReadType, p \in PoolType, book \in Books :
       /\ [r EXCEPT !.pool = Snapshot(p)] \in ReadType
       /\ [r EXCEPT !.orders = Snapshot(book)] \in ReadType
       /\ r.pool.read => r.pool.value \in PoolType
       /\ r.orders.read => r.orders.value \in Books
<1>1. Closed \in ReadType /\ Opened \in ReadType
  BY DEF Closed, Opened, ReadType
<1>2. ASSUME NEW r \in ReadType, NEW p \in PoolType, NEW book \in Books
      PROVE  /\ [r EXCEPT !.pool = Snapshot(p)] \in ReadType
             /\ [r EXCEPT !.orders = Snapshot(book)] \in ReadType
             /\ r.pool.read => r.pool.value \in PoolType
             /\ r.orders.read => r.orders.value \in Books
  <2>1. /\ Snapshot(p) \in [read : {TRUE}, value : PoolType]
        /\ Snapshot(book) \in [read : {TRUE}, value : Books]
    BY DEF Snapshot
  <2>2. Unread.read = FALSE
    BY DEF Unread
  <2> QED
    BY <2>1, <2>2 DEF ReadType
<1> QED
  BY <1>1, <1>2

\* What the ledger is when a service looks at it.
LEMMA LedgerCache ==
  ASSUME IInv, BookInv
  PROVE  pool \in PoolType /\ orders \in Books /\ now \in Nat
  BY DEF IInv, TypeOK, RegistryTypeOK, BookInv, PoolType, Books

\* The synchronous code of a pass keeps the types.
LEMMA ProceedTypes ==
  ASSUME TypeInv, now \in Nat, NEW p \in Passes, NEW plans \in PlanLists, NEW t \in 0 .. now,
         NEW cached \in Caches, Proceed(p, plans, t, cached)
  PROVE  /\ pass' \in [Passes -> PassType(now)]
         /\ matching' \subseteq Messages /\ rejecting' \subseteq Rejections
         /\ running' \in BOOLEAN /\ timer' \in BOOLEAN
<1>0. /\ pass \in [Passes -> PassType(now)]
      /\ matching \subseteq Messages /\ rejecting \subseteq Rejections
      /\ running \in BOOLEAN /\ timer \in BOOLEAN
  BY DEF TypeInv
<1>1. pass[p].by \in {"timer", Request}
  BY <1>0 DEF PassType, PassRecord
<1>2. cached.orders \subseteq Order
  BY DEF Caches, Books
<1>3. CASE plans # << >>
  <2> DEFINE r == [pc |-> "settle", by |-> pass[p].by, now |-> t, plans |-> plans,
                   buyer |-> TraderOf(plans[1].buy, cached),
                   seller |-> TraderOf(plans[1].sell, cached)]
             m == [pair |-> Pair(plans[1]), to |-> p]
  <2>1. /\ pass' = [pass EXCEPT ![p] = r] /\ matching' = matching \cup {m}
        /\ running' = running /\ timer' = timer /\ rejecting' = rejecting
    BY <1>3 DEF Proceed
  <2>2. \A o : TraderOf(o, cached) \in Someone
    BY <1>2 DEF TraderOf, Someone, Order
  <2>3. r \in PassRecord(now) /\ r.plans # << >>
    BY <1>1, <1>3, <2>2 DEF PassRecord, Steps
  <2>4. r \in PassType(now)
    BY <2>3 DEF PassType
  <2>5. plans[1].buy \in Order /\ plans[1].sell \in Order
    BY <1>3, NoPlans DEF PlanOf
  <2>6. m \in Messages
    BY <2>5 DEF Messages, Pair
  <2> HIDE DEF r, m
  <2> QED
    BY <1>0, <2>1, <2>4, <2>6
<1>4. CASE plans = << >> /\ Stale(cached, t) # {}
  <2> DEFINE r == [IdlePass EXCEPT !.pc = "sweep", !.by = pass[p].by]
             new == {[order |-> o, to |-> p] : o \in Stale(cached, t)}
  <2>1. /\ pass' = [pass EXCEPT ![p] = r] /\ rejecting' = rejecting \cup new
        /\ running' = running /\ timer' = timer /\ matching' = matching
    BY <1>4 DEF Proceed
  <2>2. r \in PassType(now)
    BY <1>1, IdleType
  <2>3. new \subseteq Rejections
    BY <1>2 DEF Stale, Rejections
  <2> HIDE DEF r, new
  <2> QED
    BY <1>0, <2>1, <2>2, <2>3
<1>5. CASE plans = << >> /\ Stale(cached, t) = {}
  <2>1. /\ pass' = [pass EXCEPT ![p] = IdlePass] /\ running' = FALSE /\ timer' = TRUE
        /\ matching' = matching /\ rejecting' = rejecting
    BY <1>5 DEF Proceed
  <2> QED
    BY <1>0, <2>1, IdleType
<1> QED
  BY <1>3, <1>4, <1>5

LEMMA DisownedTypes ==
  ASSUME NEW senders
  PROVE  /\ \A left \in SUBSET Messages : Disowned(left, senders) \subseteq Messages
         /\ \A left \in SUBSET Rejections : Disowned(left, senders) \subseteq Rejections
<1>1. \A m \in Messages : [m EXCEPT !.to = Nobody] \in Messages
  BY DEF Messages
<1>2. \A m \in Rejections : [m EXCEPT !.to = Nobody] \in Rejections
  BY DEF Rejections
<1> QED
  BY <1>1, <1>2 DEF Disowned

\* The end of a process, or of a pass that throws.
LEMMA ThrowTypes ==
  ASSUME TypeInv, now \in Nat, NEW p \in Passes, Throw(p) \/ Exit
  PROVE  /\ view' \in Caches /\ reads' \in [Readers -> ReadType]
         /\ pass' \in [Passes -> PassType(now)]
         /\ running' \in BOOLEAN /\ timer' \in BOOLEAN /\ up' \in BOOLEAN
<1>1. [pool |-> NoPool, orders |-> {}] \in Caches
  BY DEF Caches, Books, PoolType, Numbered
<1>2. CASE Exit
  BY <1>1, <1>2, IdleType, ReadTypes DEF Exit
<1>3. CASE Throw(p) /\ ~Exit
  <2>1. /\ pass' = [pass EXCEPT ![p] = IdlePass] /\ reads' = [reads EXCEPT ![p] = Closed]
        /\ running' = FALSE /\ timer' = TRUE /\ view' = view /\ up' = up
    BY <1>3 DEF Throw
  <2> QED
    BY <2>1, IdleType, ReadTypes DEF TypeInv
<1> QED
  BY <1>2, <1>3

\* Each action of the service keeps the types, as of the time it is taken.
LEMMA ActionTypes ==
  ASSUME PassInv, TypeInv, IInv, BookInv, IInv', BookInv', VenueNext
  PROVE  /\ view' \in Caches /\ reads' \in [Readers -> ReadType]
         /\ pass' \in [Passes -> PassType(now)]
         /\ matching' \subseteq Messages /\ rejecting' \subseteq Rejections
         /\ settled' \subseteq [buy : Order, sell : Order]
         /\ running' \in BOOLEAN /\ timer' \in BOOLEAN /\ up' \in BOOLEAN
         /\ configured' \in BOOLEAN /\ faults' \in 0 .. MaxFaults
<1> DEFINE Goal == /\ view' \in Caches /\ reads' \in [Readers -> ReadType]
                   /\ pass' \in [Passes -> PassType(now)]
                   /\ matching' \subseteq Messages /\ rejecting' \subseteq Rejections
                   /\ settled' \subseteq [buy : Order, sell : Order]
                   /\ running' \in BOOLEAN /\ timer' \in BOOLEAN /\ up' \in BOOLEAN
                   /\ configured' \in BOOLEAN /\ faults' \in 0 .. MaxFaults
<1>0. /\ view \in Caches /\ reads \in [Readers -> ReadType]
      /\ pass \in [Passes -> PassType(now)]
      /\ matching \subseteq Messages /\ rejecting \subseteq Rejections
      /\ settled \subseteq [buy : Order, sell : Order]
      /\ running \in BOOLEAN /\ timer \in BOOLEAN /\ up \in BOOLEAN
      /\ configured \in BOOLEAN /\ faults \in 0 .. MaxFaults
  BY DEF TypeInv
<1>00. /\ now \in Nat /\ pool \in PoolType /\ orders \in Books
       /\ MaxFaults \in Nat /\ Passes \subseteq Readers
       /\ faults < MaxFaults => faults + 1 \in 0 .. MaxFaults
  BY <1>0, LedgerCache, VenueAssumption DEF Readers
<1>1. CASE OthersAct
  BY <1>0, <1>1 DEF OthersAct, serviceVars
<1>2. ASSUME NEW p \in Passes, NEW by \in {"timer", Request}, BeginPass(p, by)
      PROVE  /\ pass' \in [Passes -> PassType(now)] /\ reads' \in [Readers -> ReadType]
             /\ running' \in BOOLEAN
  <2> DEFINE r == [IdlePass EXCEPT !.pc = "refresh", !.by = by]
  <2>1. r \in PassType(now)
    BY <1>00, IdleType
  <2>2. /\ pass' = [pass EXCEPT ![p] = r] /\ reads' = [reads EXCEPT ![p] = Opened]
        /\ running' = TRUE
    BY <1>2 DEF BeginPass
  <2> HIDE DEF r
  <2> QED
    BY <1>0, <2>1, <2>2, ReadTypes
<1>3. CASE TimerFires \/ PostMatch \/ SetIntervalMs
  <2>1. CASE TimerFires
    BY <1>0, <1>2, <2>1 DEF TimerFires
  <2>2. CASE PostMatch
    BY <1>0, <1>2, <2>2 DEF PostMatch
  <2>3. CASE SetIntervalMs
    BY <1>0, <2>3 DEF SetIntervalMs
  <2> QED
    BY <1>3, <2>1, <2>2, <2>3
<1>4. ASSUME NEW h \in Handlers, GetVenue(h) PROVE Goal
  BY <1>0, <1>4, ReadTypes DEF GetVenue
<1>5. ASSUME NEW r \in Readers, ReadPools(r) \/ ReadOrders(r) PROVE Goal
  <2>1. \/ reads' = [reads EXCEPT ![r] = [reads[r] EXCEPT !.pool = Snapshot(pool)]]
        \/ reads' = [reads EXCEPT ![r] = [reads[r] EXCEPT !.orders = Snapshot(orders)]]
    BY <1>5 DEF ReadPools, ReadOrders
  <2>2. /\ [reads[r] EXCEPT !.pool = Snapshot(pool)] \in ReadType
        /\ [reads[r] EXCEPT !.orders = Snapshot(orders)] \in ReadType
    BY <1>0, <1>00, ReadTypes
  <2>3. reads' \in [Readers -> ReadType]
    BY <1>0, <2>1, <2>2
  <2> QED
    BY <1>0, <1>5, <2>3 DEF ReadPools, ReadOrders
<1>6. ASSUME NEW r \in Readers, RefreshDone(r) PROVE Goal
  <2>1. /\ view' = ReadBy(r) /\ reads' = [reads EXCEPT ![r] = Closed] /\ HasRead(r)
        /\ UNCHANGED <<up, configured, settled, faults>>
    BY <1>6 DEF RefreshDone
  <2>2. reads' \in [Readers -> ReadType]
    BY <1>0, <2>1, ReadTypes
  <2>3. ReadBy(r) \in Caches
    <3>1. reads[r].pool.value \in PoolType /\ reads[r].orders.value \in Books
      BY <1>0, <1>00, <2>1, ReadTypes DEF HasRead
    <3> QED
      BY <3>1 DEF ReadBy, Caches
  <2>4. CASE r \in Handlers
    BY <1>0, <1>6, <2>1, <2>2, <2>3, <2>4 DEF RefreshDone
  <2>5. CASE r \notin Handlers
    <3>1. r \in Passes /\ now \in 0 .. now
      BY <1>00, <2>5 DEF Readers
    <3>2. pass[r] \in PassType(now) /\ pass[r].now \in 0 .. now /\ pass[r].plans \in PlanLists
      BY <1>0, <3>1 DEF PassType, PassRecord
    <3>3. ASSUME NEW plans \in PlanLists, NEW t \in 0 .. now, Proceed(r, plans, t, ReadBy(r))
          PROVE  Goal
      BY <1>0, <1>00, <2>1, <2>2, <2>3, <3>1, <3>3, ProceedTypes
    <3>4. CASE pass[r].pc = "refresh"
      <4> DEFINE plans == IF ReadBy(r).pool = NoPool THEN << >>
                          ELSE FindMatches(ReadBy(r).pool, ReadBy(r).orders, now)
      <4>1. ReadBy(r).orders \in SUBSET Order /\ Numbered(ReadBy(r).orders)
        BY <2>3 DEF Caches, Books
      <4>2. FindMatches(ReadBy(r).pool, ReadBy(r).orders, now) \in PlanLists
        BY <4>1, PlansFacts, OrdersAreQuoted DEF PlanLists
      <4>3. plans \in PlanLists
        BY <4>2, NoPlans
      <4>4. Proceed(r, plans, now, ReadBy(r))
        BY <1>6, <2>5, <3>4 DEF RefreshDone
      <4> HIDE DEF plans, Goal
      <4> QED
        BY <3>1, <3>3, <4>3, <4>4
    <3>5. CASE pass[r].pc # "refresh"
      <4>1. pass[r].pc = "recover"
        BY <2>1, <3>1, <3>5 DEF PassInv, AnswersFindTheirPass, HasRead
      <4>2. Tail(pass[r].plans) \in PlanLists
        BY <3>2, <4>1, NoPlans DEF PassType
      <4>3. Proceed(r, Tail(pass[r].plans), pass[r].now, ReadBy(r))
        BY <1>6, <2>5, <3>5 DEF RefreshDone
      <4> HIDE DEF Goal
      <4> QED
        BY <3>2, <3>3, <4>2, <4>3
    <3> QED
      BY <3>4, <3>5
  <2> QED
    BY <2>4, <2>5
<1>7. ASSUME NEW r \in Readers, RefreshFails(r) PROVE Goal
  <2>1. CASE r \in Handlers
    BY <1>0, <1>00, <1>7, <2>1, ReadTypes DEF RefreshFails
  <2>2. CASE r \notin Handlers
    <3>1. /\ r \in Passes /\ Throw(r) /\ rejecting' = ThrowingDisowns(r, rejecting)
          /\ faults' \in 0 .. MaxFaults /\ UNCHANGED <<matching, configured, settled>>
      BY <1>00, <1>7, <2>2 DEF RefreshFails, Readers
    <3>2. rejecting' \subseteq Rejections
      BY <1>0, <3>1, DisownedTypes DEF ThrowingDisowns
    <3> QED
      BY <1>0, <1>00, <3>1, <3>2, ThrowTypes
  <2> QED
    BY <2>1, <2>2
<1>8. ASSUME NEW m \in matching, NEW x \in {"matched", "refused"},
             pass' = [q \in Passes |-> IF q = m.to THEN [pass[q] EXCEPT !.pc = x]
                                       ELSE pass[q]]
      PROVE  pass' \in [Passes -> PassType(now)]
  <2>1. ASSUME NEW q \in Passes, q = m.to PROVE [pass[q] EXCEPT !.pc = x] \in PassType(now)
    <3>1. pass[q].pc = "settle"
      BY <2>1 DEF PassInv, AnswersFindTheirPass
    <3>2. pass[q] \in PassType(now) /\ pass[q].plans # << >>
      BY <1>0, <3>1 DEF PassType
    <3> QED
      BY <3>2, MovedType
  <2> QED
    BY <1>0, <1>8, <2>1
<1>9. ASSUME NEW m \in matching, LedgerMatches(m) PROVE Goal
  <2>1. pass' \in [Passes -> PassType(now)]
    BY <1>8, <1>9 DEF LedgerMatches
  <2>2. m.pair \in [buy : Order, sell : Order]
    BY <1>0 DEF Messages
  <2> QED
    BY <1>0, <1>9, <2>1, <2>2 DEF LedgerMatches
<1>10. ASSUME NEW m \in matching, LedgerRefuses(m) PROVE Goal
  <2>1. pass' \in [Passes -> PassType(now)]
    BY <1>8, <1>10 DEF LedgerRefuses
  <2> QED
    BY <1>0, <1>10, <2>1 DEF LedgerRefuses
<1>11. ASSUME NEW p \in Passes, MatchAnswered(p) PROVE Goal
  <2>1. /\ pass[p].pc = "matched" /\ Proceed(p, Tail(pass[p].plans), pass[p].now, view)
        /\ UNCHANGED <<view, reads, up, configured, settled, faults>>
    BY <1>11 DEF MatchAnswered
  <2>2. pass[p] \in PassRecord(now) /\ pass[p].plans # << >>
    BY <1>0, <2>1 DEF PassType
  <2>3. pass[p].now \in 0 .. now /\ Tail(pass[p].plans) \in PlanLists
    BY <2>2, NoPlans DEF PassRecord
  <2> QED
    BY <1>0, <1>00, <2>1, <2>3, ProceedTypes
<1>12. ASSUME NEW p \in Passes, SettleFails(p) PROVE Goal
  <2>1. /\ pass' = [pass EXCEPT ![p] = [pass[p] EXCEPT !.pc = "recover"]]
        /\ reads' = [reads EXCEPT ![p] = Opened]
        /\ pass[p].pc \in {"refused", "settle", "matched"}
        /\ UNCHANGED <<view, running, timer, up, rejecting, configured, settled>>
        /\ matching' = matching \/ matching' = Disowned(matching, {p})
        /\ faults' \in 0 .. MaxFaults
    BY <1>0, <1>00, <1>12 DEF SettleFails
  <2>2. pass[p] \in PassType(now) /\ pass[p].plans # << >>
    BY <1>0, <2>1 DEF PassType
  <2>3. [pass[p] EXCEPT !.pc = "recover"] \in PassType(now)
    BY <2>2, MovedType
  <2>4. matching' \subseteq Messages
    BY <1>0, <2>1, DisownedTypes
  <2>5. pass' \in [Passes -> PassType(now)] /\ reads' \in [Readers -> ReadType]
    BY <1>0, <2>1, <2>3, ReadTypes
  <2> QED
    BY <1>0, <2>1, <2>4, <2>5
<1>13. ASSUME NEW m \in rejecting, LedgerRejects(m) PROVE Goal
  <2>1. \/ UNCHANGED <<pass, running, timer>>
        \/ /\ pass' = [pass EXCEPT ![m.to] = IdlePass] /\ m.to \in Passes
           /\ running' = FALSE /\ timer' = TRUE
    BY <1>13 DEF LedgerRejects
  <2>2. /\ pass' \in [Passes -> PassType(now)]
        /\ running' \in BOOLEAN /\ timer' \in BOOLEAN
    BY <1>0, <1>00, <2>1, IdleType
  <2> QED
    BY <1>0, <1>13, <2>2 DEF LedgerRejects
<1>14. ASSUME NEW m \in rejecting, RejectFails(m) PROVE Goal
  <2>1. faults' \in 0 .. MaxFaults /\ UNCHANGED <<matching, configured, settled>>
    BY <1>0, <1>00, <1>14 DEF RejectFails
  <2>2. CASE m.to \in Passes
    <3>1. Throw(m.to) /\ rejecting' = ThrowingDisowns(m.to, rejecting \ {m})
      BY <1>14, <2>2 DEF RejectFails
    <3>2. rejecting' \subseteq Rejections
      BY <1>0, <3>1, DisownedTypes DEF ThrowingDisowns
    <3> QED
      BY <1>0, <1>00, <2>1, <2>2, <3>1, <3>2, ThrowTypes
  <2>3. CASE m.to \notin Passes
    BY <1>0, <1>14, <2>1, <2>3 DEF RejectFails
  <2> QED
    BY <2>2, <2>3
<1>15. CASE Crash
  <2>1. /\ Exit /\ faults' \in 0 .. MaxFaults /\ UNCHANGED <<configured, settled>>
        /\ matching' = Disowned(matching, Passes) /\ rejecting' = Disowned(rejecting, Passes)
    BY <1>00, <1>15 DEF Crash
  <2>2. matching' \subseteq Messages /\ rejecting' \subseteq Rejections
    BY <1>0, <2>1, DisownedTypes
  <2>3. /\ pass' \in [Passes -> PassType(now)] /\ reads' \in [Readers -> ReadType]
        /\ view' \in Caches /\ running' = FALSE /\ timer' = FALSE /\ up' = FALSE
    <3>1. [pool |-> NoPool, orders |-> {}] \in Caches
      BY DEF Caches, Books, PoolType, Numbered
    <3> QED
      BY <1>00, <2>1, <3>1, IdleType, ReadTypes DEF Exit
  <2> QED
    BY <1>0, <2>1, <2>2, <2>3
<1>16. CASE Restart
  <2>1. [pool |-> pool, orders |-> orders] \in Caches
    BY <1>00 DEF Caches
  <2> QED
    BY <1>0, <1>16, <2>1 DEF Restart
<1> QED
  BY <1>1, <1>3, <1>4, <1>5, <1>6, <1>7, <1>9, <1>10, <1>11, <1>12, <1>13, <1>14, <1>15, <1>16
  DEF VenueNext

\* projection.ts, scheduler.ts, settlement.ts: whatever is read, matched, lost
\* or restarted, the cache is a book of the pool, a pass is at one of its steps
\* at a time not after the ledger's, and what is submitted names orders.
THEOREM VenueTypeCorrect == VenueSpec => []VenueTypeOK
<1>1. ASSUME Init, IInv, BookInv, VenueInit PROVE TypeInv
  <2>1. now \in Nat /\ [pool |-> pool, orders |-> orders] \in Caches
    BY <1>1, LedgerCache DEF Caches
  <2>2. pass \in [Passes -> PassType(now)] /\ reads \in [Readers -> ReadType]
    BY <1>1, <2>1, IdleType, ReadTypes DEF VenueInit
  <2>3. 0 \in 0 .. MaxFaults
    BY VenueAssumption
  <2> QED
    BY <1>1, <2>1, <2>2, <2>3 DEF VenueInit, TypeInv
<1>2. ASSUME PassInv, TypeInv, IInv, BookInv, IInv', BookInv', [VenueNext]_venueVars
      PROVE  TypeInv'
  <2>1. CASE UNCHANGED venueVars
    <3>1. /\ UNCHANGED <<view, reads, pass, matching, rejecting, settled, running, timer, up>>
          /\ UNCHANGED <<configured, faults, now>>
      BY <2>1 DEF venueVars, serviceVars, ledgerVars, vars
    <3> QED
      BY <1>2, <3>1 DEF TypeInv
  <2>2. CASE VenueNext
    <3>1. now \in Nat /\ now' \in Nat /\ now <= now'
      BY <1>2, StepsLawfully, TimePasses DEF IInv, TypeOK, RegistryTypeOK
    <3>2. \A n : n \in 0 .. now => n \in 0 .. now'
      BY <3>1
    <3>3. PassType(now) \subseteq PassType(now')
      BY <3>2 DEF PassType, PassRecord
    <3>4. pass' \in [Passes -> PassType(now)]
      BY <1>2, <2>2, ActionTypes
    <3>5. pass' \in [Passes -> PassType(now')]
      BY <3>3, <3>4
    <3> QED
      BY <1>2, <2>2, <3>5, ActionTypes DEF TypeInv
  <2> QED
    BY <1>2, <2>1, <2>2
<1>3. VenueSpec => [](IInv /\ BookInv)
  BY ServiceActsLawfully, Invariance, BookInvariance, PTL DEF LedgerSpec
<1>4. VenueInit => Init
  BY DEF VenueInit
<1>5. TypeInv => VenueTypeOK
  BY TypeInvGivesTypes
<1> QED
  BY <1>1, <1>2, <1>3, <1>4, <1>5, PassInvariance, PTL DEF VenueSpec

=============================================================================
