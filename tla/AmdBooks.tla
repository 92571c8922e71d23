------------------------------ MODULE AmdBooks ------------------------------
(***************************************************************************)
(* The AMD engine: every five minutes a poll may enter the trade of the    *)
(* day on each of its books (an OANDA account, and VT over MetaApi), and   *)
(* every thirty seconds a monitor ends the trades it finds in              *)
(* amd_trail_stop_state.  That table and bridge_trade_log are all the two  *)
(* have in common; no transaction spans them and no lock keeps one poll or *)
(* one cycle from overlapping the next.                                    *)
(***************************************************************************)
EXTENDS Naturals, FiniteSets

CONSTANTS Books,      \* AMD_BROKER_ID and AMD_VT_BROKER_ID
          Mt5,        \* the books behind MetaApi
          MaxTry,     \* bound: the trades of the day, per book
          LastSlot,   \* bound: the hours 0..LastSlot of the day
          EntryAt,    \* TAG_ENTRY_HOUR
          ExitAt,     \* TAG_HARD_EXIT_HOUR: no entry from here on
          GateAt,     \* TAG_TIME_GATE_HOUR; beyond LastSlot if the tag has none
          Polls,      \* bound: polls that may overlap
          Cycles,     \* bound: monitor cycles that may overlap
          Faults      \* which of FaultKinds may happen

FaultKinds == { "refuse",        \* a venue refuses an order
                "orderTimeout",  \* the client gives up on an order that is filled
                "closeError",    \* a close request fails, executed or not
                "closeCancel",   \* OANDA cancels a close, and the code takes it for done
                "count",         \* the EXECUTED rows cannot be counted, and are taken for none
                "snapshot",      \* a book, or the price, cannot be read
                "insert",        \* a row or trail state of a filled order is not inserted
                "update",        \* closing a trail state or a row fails unseen
                "crash" }        \* the process dies

ASSUME AmdAssumption ==
  /\ Mt5 \subseteq Books
  /\ MaxTry \in [Books -> Nat \ {0}] /\ LastSlot \in Nat
  /\ {EntryAt, ExitAt, GateAt} \subseteq Nat
  /\ Faults \subseteq FaultKinds

Trades == UNION {[book : {b}, try : 1..MaxTry[b]] : b \in Books}

VARIABLES
  up,       \* whether the process is up
  slot,     \* the hour, of one UTC day
  live,     \* the trade at its venue: "none", "open", "closed"
  row,      \* bridge_trade_log, decision EXECUTED: "none", "open", "closed"
  trail,    \* amd_trail_stop_state: "none", "open", "closed"
  leg,      \* per poll and book: "idle", "check", "order" or, if the rows could
            \* not be counted, "blind", "row", "trail", "done"
  placed,   \* the trade a leg has placed and not yet recorded
  at,       \* per cycle: "idle", "venues", "loop", "mark", "log"
  states,   \* the rows of amd_trail_stop_state a cycle still has to visit
  seen,     \* what a cycle saw: the books that answered, their trades, the hour
  ending    \* the trade a cycle found or made closed and is recording

vars == <<up, slot, live, row, trail, leg, placed, at, states, seen, ending>>

records  == <<live, row, trail>>
pollVars == <<leg, placed>>
cycle    == <<at, states, seen, ending>>

Snapshots == [books : SUBSET Books, trades : SUBSET Trades, hour : 0..LastSlot]
Nothing   == [books |-> {}, trades |-> {}, hour |-> 0]

(* Type invariant of the tables, the venues, the polls and the cycles.     *)
TypeOK ==
  /\ up \in BOOLEAN
  /\ slot \in 0..LastSlot
  /\ live  \in [Trades -> {"none", "open", "closed"}]
  /\ row   \in [Trades -> {"none", "open", "closed"}]
  /\ trail \in [Trades -> {"none", "open", "closed"}]
  /\ leg \in [Polls -> [Books -> {"idle", "check", "order", "blind", "row", "trail", "done"}]]
  /\ placed \in [Polls -> [Books -> SUBSET Trades]]
  /\ at \in [Cycles -> {"idle", "venues", "loop", "mark", "log"}]
  /\ states \in [Cycles -> SUBSET Trades]
  /\ seen \in [Cycles -> Snapshots]
  /\ ending \in [Cycles -> SUBSET Trades]

Init ==
  /\ up = TRUE
  /\ slot = 0
  /\ live  = [t \in Trades |-> "none"]
  /\ row   = [t \in Trades |-> "none"]
  /\ trail = [t \in Trades |-> "none"]
  /\ leg = [p \in Polls |-> [b \in Books |-> "idle"]]
  /\ placed = [p \in Polls |-> [b \in Books |-> {}]]
  /\ at = [c \in Cycles |-> "idle"]
  /\ states = [c \in Cycles |-> {}]
  /\ seen = [c \in Cycles |-> Nothing]
  /\ ending = [c \in Cycles |-> {}]

-----------------------------------------------------------------------------
(* Names with Bug are mistakes a change to the code could make; no         *)
(* specification uses them: the properties are tested against them.        *)

Executed(b) == \E t \in Trades : t.book = b /\ row[t] # "none"
Unused(b)   == {t \in Trades : t.book = b /\ live[t] = "none"}
NextTry(b)  == CHOOSE t \in Unused(b) : TRUE

Waiting(p)  == \E b \in Books : leg[p][b] # "idle"

Clock ==
  /\ slot < LastSlot /\ slot' = slot + 1
  /\ UNCHANGED <<up, records, pollVars, cycle>>

(* checkAndExecute: the gates that only read (the switch, the tag, the     *)
(* direction, the Asian close, the engine, the news) are the choice not to *)
(* start.  node-cron does not wait for the poll before; all that can hold  *)
(* one for five minutes is a MetaApi session that is still connecting.     *)
PollStart(p) ==
  /\ up
  /\ ~Waiting(p)
  /\ \A q \in Polls, b \in Books \ Mt5 : leg[q][b] \in {"idle", "done"}
  /\ slot \in EntryAt..ExitAt-1
  /\ "count" \in Faults \/ \E b \in Books : ~Executed(b)
  /\ leg' = [leg EXCEPT ![p] = [b \in Books |-> "check"]]
  /\ UNCHANGED <<up, slot, records, placed, cycle>>

LegTo(p, b, label) == leg' = [leg EXCEPT ![p][b] = label]

(* hasAmdVenueExecutedToday drops the error of its query: a leg whose rows *)
(* cannot be counted goes on as if there were none.  The VT book may also  *)
(* be switched off, without a route or with an unhealthy one.              *)
LegCheckBugNoGuard(p, b) ==
  /\ up
  /\ leg[p][b] = "check"
  /\ \/ LegTo(p, b, "order")
     \/ b \in Mt5 /\ LegTo(p, b, "done")
  /\ UNCHANGED <<up, slot, records, placed, cycle>>

LegCheck(p, b) ==
  /\ up
  /\ leg[p][b] = "check"
  /\ \/ ~Executed(b) /\ LegTo(p, b, "order")
     \/ "count" \in Faults /\ Executed(b) /\ LegTo(p, b, "blind")
     \/ (Executed(b) \/ b \in Mt5) /\ LegTo(p, b, "done")
  /\ UNCHANGED <<up, slot, records, placed, cycle>>

(* The order is filled, or the venue refuses it and the leg logs BLOCKED;  *)
(* an order that throws ends the leg, and only this one.                   *)
LegOrder(p, b) ==
  /\ up
  /\ leg[p][b] \in {"order", "blind"}
  /\ \/ /\ Unused(b) # {}
        /\ live' = [live EXCEPT ![NextTry(b)] = "open"]
        /\ \/ placed' = [placed EXCEPT ![p][b] = {NextTry(b)}] /\ LegTo(p, b, "row")
           \/ "orderTimeout" \in Faults /\ LegTo(p, b, "done") /\ UNCHANGED placed
     \/ /\ "refuse" \in Faults \/ Unused(b) = {}
        /\ LegTo(p, b, "done")
        /\ UNCHANGED <<live, placed>>
  /\ UNCHANGED <<up, slot, row, trail, cycle>>

LegRow(p, b) ==
  /\ up
  /\ leg[p][b] = "row"
  /\ \/ row' = [t \in Trades |-> IF t \in placed[p][b] THEN "open" ELSE row[t]]
     \/ "insert" \in Faults /\ UNCHANGED row
  /\ LegTo(p, b, "trail")
  /\ UNCHANGED <<up, slot, live, trail, placed, cycle>>

LegTrail(p, b) ==
  /\ up
  /\ leg[p][b] = "trail"
  /\ \/ trail' = [t \in Trades |-> IF t \in placed[p][b] THEN "open" ELSE trail[t]]
     \/ "insert" \in Faults /\ UNCHANGED trail
  /\ placed' = [placed EXCEPT ![p][b] = {}]
  /\ LegTo(p, b, "done")
  /\ UNCHANGED <<up, slot, live, row, cycle>>

(* Promise.allSettled over the two legs. *)
PollEnd(p) ==
  /\ up
  /\ \A b \in Books : leg[p][b] = "done"
  /\ leg' = [leg EXCEPT ![p] = [b \in Books |-> "idle"]]
  /\ UNCHANGED <<up, slot, records, placed, cycle>>

-----------------------------------------------------------------------------
CycleTo(c, label) == at' = [at EXCEPT ![c] = label]

(* runAmdTrailMonitor: the rows first, then one snapshot of each book.     *)
CycleStart(c) ==
  /\ up
  /\ at[c] = "idle"
  /\ \E t \in Trades : trail[t] = "open"
  /\ states' = [states EXCEPT ![c] = {t \in Trades : trail[t] = "open"}]
  /\ CycleTo(c, "venues")
  /\ UNCHANGED <<up, slot, records, pollVars, seen, ending>>

(* A book that does not answer is left out, and with it its rows.          *)
VenuesBugSilentIsEmpty(c) ==
  /\ up
  /\ at[c] = "venues"
  /\ \E answers \in (IF "snapshot" \in Faults THEN SUBSET Books ELSE {Books}) :
       seen' = [seen EXCEPT ![c] =
                 [books |-> Books, hour |-> slot,
                  trades |-> {t \in Trades : t.book \in answers /\ live[t] = "open"}]]
  /\ CycleTo(c, "loop")
  /\ UNCHANGED <<up, slot, records, pollVars, states, ending>>

Venues(c) ==
  /\ up
  /\ at[c] = "venues"
  /\ \E answers \in (IF "snapshot" \in Faults THEN SUBSET Books ELSE {Books}) :
       seen' = [seen EXCEPT ![c] =
                 [books |-> answers, hour |-> slot,
                  trades |-> {t \in Trades : t.book \in answers /\ live[t] = "open"}]]
  /\ CycleTo(c, "loop")
  /\ UNCHANGED <<up, slot, records, pollVars, states, ending>>

NoPrice(c) ==
  /\ up
  /\ at[c] = "venues"
  /\ "snapshot" \in Faults
  /\ states' = [states EXCEPT ![c] = {}]
  /\ CycleTo(c, "idle")
  /\ UNCHANGED <<up, slot, records, pollVars, seen, ending>>

Visits(c, t) == up /\ at[c] = "loop" /\ t \in states[c]
Visited(c, t) == states' = [states EXCEPT ![c] = @ \ {t}]

DueBugLater(c) == seen[c].hour > GateAt

Due(c) == seen[c].hour >= GateAt

(* No exit: its book was silent, or neither gate, trail nor abort fired.   *)
Leave(c, t) ==
  /\ Visits(c, t)
  /\ \/ t.book \notin seen[c].books
     \/ t \in seen[c].trades /\ ~Due(c)
  /\ Visited(c, t)
  /\ UNCHANGED <<up, slot, records, pollVars, at, seen, ending>>

(* handleExternalClose; the details of the close may be missing.           *)
Gone(c, t) ==
  /\ Visits(c, t)
  /\ t.book \in seen[c].books /\ t \notin seen[c].trades
  /\ ending' = [ending EXCEPT ![c] = {t}]
  /\ Visited(c, t)
  /\ CycleTo(c, "mark")
  /\ UNCHANGED <<up, slot, records, pollVars, seen>>

(* closeAmdTrade: at the time gate always, else when the price calls for   *)
(* it.  A close that throws, whatever it did, leaves the rows as they are. *)
CloseWorks(c, t) ==
  /\ Visits(c, t)
  /\ t \in seen[c].trades
  /\ live[t] = "open"
  /\ \/ live' = [live EXCEPT ![t] = "closed"]
     \/ "closeCancel" \in Faults /\ t.book \notin Mt5 /\ UNCHANGED live
  /\ ending' = [ending EXCEPT ![c] = {t}]
  /\ CycleTo(c, "mark")
  /\ Visited(c, t)
  /\ UNCHANGED <<up, slot, row, trail, pollVars, seen>>

CloseThrows(c, t) ==
  /\ Visits(c, t)
  /\ t \in seen[c].trades
  /\ \/ live[t] # "open" /\ UNCHANGED live
     \/ "closeError" \in Faults /\ live' \in {live, [live EXCEPT ![t] = "closed"]}
  /\ Visited(c, t)
  /\ UNCHANGED <<up, slot, row, trail, pollVars, at, seen, ending>>

(* markTrailClosed, and then updateTradeLogClosed: neither looks at what   *)
(* is there.                                                               *)
Mark(c) ==
  /\ up
  /\ at[c] = "mark"
  /\ \/ trail' = [t \in Trades |-> IF t \in ending[c] THEN "closed" ELSE trail[t]]
     \/ "update" \in Faults /\ UNCHANGED trail
  /\ CycleTo(c, "log")
  /\ UNCHANGED <<up, slot, live, row, pollVars, states, seen, ending>>

Log(c) ==
  /\ up
  /\ at[c] = "log"
  /\ \/ row' = [t \in Trades |-> IF t \in ending[c] /\ row[t] # "none" THEN "closed" ELSE row[t]]
     \/ "update" \in Faults /\ UNCHANGED row
  /\ ending' = [ending EXCEPT ![c] = {}]
  /\ CycleTo(c, "loop")
  /\ UNCHANGED <<up, slot, live, trail, pollVars, states, seen>>

CycleEnd(c) ==
  /\ up
  /\ at[c] = "loop" /\ states[c] = {}
  /\ seen' = [seen EXCEPT ![c] = Nothing]
  /\ CycleTo(c, "idle")
  /\ UNCHANGED <<up, slot, records, pollVars, states, ending>>

-----------------------------------------------------------------------------
(* Stop loss at the venue, or a close by hand. *)
VenueExit(t) ==
  /\ live[t] = "open"
  /\ live' = [live EXCEPT ![t] = "closed"]
  /\ UNCHANGED <<up, slot, row, trail, pollVars, cycle>>

Crash ==
  /\ "crash" \in Faults
  /\ up /\ up' = FALSE
  /\ leg' = [p \in Polls |-> [b \in Books |-> "idle"]]
  /\ placed' = [p \in Polls |-> [b \in Books |-> {}]]
  /\ at' = [c \in Cycles |-> "idle"]
  /\ states' = [c \in Cycles |-> {}]
  /\ seen' = [c \in Cycles |-> Nothing]
  /\ ending' = [c \in Cycles |-> {}]
  /\ UNCHANGED <<slot, records>>

(* Startup closes the open rows of OANDA trades that have ended; the rows  *)
(* of MT5 books it leaves, and the trail states it does not look at.  The  *)
(* row it adds for a trade the log does not know is not one of this engine.*)
RestartBugMainAccount ==
  /\ ~up /\ up' = TRUE
  /\ UNCHANGED <<row, slot, live, trail, pollVars, cycle>>

Restart ==
  /\ ~up /\ up' = TRUE
  /\ row' = [t \in Trades |-> IF t.book \notin Mt5 /\ row[t] = "open" /\ live[t] = "closed"
                              THEN "closed" ELSE row[t]]
  /\ UNCHANGED <<slot, live, trail, pollVars, cycle>>

LegStep(p, b) == LegCheck(p, b) \/ LegOrder(p, b) \/ LegRow(p, b) \/ LegTrail(p, b)
Visit(c, t)   == Leave(c, t) \/ Gone(c, t) \/ CloseWorks(c, t) \/ CloseThrows(c, t)
CycleStep(c)  ==
  \/ CycleStart(c) \/ Venues(c) \/ NoPrice(c) \/ Mark(c) \/ Log(c) \/ CycleEnd(c)
  \/ \E t \in Trades : Visit(c, t)

Next ==
  \/ Clock \/ Crash \/ Restart
  \/ \E p \in Polls : PollStart(p) \/ PollEnd(p) \/ \E b \in Books : LegStep(p, b)
  \/ \E c \in Cycles : CycleStep(c)
  \/ \E t \in Trades : VenueExit(t)

Spec == Init /\ [][Next]_vars

(* Handlers run on; time passes; the process is restarted and does not die *)
(* for ever; all the books answer a cycle now and then, and a close that   *)
(* the time gate asks for over and over goes through at last.              *)
AllAnswer(c) == Venues(c) /\ seen'[c].books = Books

Fairness ==
  /\ WF_vars(Clock) /\ WF_vars(Restart) /\ <>[][~Crash]_vars
  /\ \A p \in Polls : WF_vars(PollEnd(p)) /\ \A b \in Books : WF_vars(LegStep(p, b))
  /\ \A c \in Cycles :
       /\ WF_vars(CycleStep(c)) /\ SF_vars(AllAnswer(c))
       /\ \A t \in Trades : SF_vars(CloseWorks(c, t) /\ Due(c))

FairSpec == Spec /\ Fairness
-----------------------------------------------------------------------------
(* Neither table lets go of a trade that is open at its venue: a silent    *)
(* book, a close that failed or a cycle that was overtaken never makes a   *)
(* trade look closed (amdVenueOps: "never false-flagged").                 *)
NeverLetGo ==
  \A t \in Trades : trail[t] = "closed" \/ row[t] = "closed" => live[t] = "closed"

Tables == INSTANCE TradeTables WITH InOrder <- FALSE, venue <- live, mirror <- trail

(* Neither of them gets ahead of a trade or takes back what it said of it, *)
(* although polls that overlap write for the trades that cycles, which     *)
(* overlap too, are closing, and startup closes rows behind their backs.   *)
ImplementsTables == Tables!Spec

(* One trade per book and day: no order is sent to a book that has an      *)
(* EXECUTED row of the day, though the other book is retried all along,    *)
(* unless the rows of the book could not be counted for this order.        *)
NoSecondOrder ==
  [][\A t \in Trades : live[t] = "none" /\ live'[t] = "open" =>
       ~Executed(t.book) \/ \E p \in Polls : leg[p][t.book] = "blind"]_vars

(* Liveness: the log learns of every OANDA trade that ended once the       *)
(* monitor has been told of it, though the process dies between the close, *)
(* the trail state and the log.                                            *)
EndedTradesAreBooked ==
  \A t \in {u \in Trades : u.book \notin Mt5} :
    live[t] = "closed" /\ row[t] = "open" /\ trail[t] # "none" ~> row[t] = "closed"

(* Liveness: a trade with a time gate that the monitor knows of does not   *)
(* stay open past its gate, although books fall silent and closes fail.    *)
TimeGateEnds ==
  \A t \in Trades : live[t] = "open" /\ trail[t] = "open" ~> live[t] = "closed"
-----------------------------------------------------------------------------
(* What keeps NeverLetGo: a trade is recorded only after its fill; a cycle *)
(* only ends a trade that has ended; and what a cycle has found missing    *)
(* from a snapshot taken after it read the states never comes back.        *)
RecordedAfterFill ==
  /\ \A t \in Trades : trail[t] # "none" \/ row[t] # "none" => live[t] # "none"
  /\ \A p \in Polls, b \in Books : \A t \in placed[p][b] : live[t] # "none"

EndingHasEnded == \A c \in Cycles : \A t \in ending[c] : live[t] = "closed"

MissingHasEnded ==
  \A c \in Cycles :
    /\ \A t \in states[c] : live[t] # "none"
    /\ at[c] \in {"loop", "mark", "log"} => \A t \in states[c] :
         t.book \in seen[c].books /\ t \notin seen[c].trades => live[t] = "closed"

(* Honest: no close that OANDA cancelled is taken for done. *)
Honest == "closeCancel" \notin Faults

IInv == TypeOK /\ NeverLetGo /\ RecordedAfterFill /\ EndingHasEnded /\ MissingHasEnded
=============================================================================
