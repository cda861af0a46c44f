-------------------------- MODULE MarketTradeProof --------------------------
(***************************************************************************)
(* Proofs about MarketTrade, for any day, budget, rates, faults and bounds:*)
(* the types, that no look lets export go on past the budget, and that the *)
(* day's trade implements DayTrade.                                        *)
(*                                                                         *)
(* The invariant says what planning may rely on: the units of a window are *)
(* approved, an export that stopped had started, and a window that was put *)
(* off had not been traded.                                                *)
(***************************************************************************)
EXTENDS MarketTrade, TLAPS

Trades == [start: Instant, stop: Instant, stopped: Instant, status: Statuses]

\* The units of a window are approved: a plan shortens both alike.
WindowFits ==
    window # None =>
        /\ window.from < window.until
        /\ window.until - window.from <= window.approved

\* An export that stopped had started, and was to stop.
StoppedHadRun ==
    trade.stopped # None => trade.start # None /\ trade.stop # None

\* Without a window nothing was traded.
UnboundIsUntraded ==
    window = None =>
        trade = [start |-> None, stop |-> None, stopped |-> None, status |-> "pending"]

Inv == TypeOK /\ WindowFits /\ StoppedHadRun /\ UnboundIsUntraded

-----------------------------------------------------------------------------
(* The instants, and what a look makes of the record *)

LEMMA Instants ==
    /\ Horizon \in Nat /\ Most \in Nat \ {0}
    /\ Ticks \subseteq Nat /\ 0 \in Ticks /\ None \notin Ticks /\ None \notin Nat
    /\ \A t \in Ticks : t < Horizon => t + 1 \in Ticks
  BY MarketTradeAssumption DEF Ticks

LEMMA NothingIsNoWindow == None \notin Windows /\ None \notin Modes
  BY MarketTradeAssumption

\* A bound window, taken apart.
LEMMA Bound ==
    ASSUME TypeOK, window # None
    PROVE  /\ window \in Windows
           /\ window.from \in Ticks /\ window.until \in Ticks
           /\ window.approved \in 0 .. Most /\ window.whole \in BOOLEAN
           /\ window.from \in Nat /\ window.until \in Nat /\ window.approved \in Nat
<1>1. window \in Windows
  BY DEF TypeOK
<1>2. /\ window.from \in Ticks /\ window.until \in Ticks
      /\ window.approved \in 0 .. Most /\ window.whole \in BOOLEAN
  BY <1>1 DEF Windows
<1>3. window.from \in Nat /\ window.until \in Nat
  BY <1>2, Instants
<1>4. window.approved \in Nat
  BY <1>2, Instants
<1> QED  BY <1>1, <1>2, <1>3, <1>4

LEMMA TradeFields ==
    ASSUME TypeOK
    PROVE  /\ trade \in Trades
           /\ trade.start \in Instant /\ trade.stop \in Instant /\ trade.stopped \in Instant
           /\ trade.status \in Statuses
  BY DEF TypeOK, Trades

LEMMA ChangeType ==
    ASSUME TypeOK, NEW from
    PROVE  ChangeSince(from) \in Ticks
  BY DEF ChangeSince, TypeOK

LEMMA BegunType ==
    ASSUME TypeOK, NEW o \in Looks
    PROVE  Begun(o) \in Instant
  BY TradeFields, ChangeType DEF Begun, Instant

LEMMA ObservedType ==
    ASSUME TypeOK, NEW o \in Looks, NEW lost \in BOOLEAN
    PROVE  /\ Observed(o, lost) \in Trades
           /\ Observed(o, lost).start = Begun(o)
           /\ Observed(o, lost).status = trade.status
           /\ Confirmed(o) /\ ~lost => /\ Observed(o, lost).stop = trade.stop
                                       /\ Observed(o, lost).stopped = trade.stopped
           /\ ~(Confirmed(o) /\ ~lost) => /\ Observed(o, lost).stop # None
                                          /\ Observed(o, lost).stopped # None
<1> DEFINE at == IF lost THEN clock ELSE ChangeSince(Begun(o))
           begun == [trade EXCEPT !.start = Begun(o)]
<1>1. at \in Ticks /\ at # None /\ at \in Instant
  BY ChangeType, Instants DEF TypeOK, Instant
<1>2. begun \in Trades /\ begun.start = Begun(o) /\ begun.stop = trade.stop
      /\ begun.stopped = trade.stopped /\ begun.status = trade.status
  BY TradeFields, BegunType DEF Trades
<1>3. Observed(o, lost) =
        IF Confirmed(o) /\ ~lost THEN begun
        ELSE [begun EXCEPT !.stop = IF trade.stop = None THEN at ELSE @,
                           !.stopped = IF trade.stopped = None THEN at ELSE @]
  BY DEF Observed
<1> HIDE DEF at, begun
<1>4. CASE Confirmed(o) /\ ~lost
  BY <1>2, <1>3, <1>4
<1>5. CASE ~(Confirmed(o) /\ ~lost)
  BY <1>1, <1>2, <1>3, <1>5 DEF Trades
<1> QED  BY <1>4, <1>5

\* What a look makes of an export whose start is known.
LEMMA StartedSays ==
    ASSUME Inv, NEW o \in Looks, NEW lost \in BOOLEAN, Begun(o) # None
    PROVE  LET t == Started(o, lost) IN
           /\ t \in Trades /\ t.start = Begun(o)
           /\ t.stopped = Observed(o, lost).stopped
           /\ Observed(o, lost).stop # None => t.stop # None
           /\ t.stopped = None => t.status = trade.status
           /\ t.status \in {trade.status, "completed", "stopped"}
<1> DEFINE seen == Observed(o, lost)
           until == IF seen.stopped = None THEN clock ELSE seen.stopped
           measured == Measured(o, seen.start, until)
           asked == IF seen.stop = None /\ Exhausted(o, measured)
                    THEN [seen EXCEPT !.stop = clock] ELSE seen
<1>1. /\ seen \in Trades /\ seen.start = Begun(o) /\ seen.status = trade.status
  BY ObservedType DEF Inv
<1>2. clock \in Instant /\ clock # None
  BY Instants DEF Inv, TypeOK, Instant
<1> HIDE DEF seen
<1>3. /\ asked \in Trades /\ asked.start = Begun(o) /\ asked.status = trade.status
      /\ asked.stopped = seen.stopped /\ (seen.stop # None => asked.stop # None)
  BY <1>1, <1>2 DEF Trades
<1>4. Started(o, lost) =
        IF seen.stopped = None \/ (measured = None /\ o.amiss # "unusable") THEN asked
        ELSE [asked EXCEPT !.status = IF measured # None /\ measured >= window.approved
                                      THEN "completed" ELSE "stopped"]
  BY DEF Started, seen
<1> HIDE DEF asked, measured
<1>5. CASE seen.stopped = None \/ (measured = None /\ o.amiss # "unusable")
  BY <1>3, <1>4, <1>5 DEF seen
<1>6. CASE ~(seen.stopped = None \/ (measured = None /\ o.amiss # "unusable"))
  BY <1>3, <1>4, <1>6 DEF Trades, Statuses, seen
<1> QED  BY <1>5, <1>6

\* What a look makes of a window whose export nobody saw.
LEMMA UnstartedSays ==
    ASSUME Inv, NEW o \in Looks
    PROVE  LET t == Unstarted(o) IN
           /\ t \in Trades
           /\ t.start = trade.start /\ t.stopped = trade.stopped
           /\ t = trade \/ (t.status = "skipped" /\ t.stop # None)
<1>1. clock \in Instant /\ clock # None
  BY Instants DEF Inv, TypeOK, Instant
<1>2. trade \in Trades
  BY TradeFields DEF Inv
<1>3. \A at \in Instant : at # None =>
        /\ Ended(at) \in Trades
        /\ Ended(at).start = trade.start /\ Ended(at).stopped = trade.stopped
        /\ Ended(at).status = "skipped" /\ Ended(at).stop # None
  BY <1>2 DEF Ended, Trades, Statuses
<1>4. Unstarted(o) = trade \/ (trade.stop # None /\ Unstarted(o) = Ended(trade.stop))
      \/ Unstarted(o) = Ended(clock)
  BY DEF Unstarted
<1> QED  BY <1>1, <1>2, <1>3, <1>4, TradeFields DEF Inv

LEMMA JudgedKeeps ==
    ASSUME Inv, NEW o \in Looks, NEW lost \in BOOLEAN
    PROVE  LET t == Judged(o, lost) IN
           /\ t \in Trades
           /\ t.stopped # None => t.start # None /\ t.stop # None
           /\ window = None => t = trade
<1>1. Judged(o, lost) \in {trade, Unstarted(o)}
      \/ (Begun(o) # None /\ ~Ignores(o, lost) /\ Judged(o, lost) = Started(o, lost))
  BY DEF Judged
<1>2. window = None => Judged(o, lost) = trade
  <2>1. window = None => Ignores(o, lost)
    BY DEF Ignores
  <2>2. Ignores(o, lost) => Judged(o, lost) = trade
    BY DEF Judged
  <2> QED  BY <2>1, <2>2
<1>3. CASE Judged(o, lost) \in {trade, Unstarted(o)}
  BY <1>2, <1>3, TradeFields, UnstartedSays DEF Inv, StoppedHadRun
<1>4. CASE Begun(o) # None /\ ~Ignores(o, lost) /\ Judged(o, lost) = Started(o, lost)
  <2>1. Observed(o, lost).stopped # None => Observed(o, lost).stop # None
    BY ObservedType DEF Inv, StoppedHadRun
  <2> QED  BY <1>2, <1>4, <2>1, StartedSays
<1> QED  BY <1>1, <1>3, <1>4

-----------------------------------------------------------------------------
(* The invariant *)

LEMMA InitInv == Init => Inv
<1> SUFFICES ASSUME Init PROVE Inv
  OBVIOUS
<1>1. /\ clock \in Ticks /\ window = None /\ limit = None
      /\ selector \in [mode: Modes, changed: Ticks, by: {"planner", "user"}]
      /\ flight = None /\ pending = None /\ override \in BOOLEAN /\ planning \in Instant
  BY Instants DEF Init, Modes, Instant
<1>2. trade \in [start: Instant, stop: Instant, stopped: Instant, status: Statuses]
      /\ trade.stopped = None
  BY DEF Init, Instant, Statuses
<1>3. meter \in [Ticks -> Nat] /\ turns \in 0 .. MaxTurns
  BY MarketTradeAssumption DEF Init
<1>4. UnboundIsUntraded
  BY DEF Init, UnboundIsUntraded
<1> QED
  BY <1>1, <1>2, <1>3, <1>4 DEF Inv, TypeOK, WindowFits, StoppedHadRun

LEMMA TurnedType ==
    ASSUME TypeOK, NEW mode \in Modes, NEW by \in {"planner", "user"}, Turned(mode, by)
    PROVE  selector' \in [mode: Modes, changed: Ticks, by: {"planner", "user"}]
  BY DEF Turned, TypeOK

LEMMA LookKeepsInv ==
    ASSUME Inv, NEW o \in Looks, Look(o)
    PROVE  Inv'
<1>1. Lost(o) \in BOOLEAN
  BY DEF Lost, Inv, TypeOK
<1>2. trade' \in {trade, Judged(o, Lost(o))}
  BY DEF Look, Guard
<1>3. /\ trade' \in Trades
      /\ trade'.stopped # None => trade'.start # None /\ trade'.stop # None
      /\ window = None => trade' = trade
  BY <1>1, <1>2, JudgedKeeps, TradeFields DEF Inv, StoppedHadRun
<1>5. planning' \in Instant
  BY DEF Look, Guard, Inv, TypeOK, Instant
<1>6. flight' \in Modes \cup {None} /\ pending' \in Modes \cup {None}
  <2> DEFINE mode == IF Lets(o) THEN "export" ELSE "other"
  <2>1. mode \in Modes /\ flight \in Modes \cup {None} /\ pending \in Modes \cup {None}
    BY DEF Modes, Inv, TypeOK
  <2>2. \/ Shown(mode) \/ Awaits(mode) \/ Sends(mode, o)
        \/ UNCHANGED <<flight, pending>>
    BY DEF Look, Command
  <2> HIDE DEF mode
  <2> QED  BY <2>1, <2>2 DEF Shown, Awaits, Sends
<1>7. UNCHANGED <<clock, window, limit, selector, meter, turns>> /\ override' \in BOOLEAN
  BY <1>1 DEF Look
<1> QED
  BY <1>3, <1>5, <1>6, <1>7
     DEF Inv, TypeOK, WindowFits, StoppedHadRun, UnboundIsUntraded, Trades

LEMMA ReviseKeepsInv ==
    ASSUME Inv, NEW from \in Ticks, NEW until \in Ticks, Revise(from, until)
    PROVE  /\ Inv'
           /\ window' # None /\ window'.approved \in 0 .. window.approved
<1>1. window # None /\ planning \in Ticks
  BY DEF Revise, Revisable, Inv, TypeOK, Instant
<1>2. /\ window.from \in Nat /\ window.until \in Nat /\ window.approved \in 0 .. Most
      /\ window.whole \in BOOLEAN
      /\ window.from < window.until /\ window.until - window.from <= window.approved
  BY <1>1, Bound DEF Inv, WindowFits
<1>3. Later(window.from) \in Nat /\ window.from <= Later(window.from)
  BY <1>1, <1>2, Instants DEF Later
<1> DEFINE units == window.approved - ((window.until - Later(window.from)) - (until - from))
<1>4. /\ units \in 0 .. window.approved /\ units \in 0 .. Most
      /\ from < until /\ until - from <= units
  BY <1>2, <1>3, Instants DEF Revise
<1>5. window' = [from |-> from, until |-> until, approved |-> units,
                 whole |-> window.whole /\ planning <= window.from]
  BY DEF Revise
<1> HIDE DEF units
<1>6. window' \in Windows /\ window' # None
  <2>1. (window.whole /\ planning <= window.from) \in BOOLEAN
    OBVIOUS
  <2>2. window' \in Windows
    BY <1>4, <1>5, <2>1 DEF Windows
  <2> QED  BY <2>2, NothingIsNoWindow
<1>7. window'.from = from /\ window'.until = until /\ window'.approved = units
  BY <1>5
<1>8. /\ planning' = None
      /\ UNCHANGED <<clock, trade, limit, battery, meter, turns>>
  BY DEF Revise
<1> QED
  BY <1>4, <1>6, <1>7, <1>8
     DEF Inv, TypeOK, WindowFits, StoppedHadRun, UnboundIsUntraded, battery, Instant

LEMMA BindKeepsInv ==
    ASSUME Inv, NEW from \in Ticks, NEW until \in Ticks, Bind(from, until)
    PROVE  /\ Inv'
           /\ window' # None
           /\ window'.approved \in 0 .. (IF limit = None THEN Most ELSE limit)
<1>1. limit # None => limit \in 0 .. Most
  BY DEF Inv, TypeOK
<1>2. /\ from < until /\ until - from \in 0 .. Most
      /\ until - from \in 0 .. (IF limit = None THEN Most ELSE limit)
  <2>1. from \in Nat /\ until \in Nat /\ Most \in Nat
    BY Instants
  <2>2. from < until /\ until - from <= IF limit = None THEN Most ELSE limit
    BY DEF Bind
  <2>3. CASE limit = None
    BY <2>1, <2>2, <2>3
  <2>4. CASE limit # None
    BY <1>1, <2>1, <2>2, <2>4
  <2> QED  BY <2>3, <2>4
<1>3. window' = [from |-> from, until |-> until, approved |-> until - from, whole |-> TRUE]
  BY DEF Bind
<1>4. window' \in Windows /\ window' # None
  <2>1. window' \in Windows
    BY <1>2, <1>3 DEF Windows
  <2> QED  BY <2>1, NothingIsNoWindow
<1>5. window'.from = from /\ window'.until = until /\ window'.approved = until - from
  BY <1>3
<1>6. /\ planning' = None
      /\ UNCHANGED <<clock, trade, limit, battery, meter, turns>>
  BY DEF Bind
<1>7. until - from <= window'.approved
  BY <1>2, <1>5
<1> QED
  BY <1>2, <1>4, <1>5, <1>6, <1>7
     DEF Inv, TypeOK, WindowFits, StoppedHadRun, UnboundIsUntraded, battery, Instant

LEMMA ReleaseKeepsInv ==
    ASSUME Inv, Release
    PROVE  Inv' /\ limit' \in 0 .. window.approved /\ limit' # None
<1>1. window # None
  BY DEF Release, Revisable
<1>2. /\ window.from \in Nat /\ window.until \in Nat /\ window.approved \in 0 .. Most
      /\ window.from < window.until /\ window.until - window.from <= window.approved
  BY <1>1, Bound DEF Inv, WindowFits
<1>3. limit' = window.until - window.from /\ window' = None /\ planning' = None
      /\ UNCHANGED <<clock, trade, battery, meter, turns>>
  BY DEF Release
<1>4. limit' \in 0 .. window.approved /\ limit' \in 0 .. Most /\ limit' # None
  BY <1>2, <1>3, Instants
<1>5. trade = [start |-> None, stop |-> None, stopped |-> None, status |-> "pending"]
  <2>1. trade \in Trades /\ trade.start = None /\ trade.stop = None /\ trade.status = "pending"
        /\ trade.stopped = None
    BY TradeFields DEF Release, Revisable, Inv, StoppedHadRun
  <2> QED  BY <2>1 DEF Trades
<1> QED
  BY <1>3, <1>4, <1>5
     DEF Inv, TypeOK, WindowFits, StoppedHadRun, UnboundIsUntraded, battery, Instant

LEMMA DropKeepsInv ==
    ASSUME Inv, Drop
    PROVE  /\ Inv'
           /\ trade'.start = trade.start /\ trade'.stop # None
           /\ trade'.status = IF trade.start = None /\ planning < window.from
                              THEN "skipped" ELSE "pending"
<1>1. window # None /\ planning \in Instant /\ planning # None /\ trade \in Trades
      /\ trade.status = "pending"
  BY TradeFields DEF Drop, Revisable, Inv, TypeOK
<1>2. trade' = [trade EXCEPT !.stop = planning,
                             !.status = IF trade.start = None /\ planning < window.from
                                        THEN "skipped" ELSE @]
  BY DEF Drop
<1>3. /\ trade' \in Trades /\ trade'.start = trade.start /\ trade'.stop = planning
      /\ trade'.stopped = trade.stopped
      /\ trade'.status = IF trade.start = None /\ planning < window.from
                         THEN "skipped" ELSE "pending"
  BY <1>1, <1>2 DEF Trades, Statuses
<1>4. planning' = None /\ UNCHANGED <<clock, window, limit, battery, meter, turns>>
  BY DEF Drop
<1> QED
  BY <1>1, <1>3, <1>4
     DEF Inv, TypeOK, WindowFits, StoppedHadRun, UnboundIsUntraded, battery, Instant,
         Trades

LEMMA NextInv == Inv /\ [Next]_vars => Inv'
<1> SUFFICES ASSUME Inv, [Next]_vars PROVE Inv'
  OBVIOUS
<1> USE DEF doc, battery
<1>1. CASE Tick
  <2>1. PICK r \in IF selector.mode = "export" THEN Rates ELSE {0} :
          meter' = [meter EXCEPT ![clock + 1] = meter[clock] + r]
    BY <1>1 DEF Tick
  <2>2. r \in Nat /\ clock \in Ticks /\ meter \in [Ticks -> Nat]
    BY MarketTradeAssumption DEF Inv, TypeOK
  <2>3. clock + 1 \in Ticks /\ meter' \in [Ticks -> Nat]
    BY <1>1, <2>1, <2>2, Instants DEF Tick
  <2> QED
    BY <1>1, <2>3 DEF Tick, Inv, TypeOK, WindowFits, StoppedHadRun, UnboundIsUntraded
<1>2. CASE CommandTakesEffect
  <2>1. selector' \in [mode: Modes, changed: Ticks, by: {"planner", "user"}]
    BY <1>2, TurnedType DEF CommandTakesEffect, Inv, TypeOK
  <2> QED
    BY <1>2, <2>1 DEF CommandTakesEffect, Inv, TypeOK, WindowFits, StoppedHadRun,
                      UnboundIsUntraded
<1>3. CASE \E mode \in Modes : UserTurns(mode)
  <2> PICK mode \in Modes : UserTurns(mode)
    BY <1>3
  <2>1. selector' \in [mode: Modes, changed: Ticks, by: {"planner", "user"}]
    BY TurnedType DEF UserTurns, Inv, TypeOK
  <2>2. turns' \in 0 .. MaxTurns
    BY MarketTradeAssumption DEF UserTurns, Inv, TypeOK
  <2> QED
    BY <2>1, <2>2 DEF UserTurns, Inv, TypeOK, WindowFits, StoppedHadRun, UnboundIsUntraded
<1>4. CASE CommandIsLost \/ Reset \/ Forgets \/ PlansUnread \/ PlanningEnds
  BY <1>4 DEF CommandIsLost, Reset, Forgets, PlansUnread, PlanningEnds, Inv, TypeOK, WindowFits,
              StoppedHadRun, UnboundIsUntraded, Instant
<1>5. CASE UNCHANGED vars
  BY <1>5 DEF vars, Inv, TypeOK, WindowFits, StoppedHadRun, UnboundIsUntraded
<1> QED
  BY <1>1, <1>2, <1>3, <1>4, <1>5, LookKeepsInv, ReviseKeepsInv, BindKeepsInv,
     ReleaseKeepsInv, DropKeepsInv DEF Next

LEMMA InvHolds == Spec => []Inv
<1> QED  BY InitInv, NextInv, PTL DEF Spec

\* The record of the trade, its window and the battery keep their types, for any day,
\* budget and rates: no revision makes the approved units negative.
THEOREM TypesHold == Spec => []TypeOK
<1>1. Inv => TypeOK
  BY DEF Inv
<1> QED  BY <1>1, InvHolds, PTL

-----------------------------------------------------------------------------
(* The budget *)

\* What a recovered gap hides is allowed for.
LEMMA DoubtCovers ==
    ASSUME TypeOK, NEW o \in Looks, NEW from \in Ticks, Measured(o, from, clock) # None
    PROVE  /\ Measured(o, from, clock) \in Int /\ Doubt(o) \in Int
           /\ Export(from, clock) <= Measured(o, from, clock) + Doubt(o)
<1>1. Export(from, clock) \in Int
  BY DEF Export, TypeOK
<1>2. o.amiss \notin {"unusable", "absent"}
  BY DEF Measured
<1>3. CASE o.amiss = "gap"
  BY <1>1, <1>2, <1>3 DEF Measured, Doubt
<1>4. CASE o.amiss # "gap"
  BY <1>1, <1>2, <1>4 DEF Measured, Doubt
<1> QED  BY <1>3, <1>4

\* A look that lets a known export go on has measured it, and found less than was approved.
LEMMA LetsBelowApproval ==
    ASSUME Inv, NEW o \in Looks, Lets(o), trade.start # None
    PROVE  Export(trade.start, clock) < Most
<1>1. /\ ~Lost(o) /\ window # None /\ Due /\ o.amiss # "no_battery"
      /\ trade.status = "pending" /\ Judged(o, FALSE).stop = None
  BY DEF Lets, Permits, Requested
<1>2. /\ window.from \in Nat /\ clock \in Nat /\ window.from <= clock
      /\ window.approved \in 0 .. Most
  BY <1>1, Bound, Instants DEF Due, Inv, TypeOK
<1>3. ~Ignores(o, FALSE)
  BY <1>1, <1>2 DEF Ignores
<1>4. Begun(o) = trade.start
  BY DEF Begun
<1>5. Judged(o, FALSE) = Started(o, FALSE)
  BY <1>3, <1>4 DEF Judged
<1> DEFINE seen == Observed(o, FALSE)
<1>6. seen.stop = None /\ seen.start = trade.start
  BY <1>1, <1>4, <1>5, StartedSays, ObservedType DEF Inv
<1>7. seen.stopped = None
  BY <1>6, ObservedType DEF Inv, StoppedHadRun
<1> DEFINE measured == Measured(o, trade.start, clock)
<1>8. ~Exhausted(o, measured)
  <2> SUFFICES ASSUME Exhausted(o, measured) PROVE FALSE
    OBVIOUS
  <2>1. Started(o, FALSE) = [seen EXCEPT !.stop = clock]
    BY <1>6, <1>7 DEF Started
  <2>2. seen \in Trades /\ clock # None
    BY ObservedType, Instants DEF Inv, TypeOK
  <2> QED  BY <1>1, <1>5, <2>1, <2>2 DEF Trades
<1>9. measured # None /\ ~(measured + Doubt(o) >= window.approved)
  BY <1>8 DEF Exhausted
<1>10. trade.start \in Ticks
  BY TradeFields DEF Inv, Instant
<1>11. /\ measured \in Int /\ Doubt(o) \in Int
       /\ Export(trade.start, clock) <= measured + Doubt(o)
  BY <1>9, <1>10, DoubtCovers DEF Inv
<1>12. Export(trade.start, clock) \in Int
  BY <1>10 DEF Export, Inv, TypeOK
<1> HIDE DEF measured
<1> QED  BY <1>2, <1>9, <1>11, <1>12, Instants

\* However planning shortens, drops or puts off the window, whatever the power history
\* misses and whoever turns the selector: export whose start is recorded is let through
\* only while less than the day's budget has left the house.
THEOREM BudgetHolds == Spec => []BudgetIsKept
<1>1. Inv => BudgetIsKept
  BY LetsBelowApproval DEF BudgetIsKept
<1> QED  BY <1>1, InvHolds, PTL

-----------------------------------------------------------------------------
(* The day's trade *)

\* Where the trade stands, and what it may still be planned for.
Phase ==
    IF trade.status # "pending" THEN trade.status
    ELSE IF window = None THEN "idle"
    ELSE IF trade.stop # None THEN "ending"
    ELSE IF trade.start # None THEN "running"
    ELSE "open"

Budget ==
    IF window # None THEN window.approved ELSE IF limit # None THEN limit ELSE Most

LEMMA RefinedInit == Init => Promise!Init
<1> SUFFICES ASSUME Init PROVE Promise!Init
  OBVIOUS
<1>1. Phase = "idle" /\ Budget = Most /\ limit = None /\ trade.start = None
      /\ flight # "export"
  BY MarketTradeAssumption DEF Init, Phase, Budget, Modes
<1> QED  BY <1>1 DEF Promise!Init, Phase, Budget

\* A step that leaves the window, the record and the released budget alone, and sends no
\* new command to export, is none of the promise's.
LEMMA QuietStep ==
    ASSUME UNCHANGED doc, flight' = "export" => flight = "export"
    PROVE  Promise!Next
  BY DEF Promise!Next, Promise!Rest, Promise!Commands, doc

\* A look closes, starts or stops the trade, and never takes any of that back.
LEMMA LookMoves ==
    ASSUME Inv, NEW o \in Looks, NEW lost \in BOOLEAN, trade' = Judged(o, lost),
           UNCHANGED <<window, limit>>
    PROVE  /\ Promise!Run \/ Promise!Stop \/ Promise!Close \/ Promise!Rest
           /\ trade'.stop = None => trade'.status = trade.status
<1> SUFFICES ASSUME ~Ignores(o, lost)
             PROVE  /\ Promise!Run \/ Promise!Stop \/ Promise!Close \/ Promise!Rest
                    /\ trade'.stop = None => trade'.status = trade.status
  BY DEF Judged, Promise!Rest
<1>1. window # None /\ trade.status = "pending" /\ (lost => trade.start # None)
  BY DEF Ignores
<1>2. CASE Begun(o) = None
  <2>1. trade' = Unstarted(o) /\ trade.start = None
    BY <1>2, Instants, ChangeType DEF Judged, Begun, Inv
  <2>2. CASE trade' = trade
    BY <2>2 DEF Promise!Rest
  <2>3. CASE trade'.status = "skipped" /\ trade'.stop # None
    <3>1. trade'.start = None
      BY <2>1, UnstartedSays
    <3> QED
      BY <1>1, <2>1, <2>3, <3>1 DEF Promise!Close, Promise!Live, Promise!Outcomes
  <2> QED  BY <2>1, <2>2, <2>3, UnstartedSays
<1>3. CASE Begun(o) # None
  <2>1. trade' = Started(o, lost)
    BY <1>3 DEF Judged
  <2>2. /\ trade'.start = Begun(o) /\ trade'.start # None
        /\ trade'.stopped = Observed(o, lost).stopped
        /\ Observed(o, lost).stop # None => trade'.stop # None
        /\ trade'.stopped = None => trade'.status = "pending"
        /\ trade'.status \in {"pending", "completed", "stopped"}
    BY <1>1, <1>3, <2>1, StartedSays
  <2>3. Observed(o, lost).stop = None => trade'.stopped = None
    BY <2>2, ObservedType DEF Inv, StoppedHadRun
  <2>4. trade.stop # None => trade'.stop # None
    BY <2>2, ObservedType DEF Inv
  <2>5. CASE trade.start = None
    <3>1. ~lost /\ Confirmed(o) /\ trade.stopped = None
      BY <1>1, <1>3, <2>5 DEF Begun, Inv, StoppedHadRun
    <3>2. trade'.status = "pending"
      BY <2>2, <3>1, ObservedType DEF Inv
    <3> QED
      BY <1>1, <2>2, <2>4, <2>5, <3>2 DEF Promise!Run
  <2>6. CASE trade.start # None
    <3>1. CASE trade'.status # "pending"
      BY <1>1, <2>2, <2>3, <2>6, <3>1 DEF Promise!Close, Promise!Live, Promise!Outcomes
    <3>2. CASE trade'.status = "pending"
      BY <1>1, <2>2, <2>4, <2>6, <3>2 DEF Promise!Stop, Promise!Rest, Promise!Live
    <3> QED  BY <1>1, <3>1, <3>2, <2>2, <2>3
  <2> QED  BY <2>5, <2>6
<1> QED  BY <1>2, <1>3

\* A look commands export only for a trade that its own record leaves alive.
LEMMA LookCommands ==
    ASSUME Inv, NEW o \in Looks, Look(o)
    PROVE  flight' = "export" => flight = "export" \/ Phase' \in {"open", "running"}
<1> SUFFICES ASSUME flight' = "export", flight # "export"
             PROVE  Phase' \in {"open", "running"}
  OBVIOUS
<1>1. Lets(o)
  <2>1. UNCHANGED flight \/ Command(o)
    BY DEF Look
  <2> QED
    BY <2>1, MarketTradeAssumption DEF Command, Shown, Awaits, Sends, Modes
<1>2. ~Lost(o) /\ window # None /\ trade.status = "pending" /\ o.amiss # "unsaved"
      /\ Judged(o, FALSE).stop = None
  BY <1>1 DEF Lets, Permits, Requested
<1>3. Lost(o) = FALSE
  BY <1>2 DEF Lost, Inv, TypeOK
<1>4. trade' = Judged(o, FALSE) /\ UNCHANGED <<window, limit>>
  BY <1>2, <1>3 DEF Look, Guard
<1>5. trade'.stop = None /\ trade'.status = "pending"
  BY <1>2, <1>4, LookMoves
<1> QED  BY <1>2, <1>4, <1>5 DEF Phase

LEMMA RefinedLook ==
    ASSUME Inv, NEW o \in Looks, Look(o)
    PROVE  Promise!Next
<1>1. UNCHANGED <<window, limit>> /\ Lost(o) \in BOOLEAN
  BY DEF Look, Lost, Inv, TypeOK
<1>2. trade' = trade \/ trade' = Judged(o, Lost(o))
  BY DEF Look, Guard
<1>3. Promise!Run \/ Promise!Stop \/ Promise!Close \/ Promise!Rest
  BY <1>1, <1>2, LookMoves DEF Promise!Rest
<1>4. Promise!Commands
  BY LookCommands DEF Promise!Commands, Promise!Live, Phase
<1> QED  BY <1>3, <1>4 DEF Promise!Next

LEMMA RefinedPlan ==
    ASSUME Inv, Drop \/ Release \/ \E from, until \in Ticks : Revise(from, until) \/ Bind(from, until)
    PROVE  Promise!Next
<1>1. UNCHANGED flight
  BY DEF Drop, Release, Revise, Bind, battery
<1>2. Promise!Commands
  BY <1>1 DEF Promise!Commands
<1>3. CASE Drop
  <2>1. /\ window # None /\ trade.status = "pending" /\ trade.stop = None
        /\ UNCHANGED <<window, limit>>
    BY <1>3 DEF Drop, Revisable
  <2>2. Promise!Stop \/ Promise!Close
    BY <1>3, <2>1, DropKeepsInv DEF Promise!Stop, Promise!Close, Promise!Live, Promise!Outcomes
  <2> QED  BY <1>2, <2>2 DEF Promise!Next
<1>4. CASE Release
  <2>1. /\ window # None /\ trade.status = "pending" /\ trade.stop = None
        /\ trade.start = None /\ limit = None /\ window' = None /\ UNCHANGED trade
    BY <1>4 DEF Release, Revisable
  <2>2. Promise!PutOff
    BY <1>4, <2>1, ReleaseKeepsInv DEF Promise!PutOff, Promise!Less
  <2> QED  BY <1>2, <2>2 DEF Promise!Next
<1>5. ASSUME NEW from \in Ticks, NEW until \in Ticks, Revise(from, until)
      PROVE  Promise!Next
  <2>1. /\ window # None /\ trade.status = "pending" /\ trade.stop = None
        /\ UNCHANGED <<trade, limit>>
    BY <1>5 DEF Revise, Revisable
  <2>2. Promise!Shrink
    BY <1>5, <2>1, ReviseKeepsInv DEF Promise!Shrink, Promise!Less, Promise!Live
  <2> QED  BY <1>2, <2>2 DEF Promise!Next
<1>6. ASSUME NEW from \in Ticks, NEW until \in Ticks, Bind(from, until)
      PROVE  Promise!Next
  <2>1. window = None /\ UNCHANGED <<trade, limit>>
    BY <1>6 DEF Bind
  <2>2. trade.status = "pending" /\ trade.stop = None /\ trade.start = None
    BY <2>1 DEF Inv, UnboundIsUntraded
  <2>3. Promise!Open
    BY <1>6, <2>1, <2>2, BindKeepsInv DEF Promise!Open, Promise!Less
  <2> QED  BY <1>2, <2>3 DEF Promise!Next
<1> QED  BY <1>3, <1>4, <1>5, <1>6

LEMMA RefinedStep == Inv /\ [Next]_vars => [Promise!Next]_(Promise!promise)
<1> SUFFICES ASSUME Inv, [Next]_vars PROVE [Promise!Next]_(Promise!promise)
  OBVIOUS
<1>1. ASSUME UNCHANGED doc, flight' = "export" => flight = "export"
      PROVE  Promise!Next
  BY <1>1, QuietStep
<1>2. CASE \/ Tick \/ CommandTakesEffect \/ CommandIsLost \/ Reset \/ Forgets
           \/ \E mode \in Modes : UserTurns(mode)
           \/ PlansUnread \/ PlanningEnds
  <2>1. UNCHANGED doc /\ flight' \in {flight, None}
    BY <1>2 DEF Tick, CommandTakesEffect, CommandIsLost, Reset, Forgets, UserTurns, PlansUnread,
                PlanningEnds, battery
  <2> QED  BY <1>1, <2>1, NothingIsNoWindow DEF Modes
<1>3. CASE UNCHANGED vars
  BY <1>1, <1>3 DEF vars, doc
<1> QED  BY <1>2, <1>3, RefinedLook, RefinedPlan DEF Next

\* Whatever the polls see, the plans ask and the user turns: one trade a day, whose budget
\* only shrinks, put off at most once and before it began, never started again once told
\* to stop, and commanded only while it may run.
THEOREM DayTradeImplemented == Spec => ImplementsDayTrade
<1>1. Init => Promise!Init
  BY RefinedInit
<1>2. Inv /\ [Next]_vars => [Promise!Next]_(Promise!promise)
  BY RefinedStep
<1> QED  BY <1>1, <1>2, InvHolds, PTL DEF Spec, ImplementsDayTrade, Promise!Spec

=============================================================================
