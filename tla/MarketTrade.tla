---------------------------- MODULE MarketTrade -----------------------------
(***************************************************************************)
(* One day's market trade: the export window that planning binds to the     *)
(* daily assignment, the guard that every look at the battery passes        *)
(* through (guarded_market_primitive), and the durable record of what the   *)
(* trade did.  Time is counted in ticks of one planned unit of export; a    *)
(* window is the half-open interval [from, until).                          *)
(*                                                                         *)
(* Planning works from one capture for as long as it takes, and the loop    *)
(* goes on looking meanwhile (planning checkpoints); what it publishes is   *)
(* judged at the instant of that capture.  The mode selector is Home        *)
(* Assistant's, and the user may turn it.                                   *)
(***************************************************************************)
EXTENDS Integers

CONSTANTS
    None,
    Horizon,    \* bound: the last tick of the day
    Most,       \* the units the day's assignment may export
    Rates,      \* the units that may leave during a tick of export
    Looks,      \* bound: the looks at the battery this instance enumerates
    Faults,     \* what else may go wrong, a subset of AllFaults
    MaxTurns    \* bound: turns of the selector by the user

\* What may be amiss with one look.
Amiss ==
    {"nothing",
     "no_battery",  \* the battery's state is missing from the capture
     "gap",         \* the power history has a recovered gap
     "unusable",    \* the power history cannot be measured
     "absent",      \* there is no power history
     "away",        \* the selector reads "unavailable"
     "car",         \* a car that charges forbids discharge
     "unsaved",     \* the record cannot be saved
     "unsent"}      \* the command cannot be sent, or its sending is reported failed

AllLooks == [battery: {"ample", "short", "minimum"}, amiss: Amiss]

AllFaults ==
    {"unread",      \* a poll plans although the selector is missing from its capture
     "lost"}        \* a command is never obeyed

Ticks == 0 .. Horizon
Instant == Ticks \cup {None}
Statuses == {"pending", "skipped", "completed", "stopped"}
Modes == {"export", "other"}
Windows == [from: Ticks, until: Ticks, approved: 0 .. Most, whole: BOOLEAN]

ASSUME MarketTradeAssumption ==
    /\ Horizon \in Nat /\ Most \in Nat \ {0}
    /\ Rates \subseteq Nat /\ Rates # {}
    /\ Looks \subseteq AllLooks /\ Faults \subseteq AllFaults
    /\ MaxTurns \in Nat
    /\ None \notin Int /\ None \notin Modes /\ None \notin Windows

VARIABLES
    clock,
    window,     \* the market binding: from, until, the approved units, and
                \* whether none of it has passed into history; None if unbound
    trade,      \* the durable progress (start, stop, stopped) and the
                \* assignment's status
    limit,      \* what a released window left of the budget, None if none was
    selector,   \* the mode, when it last changed, and who turned it
    flight,     \* the mode commanded and not yet shown, None if none
    pending,    \* the mode whose feedback is awaited (_pending_vendor_mode), None if none
    override,   \* ownership of the mode was lost
    planning,   \* the capture planning works from, None when it does not run
    meter,      \* the reading of the export meter at every tick so far
    turns

doc == <<window, trade, limit>>
battery == <<selector, flight, pending, override>>
vars == <<clock, window, trade, limit, selector, flight, pending, override, planning,
          meter, turns>>

TypeOK ==
    /\ clock \in Ticks
    /\ window \in Windows \cup {None}
    /\ trade \in [start: Instant, stop: Instant, stopped: Instant, status: Statuses]
    /\ limit \in 0 .. Most \cup {None}
    /\ selector \in [mode: Modes, changed: Ticks, by: {"planner", "user"}]
    /\ flight \in Modes \cup {None} /\ pending \in Modes \cup {None}
    /\ override \in BOOLEAN
    /\ planning \in Instant
    /\ meter \in [Ticks -> Nat]
    /\ turns \in 0 .. MaxTurns

Init ==
    /\ clock = 0 /\ window = None /\ limit = None
    /\ trade = [start |-> None, stop |-> None, stopped |-> None, status |-> "pending"]
    /\ selector = [mode |-> "other", changed |-> 0, by |-> "planner"]
    /\ flight = None /\ pending = None /\ override = FALSE /\ planning = None
    /\ meter = [t \in Ticks |-> 0]
    /\ turns = 0

-----------------------------------------------------------------------------
(* Outside the process *)

Tick ==
    /\ clock < Horizon
    /\ clock' = clock + 1
    /\ \E r \in IF selector.mode = "export" THEN Rates ELSE {0} :
           meter' = [meter EXCEPT ![clock + 1] = meter[clock] + r]
    /\ UNCHANGED <<doc, battery, planning, turns>>

Turned(mode, by) ==
    selector' = IF mode = selector.mode THEN selector
                ELSE [mode |-> mode, changed |-> clock, by |-> by]

CommandTakesEffect ==
    /\ flight # None
    /\ Turned(flight, "planner")
    /\ flight' = None
    /\ UNCHANGED <<clock, doc, pending, override, planning, meter, turns>>

\* Nothing tells the process: what it awaits stays awaited.
CommandIsLost ==
    /\ "lost" \in Faults /\ flight # None
    /\ flight' = None
    /\ UNCHANGED <<clock, doc, selector, pending, override, planning, meter, turns>>

UserTurns(mode) ==
    /\ turns < MaxTurns /\ mode # selector.mode
    /\ Turned(mode, "user")
    /\ turns' = turns + 1
    /\ UNCHANGED <<clock, doc, flight, pending, override, planning, meter>>

\* The user gives control back.
Reset ==
    /\ override
    /\ override' = FALSE
    /\ selector' = [selector EXCEPT !.by = "planner"]
    /\ UNCHANGED <<clock, doc, flight, pending, planning, meter, turns>>

\* The process restarts, or the user resets planning: nothing is awaited any more, and a
\* planning that runs may end (PlanningEnds).
Forgets ==
    /\ pending # None /\ pending' = None
    /\ UNCHANGED <<clock, doc, selector, flight, override, planning, meter, turns>>

-----------------------------------------------------------------------------
(* A look at the battery *)

Due == window.from <= clock /\ clock < window.until

\* The plan asks for export during the window, and for another mode outside it.
Requested == window # None /\ Due

Confirmed(o) == selector.mode = "export" /\ o.amiss # "away"

Export(from, until) == meter[until] - meter[from]

\* What the power history proves: a recovered gap hides a unit, and bounds it.
Measured(o, from, until) ==
    CASE o.amiss \in {"unusable", "absent"} -> None
      [] o.amiss = "gap" /\ Export(from, until) > 0 -> Export(from, until) - 1
      [] OTHER -> Export(from, until)

Doubt(o) == IF o.amiss = "gap" THEN 1 ELSE 0

ChangeSince(from) ==
    IF from <= selector.changed THEN selector.changed ELSE clock

Ended(at) == [trade EXCEPT !.stop = at, !.status = "skipped"]

\* The user chose the mode, or the selector went away, which reads as a choice.
Lost(o) == override \/ selector.by = "user" \/ o.amiss = "away"

\* Mutant: nothing is observed of a trade the user interrupted.
IgnoresLost(o, lost) ==
    window = None \/ trade.status # "pending" \/ clock < window.from \/ lost
        \/ o.amiss = "no_battery"

\* The guard leaves the record alone.
Ignores(o, lost) ==
    \/ window = None
    \/ trade.status # "pending"
    \/ clock < window.from
    \/ lost /\ trade.start = None
    \/ o.amiss = "no_battery"

Begun(o) ==
    IF trade.start = None /\ Confirmed(o) /\ Due THEN ChangeSince(window.from)
    ELSE trade.start

\* No export was ever confirmed.
Unstarted(o) ==
    LET unknown == Due /\ o.amiss \in {"absent", "unusable"}
    IN  IF trade.stop # None THEN IF Confirmed(o) THEN trade ELSE Ended(trade.stop)
        ELSE IF ~unknown /\ (clock >= window.until \/ o.battery # "ample") THEN Ended(clock)
        ELSE trade

\* The export ends where the selector left the mode, or where ownership did.
Observed(o, lost) ==
    LET at == IF lost THEN clock ELSE ChangeSince(Begun(o))
        begun == [trade EXCEPT !.start = Begun(o)]
    IN IF Confirmed(o) /\ ~lost THEN begun
       ELSE [begun EXCEPT !.stop = IF trade.stop = None THEN at ELSE @,
                          !.stopped = IF trade.stopped = None THEN at ELSE @]

\* Mutant: what a gap may hide does not count.
ExhaustedMeasured(o, measured) ==
    \/ clock >= window.until \/ o.battery = "minimum"
    \/ measured = None
    \/ measured >= window.approved

Exhausted(o, measured) ==
    \/ clock >= window.until
    \/ o.battery = "minimum"
    \/ measured = None
    \/ measured + Doubt(o) >= window.approved

Started(o, lost) ==
    LET seen == Observed(o, lost)
        until == IF seen.stopped = None THEN clock ELSE seen.stopped
        measured == Measured(o, seen.start, until)
        asked == IF seen.stop = None /\ Exhausted(o, measured)
                 THEN [seen EXCEPT !.stop = clock] ELSE seen
    IN IF seen.stopped = None \/ (measured = None /\ o.amiss # "unusable") THEN asked
       ELSE [asked EXCEPT !.status = IF measured # None /\ measured >= window.approved
                                     THEN "completed" ELSE "stopped"]

\* The record after the look, and whether it lets a requested export through.
Judged(o, lost) ==
    IF Ignores(o, lost) THEN trade
    ELSE IF Begun(o) = None THEN Unstarted(o) ELSE Started(o, lost)

\* Mutant: the plan decides, whatever the record says.
PermitsStopped(o) ==
    /\ Requested /\ o.amiss # "no_battery"
    /\ Begun(o) = None => o.amiss \notin {"absent", "unusable"}

Permits(o) ==
    /\ Requested /\ o.amiss # "no_battery"
    /\ trade.status = "pending" /\ Judged(o, FALSE).stop = None
    /\ Begun(o) = None => o.amiss \notin {"absent", "unusable"}

Guard(o, lost) ==
    /\ IF o.amiss = "unsaved"
       THEN Judged(o, lost) # trade /\ UNCHANGED trade
       ELSE trade' = Judged(o, lost)
    \* A start or stop supersedes the planning it happens under.
    /\ \/ /\ planning = None /\ o.amiss # "no_battery"
          /\ planning' = clock      \* a poll that plans, from the capture it looked at
       \/ planning' = IF <<trade'.start, trade'.stop, trade'.stopped>>
                          = <<trade.start, trade.stop, trade.stopped>> THEN planning ELSE None

\* A record that could not be saved, like a car that charges, lets nothing through.
Lets(o) == ~Lost(o) /\ Permits(o) /\ o.amiss \notin {"unsaved", "car"}

\* The mode is shown already, and nothing is awaited.
Shown(mode) == mode = selector.mode /\ pending' = None /\ UNCHANGED flight

\* _feedback_status: the mode awaited is never sent again, before its timeout or after it.
\* Bound: no second command while one is in flight.
Awaits(mode) ==
    /\ mode # selector.mode /\ (pending = mode \/ flight # None)
    /\ UNCHANGED <<flight, pending>>

\* "other" stands for several modes, of which another one may be awaited.
Sends(mode, o) ==
    /\ mode # selector.mode /\ flight = None /\ (pending # mode \/ mode = "other")
    /\ IF o.amiss = "unsent"
       THEN \/ pending' = None /\ UNCHANGED flight            \* raised before it was sent
            \/ flight' \in {None, mode} /\ UNCHANGED pending  \* failed, or executed unanswered
       ELSE flight' = mode /\ pending' = mode

Command(o) ==
    LET mode == IF Lets(o) THEN "export" ELSE "other"
    IN  \/ Shown(mode) \/ Awaits(mode) \/ Sends(mode, o)
        \/ o.amiss = "no_battery" /\ UNCHANGED <<flight, pending>>   \* SOC unavailable

Look(o) ==
    /\ override' = Lost(o)
    /\ Guard(o, Lost(o))
    /\ IF Lost(o) THEN UNCHANGED <<flight, pending>> ELSE Command(o)
    /\ UNCHANGED <<clock, window, limit, selector, meter, turns>>

-----------------------------------------------------------------------------
(* Planning *)

\* A poll whose capture lacks the selector plans without having looked.
PlansUnread ==
    /\ "unread" \in Faults /\ planning = None
    /\ planning' = clock
    /\ UNCHANGED <<clock, doc, battery, meter, turns>>

\* Planning selects nothing about the trade, fails, is superseded, or dies with the process.
PlanningEnds ==
    /\ planning # None
    /\ planning' = None
    /\ UNCHANGED <<clock, doc, battery, meter, turns>>

Later(t) == IF t > planning THEN t ELSE planning

\* What every revision of a bound window needs.
Revisable ==
    /\ planning # None /\ window # None
    /\ trade.status = "pending" /\ trade.stop = None
    /\ window.until > planning

\* The plan keeps the rest of the window, or a part of it, never more.
Revise(from, until) ==
    /\ Revisable
    /\ Later(window.from) <= from /\ from < until /\ until <= window.until
    /\ trade.start # None => from = Later(window.from)
    /\ window' = [from |-> from, until |-> until,
                  approved |-> window.approved
                      - ((window.until - Later(window.from)) - (until - from)),
                  whole |-> window.whole /\ planning <= window.from]
    /\ planning' = None
    /\ UNCHANGED <<clock, trade, limit, battery, meter, turns>>

\* The plan drops the rest of the window; the binding stays, to be observed.
Drop ==
    /\ Revisable
    /\ trade' = [trade EXCEPT !.stop = planning,
                              !.status = IF trade.start = None /\ planning < window.from
                                         THEN "skipped" ELSE @]
    /\ planning' = None
    /\ UNCHANGED <<clock, window, limit, battery, meter, turns>>

\* A window before the main charge is given up for one after it.
Release ==
    /\ Revisable /\ limit = None
    /\ trade.start = None /\ window.whole /\ planning < window.from
    /\ limit' = window.until - window.from
    /\ window' = None
    /\ planning' = None
    /\ UNCHANGED <<clock, trade, battery, meter, turns>>

Bind(from, until) ==
    /\ planning # None /\ window = None /\ trade.status = "pending"
    /\ planning <= from /\ from < until
    /\ until - from <= IF limit = None THEN Most ELSE limit
    /\ window' = [from |-> from, until |-> until, approved |-> until - from, whole |-> TRUE]
    /\ planning' = None
    /\ UNCHANGED <<clock, trade, limit, battery, meter, turns>>

-----------------------------------------------------------------------------

Next ==
    \/ Tick \/ CommandTakesEffect \/ CommandIsLost \/ Reset \/ Forgets
    \/ \E mode \in Modes : UserTurns(mode)
    \/ \E o \in Looks : Look(o)
    \/ PlansUnread \/ PlanningEnds \/ Drop \/ Release
    \/ \E from, until \in Ticks : Revise(from, until) \/ Bind(from, until)

Spec == Init /\ [][Next]_vars

\* Polls go on and one with complete evidence keeps coming; the day passes; a command to one
\* mode that is sent again and again is obeyed once: the code decides whether it is sent again.
LookWell == \E o \in Looks : o.amiss = "nothing" /\ Look(o)
Obeyed(mode) == flight = mode /\ CommandTakesEffect

FairSpec ==
    /\ Spec /\ WF_vars(Tick) /\ WF_vars(LookWell)
    /\ \A mode \in Modes : SF_vars(Obeyed(mode))

-----------------------------------------------------------------------------
(* Properties *)

\* What the day's trade promises, whatever planning, polls and the user do in between:
\* see DayTrade.
Promise ==
    INSTANCE DayTrade WITH
        phase <- IF trade.status # "pending" THEN trade.status
                 ELSE IF window = None THEN "idle"
                 ELSE IF trade.stop # None THEN "ending"
                 ELSE IF trade.start # None THEN "running"
                 ELSE "open",
        budget <- IF window # None THEN window.approved
                  ELSE IF limit # None THEN limit ELSE Most,
        released <- limit # None,
        ran <- trade.start # None,
        exporting <- flight = "export"

ImplementsDayTrade == Promise!Spec

\* Once the start of the export is recorded, no look lets it go on when the day's budget has
\* left the house, whatever the power history misses and however planning moves the window.
BudgetIsKept ==
    \A o \in Looks : Lets(o) /\ trade.start # None => Export(trade.start, clock) < Most

\* A command to end the export was lost, and nothing sends it again.
Stranded == selector.mode = "export" /\ pending = "other" /\ flight = None

\* A bound window is closed with an outcome, or released; when the user takes the battery,
\* a trade that began is closed all the same, and one that did not is left alone.  Only a
\* lost command, awaited for ever, keeps the battery exporting and the trade open.
TradeIsClosed ==
    window # None ~>
        \/ trade.status # "pending"
        \/ window = None
        \/ override /\ trade.start = None
        \/ []Stranded
=============================================================================
