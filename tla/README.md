# A verification project for PicoT-HEMS

PicoT is a home energy manager that runs beside Home Assistant. It plans the
operating mode of a battery for the coming day and changes that mode through one
Home Assistant `select` entity. Two sibling programs charge an electric vehicle and
correct the house meter, and command heat sources. This directory holds TLA+ models of the
parts of the three that decide *whether and when* something is commanded, their TLC
configurations, and proofs of their most important properties for TLAPS.

Paths below are relative to the repository. `v2/` is `src/picot/v2/`, `ed/` is
`src/picot_energy_devices/`, `hc/` is `picot_hc/picot_hc/`.

## 1. Inventory

### Three programs

| program | entry point | state it keeps | talks to |
|---|---|---|---|
| PicoT HEMS | `v2/live_runtime.py` `main` | one planner loop, a thread for each HTTP request, one mailbox thread, one EV advice thread, several JSON documents under `/data` | Home Assistant REST API; publishes sensors; reads the other two programs' sensors |
| PicoT Energy Devices | `ed/runtime.py` | EV sessions, P1 regulation, recordings; a loop per concern and HTTP threads | Shelly EV switch, P1 meter, sensors that HEMS reads |
| PicoT Home Climate | `hc/__main__.py` | heating, heat pump and CV control, learned models | thermostats, HEMS (energy proposals and selections) |

The three never call each other: they exchange Home Assistant states, which can
be missing, late, or left over from an earlier process.

### Components of HEMS

| component | state | operations | interacts with |
|---|---|---|---|
| storage mode provenance, `storage_mode_provenance.py`, `live_storage_mode_provenance.py` | who chose the mode the selector shows; one document | observe, record the planner's application, reset an override, load, save | the planner loop on each capture and each command; an HTTP thread on each reset |
| planner loop, `live_runtime.py` | previous signature, the current capture | poll, recapture, boundary check, plan, checkpoint, apply | everything |
| Runtime Monitor, `runtime_monitor.py` | idle / running / stabilising, pending requests, last outcome per source | observe, start a planning, finish it | the loop; execution outcomes; material replanning |
| material replanning, `material_replanning.py` | what the last capture said | compare a capture with the last one | the monitor |
| canonical execution, `canonical_execution_runtime.py` | pending vendor mode, suspension, EV exclusion, idle readings, completion evidence | boundary check, apply a plan, apply a fallback, reset | commitment store, dispatcher |
| market trade, `market_execution_guard.py`, `market_export_measurement.py`, `domain/market_*.py` | the day's window, its progress, what a released window left | guard every look at the battery; revise, drop, release, bind the window | canonical execution, planning, power history |
| commitment store, `plan_commitment_store.py` | plans, daily assignments, reservations, route choices, joint receipts, EV exclusion | some forty, all on one JSON document | loop, HTTP, mailbox and EV threads, under `PlanningResetBarrier` |
| route choice, `route_choice*.py` | offered, pending and selected choices; the one planning request | offer, answer, accept, reject, release | HTTP thread, notification mailbox thread, loop |
| EV deadline advisor and adopter, `ev_deadline_runtime.py`, `ev_joint_adoption.py` | published advices with their proofs; receipts | assess a request, accept an executed advice, bind the battery's route | Energy Devices through two sensors; commitment store |
| planning pipeline, `mep_canonical_pipeline.py`, `planner/` | none beyond its run | one planning from one immutable snapshot | calls the checkpoint back |
| dispatcher, `adapters/home_assistant*.py` | none | one service call | Home Assistant |
| web UI | views | render; POST end points | the stores, on HTTP threads |
| ledgers, histories and learning | measurements | append, compact, learn | read by planning |

### Components of the other two programs

| component | state | operations | interacts with |
|---|---|---|---|
| EV sessions, `ed/ev_sessions.py` | sessions, charging request, advice, profile | thirteen user actions, the tick, the exchange | plug and meter, the car's events, HEMS |
| exchange with HEMS, `ed/charging_advice.py` | what it published last | publish the request, fetch the answer, receive it | EV sessions; HEMS through two sensors |
| P1 regulation, `ed/regulation.py`, `ed/regulation_guard.py` | correction guard with its latch and file, snapshot store | poll, compare, latch, serve, publish | P1 meter, its consumer, the policy HEMS reads |
| Home Climate: control, `hc/control.py` | the commands table | submit, observe a reading, expire, interrupt at a start | the poll thread and HTTP threads under `Control.lock`; Home Assistant |
| Home Climate: schedule, `hc/schedule.py` | settings, baseline of each source, manual overrides | observe, hold, intent, tick, resume, settings | control (callbacks), heating |
| Home Climate: heating, `hc/heating.py` | owned sources, faults, timer | reconcile, plan, one command per poll with a guard | control, schedule, learned models |
| Home Climate: proposals, selections, learning | one pending proposal, learned models | publish, withdraw, learn | HEMS, through sensors |

### What is hard

- The loop and any number of HTTP threads share the provenance runtime, and the temporary
  path it saves through, with no lock. `PlanningResetBarrier` serialises the planning reset
  with a cycle, but the mode override reset does not take it.
- A planning lasts minutes. It works on an immutable snapshot; its checkpoints
  look at the world again and act, and then the planning's result, which may be a
  fallback decided on the old snapshot, is applied.
- A command is a Home Assistant service call. Its effect shows later, or never,
  and neither an error nor an answer that it failed says whether it ran.
- A mode in the selector, a plug or a heat source has no author. Ownership is inferred
  from what the process recorded, which a crash can separate from what it sent.
- The EV guard must not let the battery feed the car: its latch, its saved copy,
  its 30-second idle confirmation, and the SOC replacements after it have to
  agree over restarts, missing reports and refusals.
- HEMS and Energy Devices commit to one advice together while each sees only a copy of
  what the other said, either may restart, and the user may cancel in between.
- An answer to a route offer reaches the store from two threads, may be repeated from a
  mailbox after a restart, and is given effect by a third thread's next planning.
- The measurements a market trade is judged by have gaps, and the window moves under it.
- A correction is compared with what its consumer shows seconds later, while its file may
  be unwritable and what was published before a latch is still being relied upon.
- Requests to plan arrive while a planning runs or stabilises, and failures must
  neither be forgotten nor ask for planning for ever.

### What makes each component correct

Properties in parentheses are stated in the modules and refuted; section 4 says how.

| component | correct when | property |
|---|---|---|
| provenance | an override ends only by a reset, and a reset is final until the selector moves | `OnlyResetReleases`, (`ResetIsNotUndone`) |
| provenance | what the planner did is never taken for the user's, what the user did is noticed | `PendingIsRecorded`, `TakeoverIsNoticed`, (`OverridesAreManual`) |
| loop, execution | nothing is sent under an override | `BoundaryRespectsOverride`, (`CommandsRespectOverride`) |
| all of the above | together they are one owner that changes hands | `ImplementsAuthority` |
| execution | the battery does not discharge into the EV | `EvIsolated`, `IdleReleaseAfterQuiet` |
| execution | what is awaited was sent | `AwaitedIsComing` |
| monitor, loop | no change is forgotten, and every admitted planning may start | `NoChangeForgotten`, `AdmissionStands`, `EventuallyAnswered` |
| monitor, loop | a repeated failure does not keep the planner busy | `FailureDoesNotLoopAfterSuccess`, (`FailureDoesNotLoop`) |
| EV sessions | a run ends with the plug off; a manual off stands | `OwnedRunEndsOff`, `ManualOffStands`, (`CancelLeavesOff`) |
| EV sessions and HEMS | an advice is executed once, takes power only with a receipt, and does not wait in silence | `RequestIsNew`, `PendingIsUnpowered`, `ConfirmedIsBound`, `ImplementsAcceptance`, `PendingIsAnswered` |
| regulation | a correction is proven before it is relied on, a latch serves nothing, a wrong one stands, a passing loss ends | `ComparesTransmitted`, `ServesUntilLatched`, `ReliesOnProven`, `WrongCorrectionStands`, `LossEnds`, (`LatchMatchesHold`) |
| route choice | request, answer and view belong together; consent counts once; a chosen route is not left for price; an answer is decided | `ConsentIsOwned`, `ImplementsConsent`, `ConsentIsAnswered`, (`OfferIsShown`) |
| market trade | one trade a day, within its budget, closed with an outcome | `ImplementsDayTrade`, `BudgetIsKept`, `TradeIsClosed` |
| Home Climate control | a request is sent at most once, one command is going on per source, and every one ends | `SentOnce`, `OneOngoing`, `EveryCommandEnds` |
| Home Climate schedule | a manual choice holds its source, and only the user makes one | `ScheduleRespectsHolds`, (`OverrideIsUsers`) |

## 2. Plan

Done, in the order of what matters most to the person whose battery it is: mode authority,
the execution boundary, replanning, Home Climate's source control, EV sessions, the joint
acceptance, P1 regulation, route choice, the market trade. Each has a module, a run and a
proof module, four of them an abstract specification that they are proved to implement.

Left, in order:

1. The rest of the commitment store: reservations, supplemental assignments and bridge
   states, which compose with `RouteChoice`; completion attribution in the execution
   runtime (`_observe_daily_completion`, `_close_previous_charge`).
2. Home Climate: the proposal publisher (one worker, latest value wins, sends that fail with
   unknown effect), heating's owned sources and faults.
3. Pure algorithms over bounded inputs: merging of market windows, the financial ledger's
   intervals, the daily calendar.

Theorems left: those of the modules above. Every safety property that a passing run checks
is proved.

## 3. Modules

| module | what it is | code |
|---|---|---|
| `StorageModeProvenance` | pure transitions of the provenance record | `v2/storage_mode_provenance.py` |
| `ModeAuthority` | abstract: one owner, commands only by the owner | what ADR-047 wants of the code |
| `ModeControl` | loop × HTTP threads × documents × selector × user | `v2/live_storage_mode_provenance.py`, `v2/live_runtime.py` |
| `CanonicalExecution` | the execution runtime's calls | `v2/canonical_execution_runtime.py` |
| `RuntimeMonitor` | pure transitions of the session | `v2/runtime_monitor.py` |
| `LiveCycle` | loop × monitor × world | `v2/live_runtime.py` |
| `SourceControl` | control × schedule × heat sources and their user | `hc/control.py`, `hc/schedule.py` |
| `EVSession` | session manager × plug × its user × car × meter | `ed/ev_sessions.py`, `ed/runtime.py` |
| `EVAcceptance` | abstract: an advice is chosen, bound, powered, withdrawn | what the two programs promise together |
| `EVJoint` | `EVSession` × exchange loop × sensors × advisor × adopter | `ed/charging_advice.py`, `v2/ev_deadline_runtime.py`, `v2/ev_joint_adoption.py` |
| `RegulationGuard` | poll × guard × file × snapshot × policy | `ed/regulation.py`, `ed/regulation_guard.py`, `ed/runtime.py` |
| `RouteConsent` | abstract: one question per assignment, answered by its user | what ADR-037.27 wants of the code |
| `RouteChoice` | loop × dashboard × mailbox × document | `v2/route_choice*.py`, `v2/plan_commitment_store.py` |
| `DayTrade` | abstract: one trade whose budget only shrinks | what ADR-019.3, .4 and .7 want of the code |
| `MarketTrade` | guard × planning × selector × meter | `v2/market_execution_guard.py`, `domain/market_*.py` |
| `MC...` | constants for TLC | |
| `...Proof` | theorems for TLAPS | |

### How state and actions correspond

**`ModeControl`.** `disk` and `tmp` are `StorageModeProvenanceStore`'s path and its
temporary path, `mem` and `loaded` are `_current` and `_load_attempted`, `txn[t]`
is the call in progress on thread `t`, the loop or one of `Requests`: the record it
computed, how far `save` has come, and what the file it has open is by now. `save` is one
action per file system call, because another thread can run between any two: `SaveOpen`
truncates the temporary file, also another thread's; `SaveWrite` writes into the file that was
opened, wherever a rename has put it since; `SaveReplace`, or `SaveReplaceFails` and
`SaveAborts`; `SaveCleanup` asks for the temporary file, `SaveUnlink` or `SaveUnlinkFails` removes
it; `SaveAssign` is the assignment in `_commit`. A record fits in the file's buffer, so one write
carries it; one written over another may leave the other's end behind (`Written`). `pc` and
`phase` say where the loop is:
`_poll_live_cycle` captures, observes, checks the boundary, and decides; a
completion or accepted route captures again (`Refresh`); a planning checks the
boundary at its checkpoints and ends with `apply_committed` on a fresh capture
(`FinishCommitted`) or with `apply` on its own snapshot (`FinishFallback`, after
which `Basis` is `planSnap`). Whether a segment is due, and which mode it wants, is
any choice: `BoundaryBlocked` stands for every refusal.
Instants are revisions of the selector: `state_changed_at <= observed_at` says that
it has not moved since the previous observation. `Unavailable` is the selector's state when
Home Assistant has lost the battery, which the code keeps as a mode (fault `outage`). `by`,
who turned the selector, is for properties only.

**`CanonicalExecution`.** One call is one action, as it runs on one thread. A
capture `s` says what the guards see: the primitive that is due after the market
guard, whether a guard before or after the EV guard refuses, the class of the SOC,
the kind of EV report, and whether the corrected meter is proven. Modes and
primitives correspond one to one. `Final` is the rewriting sequence of
`advance_committed_boundary`: EV isolation, reserve stop, full-charge replacement,
EV isolation again. `now` counts the instants at which reports were measured, and `idle` holds
the first and the last of `_ev_idle_observations`. A live capture is measured now (`Taken`).
`planning` is the evidence a running planning keeps, with the instant `at` of its report, which
`ApplyFallback` replays as the code does with the old `measured_at`: `Chained` joins it to
the readings or starts them anew with it. A command answered as failed may have been
executed (`DispatchFails`). The histories are for properties: `seen` and `charged` are what the
guard has read of EV activity and when the newest charging was measured, `bypassed` that since
then a fallback acted on evidence the guard had overtaken or a save of the latch failed,
`astray` that the awaited command was lost or a failed one received after it.

**`LiveCycle`** abstracts what a capture says to a version number. `Recapture` is
each of the three later captures of a poll; `ObserveInput` includes the start or
reset request that a poll adds while `previous_signature` is unknown; `Serviced`
is a boundary check with the outcome it reports to the monitor. `expired` is the one
comparison the monitor makes with the clock.

**`SourceControl`.** `records` is the commands table and `call` the submit in
progress, which holds `Control.lock`: up to the recorded intent it is one action
(`Submit`, with the fresh reading, the schedule's part in it and the guard), then
the call to Home Assistant (`Send`) and the save of its answer (`Save`) are actions
of their own, because the source, its user and the process's end can come between
them. `baseline` and `override` are `Schedule.data` in memory and `stored` what its
last successful `save` wrote; a restart goes back to it. `ObserveAborts` is a
reading whose taking in ends at a write that raises, at each place where one can.
Identifiers in `Scheduled` are the schedule's: each of its requests has a fresh UUID.

**`EVSession`.** `session` is the newest session, open or closed; an older one is never
changed again but by its own closing. Each user action of `action()` is an action
(`ByHand`, and `RequestAdvice` and `ExecuteAdvice`, which need HEMS); `Tick` is one call of
`tick` for the newest or a newly recognised session, as the composition of the changes it makes in
their order: `VehicleReset`, `VehicleEvent`, `Measured`, `Interrupted`, `Executed`. What
`ev_poll_once` read before it took the lock is the `Reading`. Ages stop at the limit they are
compared with (`Retry`, `LowWait`, `EndWait`). `plug`, `wire` and `report` are the switch, an
order on its way and what Home Assistant last heard.

**`EVJoint`** adds the two loops. `exchange_once` is `Exchange`, `Publish`, `Fetch`,
`Receive`, since its lock is held only within a call; HEMS's thread is `hemsStep` with the
envelope it read, and its acceptance binds the route, writes the receipt, and publishes, in
three steps with other plans and crashes between them. Every age limit is a refusal that may
come.

**`RegulationGuard`.** `RegulationPoll` is one `regulation_poll_once`, with the file's write
and its failure; a source that was ready when it was evaluated may be too old when it is
checked (`Valid`); `Elapse` lets a tick pass; `Served` is what the API answers; `relies` is the
age of the measurement behind the policy HEMS last read.

**`RouteChoice`.** `Capture` to `EndCycle` is a cycle of the loop, which holds the barrier and
writes several times in it; `Retain`, `Settle`, `BindChoice` and `BindRelease` are
what its planning does with the snapshot's request. `Answer` and `Release` of the other
threads read the clock first and write when they get the barrier (`PersistAnswer`,
`PersistRelease`). `mail` is the Home Assistant helper's text, which may be read again after
a restart.

**`MarketTrade`.** `Look` is one pass of `guarded_market_primitive`, at a poll or a
checkpoint, with at most one thing amiss; `Judged` is the record it leaves, `Permits` what it
lets through. `pending` is the mode whose feedback is awaited: it is never sent again, before the
feedback timeout or after it, until another mode is sent or shown, the process restarts or
planning is reset (`Awaits`, `Sends`, `Forgets`); `Lost`, the reset of an override, leaves it.
`Revise`, `Drop`, `Release`, `Bind` are what planning publishes, judged at the
instant of the capture it started from. One tick of export is one planned unit; `meter` is the
reading at every tick, and `Measured` what the power history proves of it.

Definitions whose comment starts with *Mutant* are wrong variants of the definition
after them. They are used by nothing; each shows, put in place of the original,
that a property notices the mistake.

## 4. Runs

A run checks the module `MCX`, which extends `X` with the small sets and the symmetry its
configurations name, or `X` itself when it needs none; `X.cfg` and `X_<case>.cfg` give the
constants.

All runs check deadlock but `market`, whose day ends.

### That pass

| run | cfg | shows | distinct states |
|---|---|---|---|
| `mode_threads` | `ModeControl_threads` | two overlapping resets racing the loop and each other through their saves, with crashes and failing commands; refinement of `ModeAuthority` | 2,528,215 |
| `mode_restart` | `ModeControl_restart` | crashes, unreadable documents, outages, failed and lost commands, the stale fallback; a standing takeover is noticed | 638,972 |
| `execution` | `CanonicalExecution` | EV isolation through every replacement, awaited feedback, the idle timer with replayed instants, under every fault | 181,283 |
| `cycle` | `LiveCycle` | admission, no forgotten change, the last planning answers the last change, a repeated failure dies out, with restarts | 78 k |
| `hc_commands` | `SourceControl` | one manual and one scheduled request on a source under every fault | 159 k |
| `ev_session` | `EVSession` | every way a session starts and ends, with a hand on the plug and late orders | 611,624 |
| `ev_joint` | `EVJoint` | two requests, one of which may be revised, between the two programs; refinement of `EVAcceptance` | 618,582 |
| `ev_answer` | `EVJoint_answer` | an executed advice is answered, with crashes, lost publications and orders, an unavailable plug | 86,158 |
| `route_choice` | `RouteChoice` | two offers for one assignment, answered and repeated from both threads; refinement of `RouteConsent` | 356,432 |
| `regulation` | `RegulationGuard` | gaps, latches, restarts and unwritable files around two corrections | 19,239 |
| `market` | `MarketTrade` | one day with a moving window, a turned selector, incomplete measurements and commands lost for good; refinement of `DayTrade` | 345,211 |

### That finds a disagreement

`mode_outage` (5,098 states): the selector's state `unavailable` is kept as a vendor mode
(`zendure_mode_capabilities.py:164,240`, `live_storage_mode_provenance.py:208-227`), and when
the battery comes back in another mode, or goes away, `storage_mode_provenance.py:129-132`
records an override that nobody made and only a reset ends. ADR-047:91 makes the "manual/external
selection event" the trigger; `storage_status_observation.py:22` does treat these states as
no observation.

### Disagreements without a run of their own

Each follows from a model; where a property states the expectation, TLC refutes it after
the change of the configuration given here.

Mode control and execution:

- A lost reset: the loop reads the record, the reset commits, the loop commits its copy of the
  old record, and the override is back (`ResetIsNotUndone`; no faults, `MaxRev` 2, `MaxResets` 1).
- Resets overlap: the server has a thread for each request. When the second of two assigns its
  record last, what the planner applied after the first is forgotten, and its feedback will look
  manual (`PendingIsRecorded` with two `Requests`, `MaxResets` 2); a slow second reset may end
  an override that came after the first.
- `StorageModeProvenanceStore` promises "atomic replacement"
  (`live_storage_mode_provenance.py:36`), but every thread has the same temporary path: a file
  that another one has just truncated is renamed, and a write may go into the document
  itself. A crash in that state leaves a document that cannot be read, and an override is lost
  at the restart; `DocumentLost` says so (`:77-101`).
- A reset may be answered with an error although it was saved: its temporary file was renamed
  by the loop's save. The override stands, and a restart then ends it. A
  reset overtaken by an observation in memory may take effect at the next restart likewise.
  `ResetUnderWay` says so, and is why `OnlyResetReleases` holds.
- The fallback acts on the provenance of the planning's snapshot: the command is sent
  under the override, recording it then raises and ends the process
  (`CommandsRespectOverride`; fault `no_daily_plan`, `MaxResets` 0; ADR-047:104-105).
- An old report reaches the guard in a fallback's snapshot, after a newer one of charging
  (`canonical_execution_runtime.py:1134`): a zero releases the EV exclusion at once, against the
  comment at 110, and an idle one starts the readings at its own instant, before the charging,
  so that the next idle report releases without the 30 seconds of line 112
  (`IdleReleaseAfterQuiet` without `~bypassed'`). And when saving the exclusion fails, the error ends the
  process, and a missing report after the restart allows the discharge (`:158`). `EvIsolated`
  without `~bypassed` shows the first and the last.
- A lost command is awaited for ever: `_feedback_status` answers for as long as the mode is
  pending, past its timeout (`:263-269,927-934`). The log knows it ("No automatic
  reassertion after uncertain timeout", `docs/development_log/2026-09-14-audit-repair.md:34`), but a lost stop leaves
  the battery exporting and its trade open: `TradeIsClosed` excludes `[]Stranded`.
- A timeout is answered as failed although Home Assistant may have executed the command
  (`src/picot/adapters/home_assistant.py:187-197`): it may replace the one awaited, whose feedback then never comes
  (`AwaitedIsComing` without `astray`).
- The boundary is refused for a missing record and for an override only, so
  `unverified` provenance lets commands through, where ADR-047:204 asks for a
  fail-closed start (`canonical_execution_runtime.py:758`).
- Of two commands in a row, the late effect of the first is recorded as a manual
  override (`storage_mode_provenance.py:127`).
- The mode override reset keeps `_pending_vendor_mode`, so a command sent before the
  takeover is awaited after its reset and not sent again
  (`canonical_execution_runtime.py:263`, ADR-047:119-122).
- Charging captured by a call that is refused before the EV guard does not restart
  the idle confirmation (`canonical_execution_runtime.py:668`).
- A `dispatch_failed` answer does not clear the pending mode, as item 5 of V2ADR-060 (line 35)
  says; only an exception does (`canonical_execution_runtime.py:965-968`).
- Until a first planning succeeds, a latched timeout makes every poll plan again
  (`FailureDoesNotLoop`; one source, outcome `timed_out`, `MaxWorld` 1, no faults;
  `development_log/2026-09-14-audit-repair.md:83-87`).

Home Climate:

- A heat command is preempted by an off before its effect shows; when it does, the source is
  held as if the user had turned it (`OverrideIsUsers`; `schedule.py:320`, against
  `HC-ADR-012-source-control.md:39-40`).

Energy Devices and the joint acceptance:

- A cancelled session whose plug was never ordered on leaves the plug as it is, on included
  (`CancelLeavesOff` with features `window` and `direct`; `ev_sessions.py:666`, against
  `ed/DOCS.md:148`).
- A session made by `plan` and turned off by hand before a first sample of 100 W is not
  paused, and is switched on again.
- Cancelling a recognised session in the tick in which low power reaches five minutes closes it
  as completed after one unconfirmed off; a delayed `turn_on` that arrives after the close
  leaves the plug on; a closed cancelled session may be relabelled completed by the car's
  event.
- A joint session that waits and whose slot began stays open until it is cancelled; a receipt
  that HEMS wrote while the user cancelled has no session.
- The comment at `regulation_guard.py:144-145` wants the latch to fall when the hold ends;
  between the two the API serves nothing although the guard permits it (`LatchMatchesHold`).

Route choice:

- An offer may stay unseen: the view follows the sorted random tokens, so an older offer hides
  a newer one (`OfferIsShown`; `route_choice.py:158`, against `route-choice-notifications.md:45`).
- A recovery replaces the request of a pending choice, which stays `pending`, is never
  accepted or rejected, and blocks new offers; the same happens without a trace when the assignment completes.
- A selected choice survives a recovery, but the first planning after it is not bound by it
  (`2026-10-26-route-choice-planning-input.md:21`; in the model `left = "first"`); a joint EV
  acceptance rebinds a route without the choice's locks (`left = "joint"`, ADR-037.27);
  inputs that are missing for a moment reject the user's choice.

Market trade. `BudgetIsKept` counts from the recorded start. The export of the whole day,
unrecorded parts included, can exceed the day's budget:

- when a window is released after its export began unobserved, because planning's capture is
  older (ADR-019.7 "Begonnen of afgesloten handel wordt niet heropend");
- when a revision moves an unstarted window's start past the change of mode (guard:57);
- when the first confirmed look lacks the battery's state (guard:53-54), so that the export is
  paused and begun again uncounted.

A start whose save fails makes the command oscillate; a trade may be recorded `skipped` although
export ran unobserved (guard:61-62, ADR-019.3); a moment of `unavailable` ends the day's trade;
`apply`'s fallback observes the interruption on its stale snapshot
(`canonical_execution_runtime.py:1042`).

### Bounds

*Mode control.* `MaxRev` changes of the selector (2 or 3): a command's effect, a takeover, and
a second one that races it. `MaxFlight` 1: while a command is in
flight the same one is not sent again, and the properties do not depend on which of
two comes first. Two `Requests` and `MaxResets` 2, so that two resets overlap, or a
release is followed by another takeover and another release. Two selectable modes and the
requests are symmetric where no liveness is checked. `mode_threads` explores resets together
with crashes and failing commands; the theorems cover every combination.

*Execution.* One command in flight, because a second one is sent only
after the selector was seen to move or the pending mode was reset. `MaxNow` 2 gives three instants,
with a confirmation of one and a gap of one: readings may be joined, or too far apart, and a
fallback may replay one that lies before a charging, which lies before the next reading. `AllCaptures` are the
combinations the properties can tell apart: every way a primitive is replaced, and reports
around the idle timer with refusals before and after the guard.

*Replanning.* `Outcomes` is one failure, reported at any time and any
number of times: with two alternating outcomes each one is news, and planning again is
what the code is meant to do; the safety properties are proved for any outcomes.
`MaxWorld` 3 changes include one while planning, one while stabilising and one after.

*Home Climate.* One source, as sources share nothing but the lock, two modes, and
one request of each kind.

*EV.* Ages have one unit, so a limit is reached or not. `ev_session` has no HEMS and every
feature of the house; `ev_joint` has two requests (one may be executed while the next is made), the
first of which may be revised (`MaxRevision` 2), and an older advice. It leaves out late orders,
which `ev_session` explores, and crashes and lost publications, which `ev_answer` explores
with one request. Both together exceed what TLC does in minutes; the theorems cover
any HEMS, all features and all faults.

*Regulation.* Ticks keep the order of the code's limits: fresh and transfer 1, stable and
confirm 2, trial 3, loss and grace 4, mismatch 5. A source is up to `Fresh` + 1 old at its
check. Two candidates, more than the tolerance apart.

*Route choice.* One day's assignment and two tokens, so that an old offer meets a new one;
three plans, one recovery, the choice between automatic and release on the dashboard and one
answer on the phone.

*Market.* Horizon 3, budget 2, and a meter that may run twice as fast as planned: a window can begin,
be shortened and end within the day, and one tick of export can exhaust the budget. At most one
thing is amiss with a look (`OneThingAmiss`), a failed save or command included; one turn by the user.

### Fairness

`ModeControl!FairSpec`: weak fairness of the planner loop and of a started save on
each HTTP thread. The loop's every wait is bounded by the poll interval, and nothing
it calls waits for another thread. It is stopped and finds the selector unreadable only finitely
often. Nothing is assumed of the user, of Home Assistant or of the commands.
`LiveCycle!FairSpec`: weak fairness of the loop, of the end of a planning
(`ApplyResult`; a planning is a bounded computation that checks in at checkpoints)
and of the stabilisation deadline. Changes of the world are bounded, which is what
*once the world rests* means; a process that is restarted for ever promises nothing.
`SourceControl!FairSpec`: the loop looks at the sources again and again, with a reading or
without one, and its writes do not fail for ever; a call to Home Assistant ends (it has a
timeout of ten seconds); deadlines pass. Nothing is assumed of the sources.
`EVJoint!FairJointSpec`: both loops go on (weak), and a state that can be written or read
again and again, or a message that is again and again not too old, once is (strong fairness of
the six steps an age limit or Home Assistant may refuse): both loops retry every few seconds.
`RegulationGuard!FairSpec`: time and healthy polls go on; `LossEnds` is conditional on
`AllIsWell`, that from some time on every poll is healthy.
`RouteChoice!FairSpec`: the loop captures and ends its cycles (weak) and a planning is not
superseded for ever (strong fairness of `Resolve`).
`MarketTrade!FairSpec`: the day passes, looks with complete evidence keep coming (weak), and of
commands to one mode that are sent again and again one is obeyed (strong, `Obeyed` for each
mode). Whether one is sent again is the code's to decide, and it does not do so while
that mode is awaited.

## 5. Proofs

`tlapm` checks every theorem below with no assumption beyond the named ones in the
modules (`...Assumption`): the special values are distinct,
the faults and features are known ones, the bounds and limits are natural numbers. No theorem
bounds the number of modes, captures, requests, advices, offers, ticks, turns or restarts.

| theorem | argument |
|---|---|
| `ModeControlProof!TypeCorrect` | `TypeOK` is not inductive: a commit writes what its transaction carries and the loop records what it commanded. `WellFormed` adds `CommitsCarryRecords` (a save in progress carries a record, and the document was read) and `StepsHaveTheirInput` (an observation has a mode; a command is recorded only when there is a record) |
| `ModeControlProof!BoundaryIsRespectful` | A check acts on a record that may be old. `ResetsOnlyRelease` (what an HTTP thread commits is never an override) and `LooksFirst` (at the boundary, a permissive capture implies a permissive record) are inductive together: only the planner's own observation can find an override, and the loop then captures it |
| `ModeControlProof!OnlyResets` | for any number of `Requests` and every fault. `OnDisk` follows the files through each system call. `Commits`: the loop's save in progress belongs to its step and keeps an override, and what an HTTP thread commits is a release. `TmpFile`: what is in the temporary file when the loop renames it is what the loop wrote, unless a reset is at it. `DocumentStood`: while an override is in memory the document is that override, a release, or, after a reset, unreadable. So an override goes only while a reset commits, or by a restart that finds what a reset left (`DocumentLost`) |
| `ModeControlProof!PendingAlwaysRecorded` | under `[]OneReset`: two resets that overlap refute it (section 4). `OnRecord`: the reset's record answers the override in memory (`ResetsAnswerOverrides`) and observations keep the planned mode (`ObservationsKeepPlanned`), so the record keeps the mode of the last command |
| `ModeControlProof!AuthorityImplemented` | refinement of `ModeAuthority`, from the invariants above, with crashes and any number of requests. It is stated for faults without `no_daily_plan`: the unguarded fallback is the one behaviour above that breaks the promise |
| `CanonicalExecutionProof!TypeCorrect` | every way to a command passes `Proceeds` or the fallback's test, which ask for a mapped mode after all replacements |
| `CanonicalExecutionProof!AwaitedIsAlwaysComing` | `AwaitInv`: unless `astray`, while a command is in flight nothing else is awaited |
| `CanonicalExecutionProof!EvIsIsolated` | under every fault. `IsolationInv` adds that activity seen and not bypassed is latched, and that the saved latch is the latch, so a restart finds it closed; every answer went through the guard, which isolates any primitive |
| `CanonicalExecutionProof!IdleReadingsRelease` | `QuietInv`, about instants: unless `bypassed`, the readings that count began no earlier than the newest charging was measured, and neither did the evidence of a planning that nothing overtook; so between that charging and the last reading lies at least what lies between the first and the last |
| `LiveCycleProof!TypeCorrect`, `AdmissionIsStable` | the session's methods return sessions, and only the start of a planning drops a request |
| `LiveCycleProof!ChangesAreAnswered` | strengthened with `Captured`: a capture is never older than the comparison before it |
| `SourceControlProof!TypeCorrect`, `RequestsSentOnce`, `OneCommandPerSource`, `HoldsRespected` | one invariant: the command of the submit in progress is recorded as going on (`CallIsOngoing`) and not yet sent (`SentAreRecorded`), holds are of manual requests (`HoldsAreManual`), and the hold that the guard looked at is the one in force at the call (`SendIsAllowed`). All else only settles records: it ends commands, and neither adds nor revives one (`Settled`) |
| `EVJointProof!TypesHold`, `RequestsAreNew`, `PendingHasNoPower`, `ManualOffIsRespected`, `OwnedRunsEndOff` | of `EVSession` beside any HEMS at all, whose messages come from anywhere. `SessionLinked`: an order is out only of a run that owns the plug, and the end of charging is timed only of a car seen charging in it (`Linked`). `IInv`: a run seen on says so (`OnIsObserved`); a plug its user turned off is not wanted on, or its off is still to be seen (`UserOffHolds`); identities grow (`IdentitiesGrow`), so a request that waits was never accepted; an open joint session has its request behind it (`AcceptedWhenPending`) |
| `EVJointProof!JointTypesHold`, `ConfirmedRunsAreBound`, `BothImplementAcceptance` | of both programs. `JInv` relates the copies to what they are copies of: a selection on its way was chosen (`SelectionsAreChosen`), a receipt on its way is in the store (`ReceiptsAreKept`), what was chosen before is withdrawn by the time something else is (`ChosenIsOld`, `HistoryFollows`). Each step of either program is then a step of `EVAcceptance` or none |
| `RegulationGuardProof!TypesHold`, `GuardComparesTransmitted`, `HemsReliesOnProven`, `WrongCorrectionIsFinal` | `OnTrial`, kept by each step of the recovery and of the watch: a trial runs on a latched loss only and leaves no matches behind. `IInv`: what is on file is latched (`FileIsLatched`), so a restart finds it; a trial runs only on a latch for loss (`TrialIsOfLoss`); HEMS relies on nothing measured after the latch (`ReliesOnBefore`) |
| `RegulationGuardProof!GapIsServedUntilLatched` | `GapCoversHold`: the last good value is older than the gap that the guard counts by no more than the age a source may have at its check |
| `RouteChoiceProof!TypesHold`, `ConsentOwned`, `ConsentImplemented` | `Inv`: one live offer per assignment (`OneLive`), the request is a pending offer's and the reverse (`RequestOwned`, `PendingOwned`), the view's last offer is the live one (`ShownIsLast`), and what the loop's snapshot says still stands, because it holds the barrier (`SnapshotStands`) |
| `MarketTradeProof!TypesHold`, `BudgetHolds`, `DayTradeImplemented` | `Inv`: the units of a window are approved (`WindowFits`: a revision shortens both alike, so the approved units never become negative), an export that stopped had started and was to stop (`StoppedHadRun`), and an unbound day is untraded (`UnboundIsUntraded`). A look that lets a known export go on has measured it up to now, and what a gap hides is allowed for (`DoubtCovers`) |

Only model-checked: liveness (`TakeoverIsNoticed`, `EventuallyAnswered`,
`FailureDoesNotLoopAfterSuccess`, `EveryCommandEnds`, `PendingIsAnswered`, `LossEnds`,
`ConsentIsAnswered`, `TradeIsClosed`), which needs fairness and `ENABLED`. Every other property of a
passing run is a theorem.

## 6. Not modelled

The optimisation itself (candidates, prices, forecasts, simulation), parsing of
Home Assistant states, learning, rendering, the ledgers, Home Climate's heating and
proposals (planned, section 2; of its control, temperature and fan commands, the
comfort windows and the temporary temperature), and the legacy add-on that is not deployed. Inside the
modelled components:

- execution: the completion evidence (a capture that refuses, a completion that may happen), the
  calibration interlock (a capture that refuses);
- mode control: two threads in the very first load of the document, or between two reads of the
  record within one call; a record that takes more than one write;
- EV sessions: measured energy, texts, recordings;
- regulation: the computation of a candidate is one of `Candidates`; the deployed minimum of one
  ready report is always met; stamps from the future or too old are absent; turning the
  correction off is part of a restart;
- route choice: the notifier's outbound queue, and the comparison of windows, which is whether
  a route stays inside the chosen ones;
- market: several bindings or scopes a day, segments whose amounts shrink without the window,
  the completion's costs, the guard call of `apply` on its own capture;
- everywhere: instants and time zones, validation errors of malformed input, and a clock
  that steps backwards.

`PROJECT.json` lists every component with its status and every
hazard with the property that covers it, or the reason why none does.
