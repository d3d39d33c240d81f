# A verification project for back-test

back-test is a Python platform that back-tests and forward-tests trading
strategies and, with a broker connected, trades them: equity runners and option
runners, on paper or live, under one portfolio manager.  This directory holds
TLA+ models of the parts of it where order, failure and time decide whether the
program is right, TLC configurations that check them on small instances, and
TLAPS proofs that lift the most important results to every value of the
constants.

Paths below are relative to `src/src/backtest/` unless they start with `src/`
or `docs/`.  Commands run in this directory:
`tlc -config spread_reliable.cfg MCLiveOptions`, `tlapm LiveOptionsProofs.tla`.

## 1. The system

### 1.1 How a trade happens

A feed closes a bar.  The portfolio manager's tick thread hands it to every
runner subscribed to the symbol; `StrategyRunner.process_candle_event`
(`forward/paper_runner.py`) works it off under the runner's lock: the strategy
is asked, its answer is turned into an order or an option intent, instance risk
and the operator's levels are checked, queued requests are served, and refused
orders that are due are sent again.  Between bars the manager ticks: it polls
the venue for fills, reconciles with the broker's order book, evaluates the
circuit breaker and saves a snapshot.  API threads do what operators ask, in
between and beside all this.

Three ways lead to a venue.

* An equity order of a paper runner fills on the spot in the runner's book.
* An equity order of a live runner goes through `LiveEquityGateway`
  (`forward/live_gateway.py`): it is placed, tracked in a working set, and its
  fills are booked when a poll sees them.
* An option decision goes through `OptionsBridge` (`forward/options_bridge.py`)
  to a broker with two calls, open a structure and close a structure.  Live,
  that is `LiveOptionBrokerAdapter` over `LiveOptionTrader`
  (`options/live_trading.py`), which sends the structure leg by leg, or two
  legs on two threads, against a journal of decisions.

### 1.2 Components

| Component | State it keeps | Operations | Hard because |
|---|---|---|---|
| Live option trader and adapter (`options/live_trading.py`) | the call in progress, one `LegResult` per leg, the positions and open structure of the adapter | `execute_structure`, `close_structure`, `_submit_leg`, `_settle`, `_reconcile`, `_rollback`, snapshot | answers get lost, polls time out, two legs run on two threads, a part of the legs fills, the process dies between an order and its record |
| Intent journal (`options/intent_journal.py`) | append-only rows with a dedupe key | `append`, `order_id_for` | it is the only memory that tells a replay from a new decision |
| Live equity gateway and ledger (`forward/live_gateway.py`, `OrderLedger`) | working set with wanted and applied quantities, ledger rows, snapshot | `submit_market`, `poll_pending`, `reconcile`, `cancel_working`, `modify_working`, `restore_state` | polls, cancels, amendments, reconciliation and snapshots run on different threads; fills are told apart by a count alone |
| Equity runner (`forward/paper_runner.py`) | status, position, levels, one queued retry, one spent budget per symbol | the bar pipeline, `_queue_retry`, `_pump_retries`, `_emit_close`, `close_position`, `flatten_all`, pause, resume, stop | a refused order is sent again by a clock while strategy, operator and breaker go on deciding |
| Options bridge (`forward/options_bridge.py`) | open structure, bar counters, day budget, bucket latch, cooldown stamps, exit rules | `on_intent`, `on_bar`, `on_tick`, `manual_exit`, `flatten_all`, snapshot | bars, ticks and operators may all enter and exit; half of the guards count bars, half the clock, and a restart keeps some of them |
| Portfolio manager (`forward/portfolio_manager.py`) | runners and their statuses, latches of bucket, segment and portfolio, session peaks, parked snapshots, tick thread | tick, breaker evaluation, emergency flatten, pause, resume and stop of one or all, reset, spawn, removal, restart, wake at a login | halts, peaks and parked books must outlive crashes, midnights and logins; every operator has its own path to the same latches |
| State store (`forward/state_store.py`) | one JSON snapshot | save, load, restore | what it leaves out is forgotten by a restart |
| Feeds (`forward/feed_registry.py`, `feed_quality.py`) | subscribed symbols, last accepted stamps, one poll thread per broker and its stop event, the websocket's forming minutes | subscribe, remove, start, stop, poll, ingest a websocket bar | two paths deliver the same bars; a thread is stopped while it fetches; many places have to keep the thread in step with the fleet |
| Broker sessions (`brokers/session_manager.py`, `remember_session.py`) | token and expiry of each broker, last status seen, an alert, the remembered session on disk, the login wake in flight | login, logout, tick of the monitor, a rejected request, toggle, restore, wake | sessions end by themselves, at the venue or by hand, on four kinds of threads; half of what follows happens after the lock is released |
| Simulator order and lot bookkeeping (`simulator/`) | orders, positions, FIFO lots | fills, transitions | none concurrent; arithmetic at boundaries |
| Optimisation, diary, ingest, alerts, Pine converter, reports, API, CLI | their own stores | batch or read-only | not part of the order path |

What makes each of the modelled ones correct:

* **Trader.** A leg of a decision reaches the venue at most once; nothing is
  rolled back while an outcome is unknown; an unknown outcome stops the runner;
  a hedged structure is never naked; the book is the venue's position; every
  call returns.
* **Gateway.** No fill is booked twice, none is lost; a row never calls dead or
  finished what still works; every finished order leaves the working set.
* **Runner.** A refusal cannot become a stream of orders, two positions, or a
  runner that never gets out of, or never into, a position again.
* **Bridge.** The day budget holds whatever closed the structures; ticks enter
  once per bucket; the bar that closed something opens nothing; a structure is
  closed once; an intraday book is flat over night.
* **Breakers.** A runner of a halted scope rests until an operator says
  otherwise; a latch falls for three reasons, and a crash loses none that is on
  file; a runner a restart could not construct stays on file.
* **Anchors.** The drawdown the fuse measures forgets no loss of the day, is the
  same after a restart, and is not moved by money.
* **Feeds.** A running runner is polled and gets its bars; an idle feed rests.
* **Sessions.** A session that ended is not kept on disk, unless a save that had
  looked before was overtaken; one that was lost is
  paged; no book waits for a session that is there with nobody on the way to
  wake it.

The full list of components, with the reason for each that has no module, is
in `PROJECT.json`; so are the hazards, each at the line where it bites.

## 2. The modules

| Module | Models | Notes |
|---|---|---|
| `IntentJournal` | `options/intent_journal.py` | pure operators on a set of rows: `Record` is `append` with the dedupe key, `OrderIdFor` is `order_id_for` |
| `LiveOptions` | trader, adapter, its threads, its venue | EXTENDS `IntentJournal` |
| `StructureSeam` | what any option broker promises the bridge | the abstract specification `LiveOptions` implements |
| `LiveGateway` | gateway, ledger, operator requests, snapshots, its venue | |
| `RunnerOrders` | the equity runner's order logic | bar pipeline under the runner's lock |
| `EntryGates` | when the options bridge lets a structure in and makes it leave: the gates of `on_intent`, the square-offs, the sweep, the bar aggregator | what happens inside a call of the broker is `LiveOptions` |
| `FleetHalts` | the latches of the portfolio manager over several runners: breaches, kills, pauses, resumes, resets, midnights, saves, crashes, parked snapshots, logins | what a breach is, is an input |
| `RiskAnchors` | what a breach is measured against: session peak and peak equity of a slice of books through trading, capital flows, midnights and restarts | two books stand for one and the sum of the others |
| `BarFeed` | the live bar feed of one broker, its poll threads, the websocket beside them, and the calls of the manager that keep them in step with the fleet | |
| `BrokerSessions` | the session of one broker, its monitor, its remembered copy on disk, its expiry page, the login wake | which runner is which, and what waking does to a parked one, is `FleetHalts` |
| `MC...` | instances for TLC | values of the constants only |
| `LiveOptionsProofs`, `LiveGatewayProofs`, `RunnerOrdersProofs`, `EntryGatesProofs`, `FleetHaltsProofs`, `RiskAnchorsProofs`, `BarFeedProofs`, `BrokerSessionsProofs` | theorems | EXTEND the component's module and TLAPS |

The lines every definition stands for are in `PROJECT.json` under `map`.
Definitions marked "Mutant" in the modules are plausible wrong versions of the
definition after them; nothing uses them, they document how each property can
be made to fail.

### 2.1 LiveOptions

`orders` is the venue: every order it accepted, and how much of it filled.  It
is external and does what the trader is written to survive; the constant
`Faults` names which of it a configuration allows: an unanswered placement, a
connection lost while the order book is read, no terminal status within the
poll timeout, a cancel after a partial fill, a fill without a price, a rollback
order that is refused.

`op` is the call in progress, `run[l]` the program counter and `LegResult` of
leg `l`.  One action stands for what a thread does between two answers of the
outside world: `PlaceAnswered` is the return of `place_order`, `JournalTicket`
the SUBMITTED row written after it; between the two a crash loses the id.  A
write of the journal does not fail: an error other than a duplicate, which would
leave an order without a trace as the crash does, is not modelled.
`Turn(l)` is the order of the legs: long sides first, each after the fill of the
one before, or both at once when `is_two_leg_same_side` puts them on two
threads.  `Settle*` is one outcome of `_settle`, `Reconcile*` of `_reconcile`,
`StartRollback`/`Flatten*` of `_rollback`.  `OpenFilled`, `CloseFilled`, ... are
the returns of a call, with the adapter's book and the bridge's reaction (a halt
pauses the runner).  `Crash` keeps `saved`, the venue, and the journal if it is
a database (`Durable`).

The bridge's gates are `MayEnter`; they are kept here to what the trader's
properties depend on and
are modelled whole in `EntryGates`.  `LiveOptions` has one call at a time, which
the runner's lock provides and the sweep of `EntryGates` breaks.

### 2.2 LiveGateway

A step is what one thread does between two answers of the broker.  The tick
thread polls (`StartPoll`, `PollSees`, `BookFill`, `AdvanceApplied`: the
portfolio gets the fill before the applied quantity moves, as in
`poll_pending`), it or an API thread reconciles (`ReconRead`, `ReconList`,
`ReconRow`: order book first, working set after), an API thread cancels or
amends (venue's half, then local half, then a snapshot in two captures), and
runners submit (`Place`, `Register`).  `Restart` is `restore_state`.

### 2.3 RunnerOrders

`stage` walks `process_candle_event`: strategy, instance risk, position rules,
requests, pump.  All of it runs under the runner's lock, so nothing else is
enabled in between.  Time is two countdowns, `retry.wait` and `blocked.wait`,
that `Tick` runs down.  A paper order fills or is refused at once; a live order
takes a slot and fills later.  `spent`, `entered` and `since` are history
variables: sends of a kind in the current episode, entries on this bar, time
since the last entry.

### 2.4 EntryGates

An instant is a session day and a place in the day, in units of which a bar has
`Bucket`; `clock` is the wall clock, `forming` the stamp of the bar the
aggregator (`TimeframeBarAggregator`) is filling, `marketDt` the bridge's
`_market_dt`.  A bar is stamped with its start (`BucketStart`, counted from
midnight as `bucket_start_ts` does) and sealed by the first minute of the next
one or by the closing print (`Sealable`).  `gate` is what the bridge remembers
of its last exit and entry: the exit bar, the exit's two time stamps and reason,
the latched bucket, the day and its closes.

`SealBar` is `process_candle_event` up to the mark of the book, `BarPasses`,
`BarEnters` and `BarExits` are `_process_option_bar`, `Mark` is a tick or a
minute mark, `TickEnters` is `on_intent` with `from_tick`, `OperatorExit` is
`manual_exit` or `flatten_all`, `Sweep` the session-clock thread of the manager.
An entry is one step.  A close is two, `StartExit` and the return
(`FinishExit`), because the sweep takes no lock and may come in between;
`stage` and `leaving` say who is inside a call.  `Faults` has three members:
"gap" (a minute bar is missing, and a bar is sealed late), "late" (the closing
print is missing, and the bar is sealed the next day), "overlap" (the sweep does
not wait for the runner).  Stop, target, risk cap, time exit, settlement and
flip are one reason, "rule": which of them fires is the exit policy's business.
Refusals for reasons outside the gates (feed, stale mark, days to expiry,
margin, strikes) are `Refused`.  The five seconds of opening stabilisation are
finer than the clock, and the quotes are live.  The snapshot a restart reads is
taken as current.

### 2.5 FleetHalts

`latched` holds the scopes whose breaker is latched: the portfolio (`halted`),
two buckets and a live segment (`_bucket_halted`).  A runner is in every scope
its config puts it in; who a scope counts (`Members`) and who its latch blocks
at a restore (`BlockedByRisk`) differ for a paper runner that names a segment,
as they do in the code.

Ticks, kills and operators take turns under the manager's lock.  A tick is
`PassBegins` (the roll of the date), then for each scope in breach `PassTrips`
(the latch, in memory) and `PassActs` (its runners are paused and closed at the
venue), then `PassEnds`, which saves if anything latched, and otherwise perhaps
(every fifth tick does, or a new peak).  A kill is `KillCloses` (close and
pause), `Kill` (the latches) and a pass, whose end saves.  The process may die
between any two of these, and what does not take the lock may come between
them: `pass` carries the scope, the latches set, the runners to pause and
whether a save is due.  Which scope in breach comes first is left open, where
the code goes buckets, segments, portfolio.  Every other control action is one
step and saves.

`disk` is the payload of the last save, and `Restart` is `_apply_state_payload`
on it: runners whose construction raises are `parked`, the latches of another
date fall, halted runners that ran come back paused.  Some callers of
`save_state` hold no lock (a change of limits, a cancelled or amended order, a
warm-up, a shutdown): `SaveReads` takes the payload into `drafts`, `SaveWrites`
puts it on disk at any later time, over whatever was saved since.  A login wakes
without the lock: `WakeAdd` (the part of it that takes the lock, and saves),
`WakeRestores` (the snapshot into the runner), `WakeBlocks` (the look at the
latches), and at the end a pass of its own beside whoever holds the lock
(`WakeEvaluates`, `WakeTrips`, `WakeActs`, `WakeSaves`).

`vouched`, `slipped` and `overtaken` are history: runners an operator set going
while a latch stood; runners a wake restored between the pauses and the latch of
a kill; latches the file lost to a save that had read before them.  The three
properties excuse nothing else: a latch is lost to a crash only while its setter
has not saved (`InFlight`) or if it was overtaken.

Left out: one wake at a time (two brokers may have one each); a payload is read
in one step, and a read without the lock may be torn; a write of the file does
not fail, and the JSON file and the database are one file; the closes of a pass
return; a snapshot that cannot be restored, which the wake takes off again and
puts back.  The save inside a wake's pass is one with the save at its end.  A
save under the lock is one step, and one that a wake's save outruns is a save
without the lock that read the same memory.

### 2.6 RiskAnchors

A book is its opening of the day, its P&L of the day and the date of its newest
bar; `anchor` is what the manager keeps of the slice.  `Rolled`, `Synced`,
`FlowIn`, `FlowOut`, `SavedPeakPnl` are `_maybe_roll_risk_session_ist`,
`_sync_slice_session_peak`, `_record_capital_flow` and the part of
`_snapshot_payload` that saves the peak.  `trail` is the reference the code is
measured against, and knows no capital: what trading made since midnight and the
most that was at any look.  Amounts are whole, rounding to paise is left out,
and a book stays solvent (`Solvent`).

### 2.7 BarFeed

A bar is its symbol and its minute.  An operator's call is one step, since the
manager's lock is held throughout; a poll thread takes a step for each answer of
the broker, each turn of the feed's lock and each delivery (`FetchOk`, `Accept`,
`Push`).  `stop` and `handle` are the feed's event and thread; `StopFeed` ends a
thread that waits between polls within the join, and leaves one that fetches to
run on with the event set, until a `StartFeed` clears it.  `Sync` is
`_sync_mstock_thread`; `SyncsOnControl` says whether `control_runner` calls it
(it does for mStock).  `WsTick` seals the forming minute of the websocket's bar
builder, and `WsAccept` and `WsPush` pass it on beside the poll.  `Warmed` is
the end of a warm-up on its own thread, at any time later.

### 2.8 BrokerSessions

Tokens are numbered as they are issued, and each is fresh, about to expire or
over; `token` and `forced` are the broker's `_session_token` and
`_forced_expired`, `Status` is `get_session_status`.  The session manager's lock
orders the halves of a login or logout that change the session (`VerifyTotp`,
`ResetCycle`, `Hold`, `Logout`), `MarkExpired` and the monitor's tick: each of the
former is a step, and none comes while a tick is under way (`Ticking`).  The
store, the choice and the alert know nothing of that lock, so whatever touches
one of them is a step of its own.  For a call these are `ResolveAlerts`,
`Capture` (the choice), `WriteEntry`, `HushAlerts`, `DropEntry`, `SetToggle`; for
a mark `ForgetEntry` and `PageOperator`, `PageCloses`, `PageRaises` (the look at
the alert, the close, the raise).  A tick is `Tick` (the status it reads; an
expired session is cleared), then `TickForgets`, `TickPages`, `TickCloses`,
`TickRaises` after an expiry, or `TickResolves`, `TickRemembers`, `TickWrites`
for a session, which refresh the entry; `TickNotifies` comes after the lock.  The
toggle may thus be turned off, or a request rejected, between the monitor's look
at the choice and its write.  A rejected request clears the broker's token
before it asks for the lock (`Rejected`).  A request that is answered leaves no
trace and has no step.  Those who only read the session do not wait for a tick
in the model; it changes the session in its first step or not at all.  `others`
is a save or a deletion of another broker between its read of the store and its
write.

`wake` is the thread `_notify_portfolio_authenticated` starts, one at a time:
`WakeTakesList`, `WakeBook` for each book on the list, `WakeEnds`.  A book is an
option runner on the frozen-mark stub ("WAITING"), on the live chain ("LIVE") or
not there; synthetic chains are off.  The acquire of the chain may fail: a
waiting book stays as it is (`Upgraded`), one under construction is parked.
`Build` is the first use of the portfolio manager, one step because a wake that
looks for the manager waits for the lock it is built under.

`ended`, `stray`, `due`, `dropped` and `refused` are history: tokens that ended;
an entry written by a save that had found the choice on and the session good and
was overtaken (`fit` carries that from the look to the write); a loss that is to
be paged; a notification that was dropped; books whose acquire failed since the
wake.

## 3. What each run checks

| Run | Instance | What it shows |
|---|---|---|
| `spread_reliable` | short leg and long hedge, 3 bar stamps, 4 calls, no faults | no leg reversed or closed twice, the short leg never ahead of its hedge at any interleaving of fills, and between calls the book is the venue's position |
| `pair_faulty` | two BUY legs on two threads, durable journal, lost answers, timeouts, broken connections, unpriced fills, one crash | tickets are unambiguous and real; a leg is placed again only when its first id was lost; no rollback under uncertainty; every order leaves a trace; trader, adapter and journal together implement `StructureSeam` |
| `calls_return` | the same pair, also refused rollbacks, fair | every call returns; an entry that returns with an order of its own still working pauses the runner |
| `gateway_faulty` | one order of 2 with partial fills, amendments to 1 and 3, two prices, lost answers, failing polls, removal, an overlapping reconciliation, two crashes | nothing is booked twice, whatever overlaps |
| `gateway_whole` | two orders that fill whole, cancels, an amendment, failing polls, removal, one crash, fair | every fill reaches the book; every finished order leaves the working set |
| `runner_orders` | lot 2, no policy or 2 attempts, cooldown 0 or 1, re-arm after 2, paper and live, fair | the budget of retries; a retry and a fresh signal never both open; a runner whose strategy stays flat gets out, one whose strategy stays long gets in |
| `entry_gates` | two days of four instants, bars of two, four kinds of runner, two structures, one restart, pauses, operators; bars arrive and the sweep waits for the lock | the day budget; one close of each structure; ticks enter once per bucket; flat nights |
| `fleet_halts` | a paper runner and a live one, both naming the segment; two dates, one crash with refusals, logins, two requests of operators, one save without the lock under way | halted scopes rest; a latch falls for three reasons only, or in a crash before it is in the file; parked snapshots are in every save |
| `risk_anchors` | two books, moves of one unit, two dates, two spawns, one crash with refusals and logins | no loss of the day is forgotten; a restart measures what was measured before |
| `bar_feed` | one runner, one symbol, two poll threads, the websocket, three minutes, one restart, fair | a running runner has its symbols in the feed and a live thread; one that goes on running gets the bar of each minute but the last |
| `broker_sessions` | one book, one API thread, one request that will be rejected, the monitor, three events in all, fair | an ended session leaves the disk; a lost one is paged; a waiting book has a waker, and is woken |

The run expected to end in a violation shows where the code and its own
comment disagree (more of them are in section 5):

| Run | Claim | What the run shows |
|---|---|---|
| `crash_in_wake` | `WakingOnFile` | While a login rehydrates a parked runner the file holds it stopped and empty: a crash there loses its positions. |

### 3.1 Bounds, and why they are enough

* *Legs and quantities.* Rollback, ordering and turns relate two legs at a
  time; a short leg with its hedge and a same-side pair are the two shapes the
  code treats differently.  One unit per leg suffices without partial fills.
* *Clock, attempts, crashes.* An intent is identified by its bar stamp, so two
  stamps tell a replay from a new decision; `spread_reliable` has three, for an
  open, a close and a second open.  One crash is enough to lose each thing once;
  the gateway's accounting is checked with two, because a second restart may
  come from the snapshot of the first.
* *Orders of the gateway.* Orders interact only through the poll's order of
  visits and the snapshot; two of them show both.  With partial fills one order
  of up to three units gives an amendment below and above what is filled.
* *Runner.* A budget of 2 is the smallest where "one more" and "one less" differ
  from "first" and "last"; cooldown 0 and 1 are the two sides of the same-bar
  rule; the retry is per symbol, so one symbol is enough.
* *Session.* Four instants of a day, in two bars, put one instant in each
  interval the gates tell apart: before and at the square-off minute, after it
  and in the sweep window, the close.  Two days show what a night keeps and
  loses.  Two structures are an entry and a re-entry; budgets of one and two
  are the smallest that tell a first entry from a second.
* *Fleet.* Two runners put one in each bucket, and both name the segment, which
  counts one and blocks both.  The segment has a limit, so it latches by a
  breach; the live bucket and the portfolio are what operators name, so they
  latch by a kill.  Two requests are a kill and the operator after or beside it;
  one save under way is enough to overtake.  Two dates and one crash give a roll
  before, between and after any two steps; the proofs have any number of each,
  any fleet and any limits.
* *Anchors.* The code adds one book to the others' sum or takes one away, so two
  books are one and the rest.  Moves of one unit within one of the opening give
  gains, losses and a loss after a gain; the proofs have any sizes.
* *Feed.* Two threads are what one slow fetch leaves; with both busy no third is
  started, and the call that would start it waits.  A minute each for a fetch, a
  late acceptance and the one that has to make up for it are three.  Larger
  fleets are left to the proofs.
* *Sessions.* Events are what people, the venue and the clock start: a login, a
  logout, a flip of the toggle, a request that will be rejected, a step of a
  token's age, a turn of the market window, a removal, a crash, a call for
  another broker.  Three of them are a session, what ends it and one more beside
  or after; what follows from them is not bounded, and gives 1.2 million states.  Books meet only in the list
  of a wake, and a rejection overtakes a login as a second API thread would; the
  safety properties are proved for any number of either.

`CHECK_DEADLOCK FALSE` is set in all but `broker_sessions.cfg`, whose monitor
ticks for ever: the bounds on attempts, orders and
crashes let the system come to rest, a stopped runner or an order book with
nothing left does too, and that is not an error.

Bounds that hide behaviour: `gateway_whole` has no partial fills, because with
them the code refutes `FillsReachBook` (`cancel_after_fill`) - see section 5.  `spread_reliable`
excludes ticks that re-emit a decision within its bar, for the same reason.

### 3.2 Fairness

* `LiveOptions` assumes weak fairness of the trader and of the venue: threads
  run, every wait of the code has a timeout, and an exchange brings an accepted
  order to a terminal status.  Nothing is assumed of the bridge.
* `LiveGateway` assumes strong fairness of the tick's poll and of the
  reconciliation, which the code keeps apart by the manager's lock: both are
  tried for ever (each tick; each 300th), neither is shut out for good.  A poll
  of one order succeeds again and again if it is tried again and again
  (`SF PollSees`).  An operator's request runs on once answered.
* `RunnerOrders` assumes that bars close and stages follow, that the clock runs
  while a bar may always intervene (hence `SF Tick`), and that a venue asked for
  ever does not refuse for ever: strong fairness of an *accepted* entry, exit
  and retry.  That is an assumption about the venue; without it no program gets
  in or out.
* `EntryGates` states no fairness and has no liveness property.  `FlatOvernight`
  is a safety property: the clock does not pass a sweep that is due (`Advance`),
  which is what the manager's thread is for, and a bar that is complete is
  sealed first unless a fault says otherwise.
* `FleetHalts` and `RiskAnchors` state no fairness either: their properties say
  what must not happen.
* `BrokerSessions` assumes weak fairness of the monitor's steps and of a wake's,
  and strong fairness of the steps that finish a call: threads run, and a call
  waits for nothing but the lock, which each tick gives back.  Nothing is assumed
  of marks; nobody has to log in, and no first use of the manager has to come.
* `BarFeed` assumes weak fairness of the clock and of every step of a poll
  thread, and strong fairness of an answered fetch: a broker that is asked again
  and again answers now and then.  Nothing is assumed of operators, websocket,
  warm-ups and crashes, so `CatchesUp` holds without any of them.

## 4. What is proved

All proofs hold for every value of the constants under the named assumptions in
the modules (`LegsAssumption`, `SwitchAssumption`, `BoundAssumption`,
`SizeAssumption`, `FaultAssumption`, `SizesAssumption`,
`ClockAssumption`, `GateAssumption`, `FleetAssumption`, `AnchorsAssumption`,
`FeedAssumption`, `SessionAssumption`): sets are finite where the
code has a finite list, quantities are positive, faults are of the listed kinds.

| Module | Theorems | Inductive invariant |
|---|---|---|
| `LiveOptionsProofs` | `TypesHold`, `TicketsHold`, `PlacementsHold`, `RollbacksHold`, `UnknownsPause`, `SeamImplemented` | `LiveOptions!IInv` |
| | `TracesHold` | `LiveOptions!TraceInv`, by `Traces` |
| | `PositionsHold`, `BooksHold`, `WingsHold` | `LiveOptions!QuietInv`, by `QuietDays`; `WingsHold` with `HedgeOK` |
| `LiveGatewayProofs` | `TypesHold`, `NothingBookedTwice` | `LiveGatewayProofs!IInv` |
| | `FillsArrive` | `LiveGatewayProofs!WholeInv`, by `WholeHolds` |
| `RunnerOrdersProofs` | `TypesHold`, `BudgetKept`, `OncePerBarKept`, `OnePosition`, `RetriesArePaced` | `RunnerOrdersProofs!IInv` |
| `EntryGatesProofs` | `TypesHold`, `BudgetHolds`, `ClosedOnceHolds`, `TicksLatch`, `ExitBarHolds`, `FlatNights` | `TypeOK` with `Budgeting`, `Closing`, `Staying` and `NightInv`, by property |
| `FleetHaltsProofs` | `FleetTypes`, `HaltedScopesStayAtRest`, `LatchesOutliveRestarts`, `ParkedStaysOnFile` | `TypeOK` and `StepsInOrder` with `ClosedScopeRests` and `HaltedScopesRest`, with `FileKnowsLatches`, with `ParkedInDrafts` and `ParkedOnFile` |
| `RiskAnchorsProofs` | `AnchorsTypes`, `NoLossIsForgotten`, `RestartExact`, `SpawnNeutral` | `RiskAnchorsProofs!IInv`, by `AnchorsInvariant` |
| `BarFeedProofs` | `FeedTypes`, `RunningIsPolled`, `IdleThreadsRest` | `Polled` and `Idles`, one per theorem |
| `BrokerSessionsProofs` | `BrokerTypes`, `EndedForgotten`, `LossPaged`, `WaitingWaked` | `TypeOK` with the property; `Sound` for `EndedForgotten`, `LostIsGone` for `LossPaged` |

Those with an `IInv` also have the theorem `Inductive`, `Spec => []IInv`.  Why
the strengthening is needed:

* **LiveOptions.** That no order is placed twice (`PlacedAgainOnlyIfLost`) is
  not inductive: a placement is refused by a ticket in the journal, so the
  invariant must say that every order that is not lost has a ticket or is one
  step from writing it (`HistoryOK`), that tickets are unique and name orders of
  the same leg and side (`TicketsOK`), and that the leg about to write one
  follows an order of its own (`LegsOK`).  That no rollback starts under
  uncertainty needs `TurnsOK`: off the threaded pair, legs after an unfilled one
  have not started.  `CallOK` ties the call to the structure it works on; it is
  what makes the refinement of `StructureSeam` step by step.  `SeamImplemented`
  covers initial states and steps: `Spec => Seam!Spec`.
* **LiveOptions, traces.** `NoInvisibleOrder` says of an order that is not lost
  that a ticket names it, where `HistoryOK` only says that its leg has a ticket.
  The two differ when a leg that has a ticket is about to write another, so
  `FreshOK` says that a leg whose placement was just answered has none;
  `TraceOK` then follows each order from its placement to its row, or to the
  UNCERTAIN row or the crash that lost it, and `EndsOK` a leg that ended to an
  order that ended.  `UnknownsPause` needs only `IInv`: the call that returns
  has looked at every leg (`Joined`), and pauses on any that has no answer.
* **LiveOptions, positions.** `NoReversal`, `BookMatchesVenue` and
  `NeverNakedShort` compare what the venue holds, a sum over the whole order
  book, with a few numbers.  The sum is a recursive function (`Total`), and the
  lemmas on it (what an appended or an updated order adds) are proved by taking
  the least order at which they would fail.  `Accounts` is the heart of
  `QuietInv`: what is committed at the venue for a leg is what the adapter's
  book holds and what the call in progress has done to the leg.  The rest says
  why that survives: a leg follows one order of its own call (`QuietLegs`),
  orders end whole or not at all and belong to one call (`QuietOrders`), a
  ticket names an order of its decision (`TicketsName`), and the book is full or
  empty in each leg (`QuietBook`).
  These theorems assume `Quiet`: the venue answers every call, whole and with a
  price, in time; a bar has one entry; nothing restarts.  That is what the code
  needs, and nearly not less: without any one of the nine parts of `Quiet` (the
  six faults, ticks, cooldown, crashes) TLC refutes `BookMatchesVenue` on the
  bounds of `spread_reliable`.  Without any one it refutes `NoReversal` too; the
  cooldown alone takes eight attempts and four bars.  `NeverNakedShort` it
  refutes without any but two: the cooldown alone takes seven attempts and four
  bars; with a rollback order refused it finds nothing to seven attempts and
  four bars, with a fill without a price nothing to seven attempts and three.
  Whether the theorem needs those two is open.
  `WingsHold` is of two-leg spreads whose long leg is no smaller than the
  short one: `rollback_naked` shows that with four legs it fails.
* **LiveGateway.** `booked <= filled` alone does not survive `BookFill`, which
  raises `booked`, nor `Restart`, which takes it back to the snapshot's.
  `Accounted` bounds what is booked by what is applied plus the fill in hand,
  and what is applied and in hand by what the venue filled; `SavedAccounted`
  says the same of the snapshot and of the half-taken one; `Unregistered` that
  no poll or book knows an order before its registration resets its count.  The
  theorem assumes `"save" \notin Faults`: a snapshot beside a poll breaks it,
  and `save_beside_poll` shows how.
  That every fill reaches the book needs the other direction, that nothing is
  lost on the way: `Exact` makes the inequalities of `Accounted` equalities while
  the runner is there, `PollOK` says that the order in hand has its row and fills
  no further, `ReconOK` and `ApiOK` that an order a reconciliation or a cancel
  takes for dead still is, and `OverOK` is the property for every order that has
  left the working set.  `Whole` (no partial fills, no lost answers, no
  reconciliation and no snapshot beside a poll) is needed in each of its parts:
  with any one of the four faults alone TLC refutes the property
  (`cancel_after_fill` is the one with partial fills).
* **RunnerOrders.** `Account` relates the history of sends to the queue's
  attempts and the spent block; `Holding` says what a paper runner holds while
  an entry is queued; `Pacing` that cooldown left plus time gone make the
  cooldown; `OncePerBar` that an entry sent on this bar is not queued for this
  bar's pump.
* **EntryGates.** `DayBudget` counts entries, the code counts closes, by a day it
  reads off whatever bar or tick came last.  `Budgeting` relates the two: entries
  of the day are closes plus what is held, and while there are any the counter
  and market time are on this day.  That needs every bar sealed on its own day
  (`"late" \notin Faults`: a bar sealed the next day counts on its own).  `Closing`
  says that a close under way is of what is held, and that there is one at a
  time (`"overlap" \notin Faults`; `sweep_beside_tick`).  `Staying` ties the
  latch to the last tick entry and the exit bar to what the bar closed; it holds
  with every fault, and so do `TicksLatch` and `ExitBarHolds`.  `NightInv` says
  that what a sweep leaves behind is on record, that at the close an intraday
  book is flat, and that a bar sealed at the close has the stamp of the last
  bucket.  `FlatNights` assumes that no minute bar is missing
  (`carried_overnight`) and that this stamp is after the square-off minute
  (`ShortBars`).  With bars of 5 or 15 minutes it is; with the 30 minutes and the
  hour the code also takes for intraday it is 15:00, and `half_hour_bars` shows
  an entry at the close that nothing squares off.
* **FleetHalts.** That a latch outlives a crash is a statement about the file:
  `FileKnowsLatches` says that a latch of memory is in the file, on its way there
  (set by a pass or a wake that has not saved, or in a payload not yet written)
  or overtaken, and that a file of an older session says nothing of this one's.
  A tick that trips and gives the lock back unsaved would break it.
  `HaltedScopesRest` follows the runners from hand to hand: those to be paused
  are on the list of the pass or the wake that latched; a kill pauses before it
  latches, so `ClosedScopeRests` says who still rests in between.  `StepsInOrder`
  is what a pass and a wake carry at each step.  `ParkedOnFile` needs the same of
  the payloads not yet written (`ParkedInDrafts`): a restart parks what it read
  and leaves none of them, and every later step that touches a parked runner
  saves.
* **RiskAnchors.** `NoLossForgotten` compares the peak with a reference that
  capital flows do not touch.  `Covers` says that the peak less the equity of
  the books is at least what the reference lost, and the file's part of `IInv`
  that the same can be rebuilt from what was saved; a restart then finds
  `Covers` again.  `RestartIsExact` needs in addition that the drawdown on file
  is that of the books on file.
* **BarFeed.** `RunningIsPolled` assumes `WatchedOnce` (no symbol has two
  watchers) and that controls sync the thread; `shared_symbol` and
  `resume_after_restart` show that both are needed.  `Owned` says that the thread
  in the handle was not told to stop, `Rest` that without one every thread left
  was, and `AllSubscribed`, `FedWhileRunning`, `NoneWhileIdle` tie both to the
  fleet.
* **BrokerSessions.** `EndedForgotten` needs `Sound`: the session of now has not
  ended, and whoever is about to write an entry, a login or the monitor, has
  looked at the choice and at the session; its save is then right or overtaken.
  `LossPaged` needs `LostIsGone`, that a loss which is still
  to be paged has no token beside it: otherwise a tick would find a session and
  close the page.  `WaitingWaked` follows the session from hand to hand: a login
  cares for every waiting book until it has notified, the wake it started until
  it has taken its list, and then for the books on it; a session that is already
  there wakes what is constructed.

Every safety property of the passing runs, state or action, is stated by a
theorem.  Only model-checked: what holds under fairness (`CallsReturn`,
`WorkingDrains`, `SettlesOut`, `ComesIn`, `CatchesUp`, `BooksWake`), since the prover has no
rule for it here.

Proved and not part of a run, because the run that would check it is spent on
what has no proof: `EntryOncePerBar`, `SameBarStaysOut`, `SpawnIsNeutral` and
`IdleFeedRests`.

## 5. Where the code refutes its own claims

Each line is a property that quotes the code or its docs, and TLC finds it
violated.  The one in bold is a run of `PROJECT.json`, the rest are run by hand:
`tlc -config <name>.cfg <module>` for those with a configuration in this
directory.  The others name the configuration to start from; put the property
in the place of its properties (an action property under `PROPERTY`, a state
predicate under `INVARIANT`).

| Run | Module | Property | Where | What |
|---|---|---|---|---|
| **`crash_in_wake`** | `FleetHalts` | `WakingOnFile` | `forward/portfolio_manager.py:1573` | on_broker_authenticated calls add_runner for a parked snapshot; its last call is _persist_state, and a save leaves out a parked snapshot whose id is among the live runners (portfolio_manager.py:3327): the file then holds the runner freshly constructed, STOPPED and without positions, until restore_runner has filled it and the save at the end is done. A process that dies in between reads that file back. The comment at forward/portfolio_manager.py:1584 keeps the parked snapshot because dropping it "would destroy the only record of this book's positions". |
| `crash_before_ticket` | `MCLiveOptions` | `AtMostOncePerDecision` | `options/live_trading.py:856` | place_order returns at l.856 and the SUBMITTED row that makes the order findable is written only at l.875: a process that dies between them replays the decision (the journal has no ticket) and places the leg again. options/live_trading.py:25 says "A leg is placed **at most once** per decision ... so a replay of the same decision (restart, re-fed bar) finds the ticket that is already at the broker". |
| `late_close_retried` | `MCLiveOptions` | `NoDoubleClose` | `options/live_trading.py:613` | The closing intent is built on a view stamped bar_timestamp=ts, and intent_key (intent_journal.py:92) prefers the view's stamp over the clock argument, so clock=structure_id is ignored and the close of the same structure at another instant is another decision: a close whose first order timed out but later fills is sent a second time. options/live_trading.py:622 says "Keyed off structure_id so crash-replay of the same close finds the already-submitted closing ticket rather than double-closing." |
| `partial_cancel` | `MCLiveOptions` | `RollbackOnZeroFills` | `options/live_trading.py:1225` | The order-book branch of _poll_terminal_state returns "rejected" for CANCELLED or EXPIRED whatever the row's filled quantity (only the push branch at l.1205 looks at it): the leg is rejected, its siblings are rolled back, and what it filled stays at the exchange, booked nowhere. options/live_trading.py:34 says "an exchange REJECTED/CANCELLED terminal status with zero fills is the only outcome that rolls back". |
| `partial_reconciled` | `MCLiveOptions` | `BooksExactFills` | `options/live_trading.py:997` | _mark_uncertain turns any fill_quantity > 0 found by reconciliation into FILLED while the rest of the order is still working, and the adapter books the leg with leg.quantity, never fill_quantity. options/live_trading.py:1528 says "Submit intent to the live venue and book exact fills." |
| `unpriced_close` | `MCLiveOptions` | `NothingHeldWhenClosed` | `options/live_trading.py:1724` | A closing leg that filled without an average price is skipped (exit_price <= 0: continue) and its position stays OPEN in the book, but the close is all_filled, so the structure is closed and nothing will exit that position any more. options/live_trading.py:1698 says the settling keeps "the local book 1:1 with real exchange exposure". |
| `closed_bar_reentered` | `MCLiveOptions` | `BookMatchesVenue` | `options/live_trading.py:842` | The idempotency guard cannot tell a replay from a second decision of the same bar: when reentry_cooldown_seconds is 0, a structure entered on a tick and closed before its bar ends may be re-entered at the bar close (neither the exit-bar guard, whose index has moved on, nor the tick-only bucket latch refuses it), the intent id is the same, order_id_for returns the first entry's ticket, that old order settles as filled and a position is booked that no order opened. options/live_trading.py:1528 says "Submit intent to the live venue and book exact fills." |
| `stale_reconcile` | `MCLiveOptions` | `UnansweredPauses` | `options/live_trading.py:1058` | _reconcile takes the first row of the order book with the same symbol, side and quantity, whatever its decision: after an unanswered placement it finds the terminal order of an earlier bar (an executed one is booked as this entry, a cancelled one rolls the siblings back), clears uncertain, and the runner goes on while the unanswered order works at the venue. options/live_trading.py:26 says "A call that ends without a usable answer ... is recorded as ``uncertain``, reconciled once against the WS push cache and broker order book, and the structure **halts**. It is never re-sent and never rolled back". |
| `rollback_naked` | `MCLiveOptions` | `NeverNakedShort` | `options/live_trading.py:1265` | _rollback flattens the filled legs in the order they filled, one MARKET order after the other, and that order is BUY wings first (l.483): of a four-leg structure (iron_condor of the wider profile) with both wings and one short leg filled and the other refused, both wings are sold before the short leg is bought back. Spreads of two legs never roll a short leg back. options/live_trading.py:577 says of the way out that mixed spreads close SHORT legs before the wings "so the account is never naked short". |
| `cancel_after_fill` | `MCLiveGateway` | `FillsReachBook` | `forward/live_gateway.py:459` | cancel_working pops the order once the venue has accepted the cancel, without a last poll: what the order had filled since the last poll_pending is asked for by nobody again. The comment at forward/live_gateway.py:409 says of the order it avoids that the fill "finds no working state, and either gets silently dropped" - which is what happens to the filled part here. |
| `average_price` | `MCLiveGateway` | `BookedAtCost` | `forward/live_gateway.py:227` | poll_fill reports the average price of all the order filled (mstock.py:1314) and poll_pending books the new delta at that average: after two partial fills at different prices the book's cost is not what was paid. forward/live_gateway.py:249 says "the fill carries the broker's ACTUAL price". |
| `reconcile_beside_submit` | `MCLiveGateway` | `CancelledIsDead` | `forward/live_gateway.py:321` | reconcile reads the order book first and the working set after it; called from the API (portfolio_manager.py:1155, no manager lock) an order submitted in between is missing from the book that was read, so it is "UNKNOWN at the broker", its row is cancelled and it leaves the working set while it works at the venue. forward/portfolio_manager.py:2814 says "marking it cancelled locally while it still rests at the broker is how a position opens after the operator was told the order was dead". |
| `save_beside_poll` | `MCLiveGateway` | `NeverOverBooked` | `forward/portfolio_manager.py:2852` | cancel_order and modify_order persist the state on the API thread without the manager's lock; a snapshot between _apply_bookkeeping (live_gateway.py:229) and the applied quantity (l.230) saves a portfolio with the fill and a working set without it, and after a restart the poll books the fill again. forward/live_gateway.py:20 says "a repeated poll can never double-count". |
| `exit_adds_short` | `MCRunnerOrders` | `ExitsDeRisk` | `forward/paper_runner.py:4294` | _emit_close sends SIDE_SELL for the size of whatever position is held. A live exit is re-sent on every bar while the first still works at the venue; when both fill, the second opens a short (live_gateway.py:292 books with validate=False), and from then on every flat signal sells more. The comment at forward/paper_runner.py:3973 says "Strategy exit — allowed even when paused (it de-risks the book)" and line 3976 "Long-only V1". |
| `flatten_skipped` | `MCRunnerOrders` | `FlattenSends` | `forward/paper_runner.py:4283` | _emit_close returns without an order when _retry_owns the exit, for every reason but the three manual ones; flatten_all passes "emergency_flatten" or "circuit_breaker_flatten", so a position with a queued or spent exit retry is left open - and counted as closed. forward/paper_runner.py:2469 says "Market-exit every open position at last known price. Returns count." |
| in `flatten_skipped.cfg` | `MCRunnerOrders` | `SendsLatestIntent` | `forward/paper_runner.py:4122` | _pump_retries never asks what the strategy last said, and a change of signal lifts only a spent block (l.3928): the entry goes out while the strategy is flat. forward/paper_runner.py:1702 says "the strategy's LATEST intent is the one worth re-sending, and a queue of stale ones would trade a view the strategy has already left". |
| `sweep_beside_tick` | `MCEntryGates` | `ClosedOnce` | `forward/paper_runner.py:3759` | StrategyRunner.eod_squareoff takes no lock, although the tick, bar and operator paths of the runner hold self._lock, and run_eod_squareoff_sweep calls it from the mtm-watchdog thread. Both threads read open_structure_id before either closes, and close_structure runs twice: two sets of closing orders live, cash and the day's close counter twice on paper. forward/options_bridge.py:1733 says "it is idempotent, because the square-off closes the structure and a closed structure cannot square off again". |
| `bar_clears_latch` | `MCEntryGates` | `OneEntryPerBucket` | `forward/options_bridge.py:744` | A bar entry sets _last_entry_bucket to None while a tick entry of the same bucket may already be spent. The docstring at options_bridge.py:644 and tests/invariants/test_trading_system_invariants.py:6 say one entry per timeframe bucket. |
| in `entry_gates.cfg` | `MCEntryGates` | `DayBudgetSurvives` | `forward/state_store.py:350` | _BRIDGE_SCALARS holds neither _closes_today nor _entry_day. The comment at options_bridge.py:686 says "entry budget is per session day". |
| `half_hour_bars` | `MCEntryGates` | `FlatOvernight` | `forward/options_bridge.py:3274` | _entry_window_block judges a bar by the stamp of its start. On 30min and 1hour runners the last bar is stamped 15:00 (warmup.py:142 floors from midnight), before the 15:10 square-off minute, and the 15:30 print seals it (warmup.py:360, :383), after the sweep window ended (timekeeping.py:289). The docstring at options_bridge.py:3269 says an intraday book "can never open a position it is about to force-flat", and INTRADAY_CARRY_TIMEFRAMES (options_bridge.py:150) makes both timeframes intraday by default. |
| `carried_overnight` | `MCEntryGates` | `FlatOvernight` | `forward/options_bridge.py:1742` | Between the end of the sweep window and the next day nothing squares off what a late bar opens. The comment at options_bridge.py:425 says an intraday book is flat overnight whatever the feed does. |
| in `fleet_halts.cfg` | `FleetHalts` | `BulkResumeAsks` | `forward/portfolio_manager.py:2937` | resume_all asks the latch of its scope only; _is_runner_risk_halted asks the bucket, the portfolio and the segment. |
| in `fleet_halts.cfg` | `FleetHalts` | `ActedOnHolds` | `forward/portfolio_manager.py:4221` | _evaluate_risk latches in memory (4087, 4149, 4189), raises the alert, pauses the runners and closes their positions at the venue, each a request of the broker, and saves only then; emergency_flatten_all saves at its end too (3047). A process that dies in between comes back without the latch. docs/plans/institutional-lifecycle-and-nov2-bugfix-plan.md:247 says "Restarting the server mid-day must **never** erase morning peak drawdown or unlock an active" circuit breaker, and :254 that the save comes "immediately whenever any fresh bucket, `segment:*`, or master halt trips". |
| in `fleet_halts.cfg` | `FleetHalts` | `SavedHolds` | `forward/portfolio_manager.py:3406` | save_state reads the payload and writes it with no lock of its own, and some callers hold none: persist_risk_config (3449), cancel_order (2852), modify_order (2912), a warm-up (1284), shutdown (4834), the wake at a login (1649). One of them that read before a latch writes after the save that recorded it, and the file is without the latch until the next save. |
| in `fleet_halts.cfg` | `FleetHalts` | `KillRests` | `forward/portfolio_manager.py:1593` | on_broker_authenticated restores a parked runner and asks the latches without the lock, while emergency_flatten_all pauses its targets (2994) before it latches (3000): a runner restored between the two and checked before the latch goes on running in a scope that was killed. |
| in `fleet_halts.cfg` | `FleetHalts` | `KillLatched` | `forward/portfolio_manager.py:3046` | emergency_flatten_all sets the latches and then calls _evaluate_risk, which begins with the daily roll and clears them if the date is new. Its docstring (portfolio_manager.py:2975) says it "set[s] manager-level halt + per-bucket halts". |
| `parked_peak` | `RiskAnchors` | `PeakOutlivesParking` | `forward/portfolio_manager.py:3720` | The peak of a slice is restored from the books that came back and, when none did, as 0, which the next save writes over the file's. src/docs/plans/institutional-lifecycle-and-nov2-bugfix-plan.md:247 says "Restarting the server mid-day must **never** erase morning peak drawdown". |
| in `risk_anchors.cfg` | `RiskAnchors` | `MorningIsClean` | `forward/portfolio_manager.py:735` | The date rolls on the wall clock, the P&L of a book on its own bars. Until the first bar the book's daily P&L is yesterday's, and the peak made of it stands for the day. portfolio_manager.py:3812 says of the roll "so prior-day ghosts never carry into a fresh morning session". |
| `shared_symbol` | `MCBarFeed` | `PolledWhileRunning` | `forward/portfolio_manager.py:1820` | remove_runner takes the removed runner's symbols out of the feed (feed.remove_symbols) whoever else watches them: with two runners on one symbol the survivor gets no bar by either path until something subscribes it again; src/docs/ARCHITECTURE-UNIFIED-TRADING.md:197 says "the last subscriber to detach stops the feed", which is what the reference count released five lines above (1813) is for. |
| `resume_after_restart` | `MCBarFeed` | `PolledWhileRunning` | `forward/portfolio_manager.py:1884` | control_runner syncs the poll thread for a source of "mstock" only; a restart whose runners all come back paused starts no thread, so a Dhan or Upstox runner resumed by itself runs without one; forward/portfolio_manager.py:3147 says the threads "must be running before the first live runner's bars are expected. 2026-09-25: extended to the Dhan thread (source=dhan) alongside the mStock thread". |
| `two_poll_threads` | `MCBarFeed` | `OnePollThread` | `forward/feed_registry.py:672` | stop() gives up its join after five seconds (the thread may be fetching, or waiting for the manager's lock its caller holds); the next start() clears the shared _stop event, which revives the old thread beside the new one; forward/feed_registry.py:620 says "ONE poll thread per manager per broker". |
| `forming_bar` | `MCBarFeed` | `ClosedBarsOnly` | `forward/feed_registry.py:739` | The poll accepts the bar latest_bar returns, the still-forming minute's (mstock_live_feed.py: "the max by timestamp is the still-forming bar"), a runner appends it, and the sealed bar of that minute from the websocket is then refused as a duplicate; forward/paper_runner.py:1624 says "_bars holds strictly immutable CLOSED timeframe candles". |
| in `broker_sessions.cfg` | `BrokerSessions` | `WakeSeesTheSession` | `brokers/session_manager.py:339` | A notification is dropped while a wake of the same broker is in flight; that wake may have looked at the book, or at the session, before the login. The monitor does not make up for it, its last status is "authenticated" already. session_manager.py:340 says "it will see the same session this one would have". |
| in `broker_sessions.cfg` | `BrokerSessions` | `NoLossIsMissed` | `brokers/session_manager.py:1026` | The tick that finds a session expired clears it with broker.logout(), so the next tick sees "unauthenticated", whatever the window did to the page. session_manager.py:1041 says "an expiry that happened outside the market window still gets reported at the next open". |
| in `broker_sessions.cfg` | `BrokerSessions` | `KillsTheRejected` | `brokers/mstock.py:1205` | A 401 of a request sent with an older token clears whatever session there is by now, in the broker and, through mark_session_expired, in the manager and on disk: neither compares the rejected token with the current one. session_manager.py:738 says "Instant kill-latch when a broker rejects an active token". |
| in `broker_sessions.cfg` | `BrokerSessions` | `NothingIsKept` | `brokers/remember_session.py:236` | save_session, delete_saved_session and set_toggle (remember_session.py:129) use the store without a lock. A login reads the choice and captures its token, and writes later; the monitor's refresh does the same within a tick (session_manager.py:952 and 963), and the lock it holds is none of theirs; a save of another broker writes back what it read. Each brings an entry back that a logout, a rejection or the toggle deleted in between. remember_session.py:18 says "the file is deleted immediately and no further saves happen". |

## 6. Not modelled, and why

* Numeric parts: pricing, Greeks, charges, margins, metrics, optimisation
  search.  A model checker says nothing about floating point.
* I/O: HTTP clients, websockets, database sessions, the JSON of snapshots.
  Their failures are the faults of the venue and of the crash actions.
* Deterministic single-threaded parts: back-test engine, replay harness,
  simulator arithmetic, Pine converter, reports.
* Within the portfolio manager: summaries and listings, the mark-to-market
  watchdog, equity snapshots, the stress test, `reset_daily_anchors`, the reaper,
  a login that finds a corrupt snapshot.  Within the feeds: quality gate, chain
  bus, synthetic feed, the aggregation of minutes (its sealing is in
  `EntryGates`), the skip outside market hours.  Within the sessions: the
  password step of a login, the two expiring-soon pages, the toasts, the
  websocket of a broker that a session opens and closes, the choice of broker in
  the UI; the other brokers are there only as those who write the same store.
* Within modelled components: wording of messages, P&L, trade logs; the exact
  poll intervals (a timeout is a choice, not a number); token-level matching of
  symbols (an order's "packet" is its leg, side and quantity).

## 7. Plan

In the order of what matters most to a trading book:

1. Composition of `EntryGates` and `LiveOptions`: the sweep beside a close that
   is under way at the venue, and stamps that repeat and so share an intent key.
2. Composition of `RunnerOrders` and `LiveGateway`: a fill that would reverse a
   position raises, ends the poll of every later order, and may be booked again.
3. Feeds: reference counts of the chain bus under threads; the health states of
   the quality gate.  `BarFeed` with `FleetHalts`: what a halt does to delivery.
4. State store: a save in several files and the database mirror, with crashes.
5. The ring of quotes around the money that providers refresh
   (`options/quote_providers.py`).
6. Broker sessions with `FleetHalts`: a wake that re-creates parked runners while
   sessions come and go; two brokers and one store.
7. Pure algorithms: the simulator's order state machine and FIFO lots against a
   reference definition.
8. Optimisation runs: status of a background run, cancel and crash.

Proofs to come: `WingsHold` without the parts of `Quiet` TLC has found no need
of (a fill without a price, a rollback order that is refused), or a longer run
that refutes it; one safety result of each composition.

