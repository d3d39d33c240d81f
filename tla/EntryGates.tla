----------------------------- MODULE EntryGates -----------------------------
(* When the options bridge lets a structure in and makes it leave: entry    *)
(* window, bucket latch, cooldowns, same-bar rule, day budget, end-of-day   *)
(* square-off.  Sources: OptionsBridge in                                   *)
(* src/backtest/forward/options_bridge.py, the runner's bar and tick paths  *)
(* in forward/paper_runner.py, the session-clock sweep in                   *)
(* forward/portfolio_manager.py, the bar aggregator in forward/warmup.py.   *)
(*                                                                          *)
(* One live runner, one underlying.  Instants are a session day and a place *)
(* in it.  Bars and ticks of a runner exclude one another by its lock; the  *)
(* sweep of the session clock does not take that lock.  What happens inside *)
(* a call of the broker is the subject of LiveOptions: here a call to open  *)
(* is one step, a call to close is two.                                     *)
EXTENDS Integers

CONSTANTS
    DayLen, Bucket,       \* length of a day and of a bar, in units of the clock
    Open, Close,          \* the session: 09:15 and 15:30
    Cut, LastEntry,       \* intraday square-off minute; ENTRY_CUTOFF_TIME
    SweepFrom,            \* EOD_SQUAREOFF_WINDOW_START
    Configs,              \* cooldown (reentry_cooldown_seconds in units of the
                          \* clock), carry policy, tick or bar cadence, entries
                          \* per day (1 + max_reentries_per_day)
    Faults,               \* what the environment may do, see below
    LastDay, Structures,  \* bounds: days, structures ever opened
    MaxRestarts           \* bound: restarts of the process

\* "gap": minute bars are missing, so a bar is sealed later than its end;
\* "late": the closing print is missing, so it is sealed on the next day;
\* "overlap": the sweep runs beside a bar, a tick or an operator's close.
ASSUME ClockAssumption ==
    /\ DayLen \in Nat \ {0} /\ Bucket \in Nat \ {0} /\ DayLen % Bucket = 0
    /\ {Open, Close, Cut, LastEntry, SweepFrom} \subseteq 0..DayLen - 1
    /\ Open < Close /\ Cut <= SweepFrom
ASSUME GateAssumption ==
    /\ Configs \subseteq [cooldown : Nat, intraday : BOOLEAN, ticks : BOOLEAN,
                          entries : Nat \ {0}]
    /\ LastDay \in Nat \ {0} /\ Structures \in Nat /\ MaxRestarts \in Nat
    /\ Faults \subseteq {"gap", "late", "overlap"}

VARIABLES
    clock,     \* wall clock
    forming,   \* stamp of the bucket the aggregator is filling
    config,    \* the runner's cooldown, carry policy and cadence
    status,    \* RUNNING or PAUSED
    armed,     \* armed_at_utc
    stage,     \* what the holder of the runner's lock is doing
    leaving,   \* close_structure calls that have not returned
    held,      \* open_structure_id, 0: None
    bar,       \* stamp of the bar being worked off
    marketDt,  \* _market_dt; _bar_dt is a fallback for it, and never set alone
    gate,      \* what the bridge remembers of its last exit and its last entry
    swept,     \* the sweep was here since the clock moved, and its close failed
    opened,    \* history: structures opened so far
    closes,    \* history: how often each structure was closed
    today,     \* history: entries of this session day
    forgotten, \* history: those of them a restart made the bridge forget
    last,      \* history: the last entry of this process
    leftNow,   \* history: a structure was closed since the last bar came in
    missed,    \* history: the held structure was paused past a sweep, or a close of
               \* it failed
    restarts

Feed   == <<clock, forming, swept>>
Runner == <<config, status, armed>>
Bridge == <<held, bar, marketDt, gate>>
Ghost  == <<opened, closes, today, forgotten, last, leftNow, missed, restarts>>
vars   == <<Feed, Runner, stage, leaving, Bridge, Ghost>>

Threads  == {"runner", "sweep"}
NoStamp  == [day |-> 0, at |-> 0]
NotGone  == [id |-> 0, reason |-> "none"]
NoEntry  == [by |-> "none", bucket |-> NoStamp, stamp |-> NoStamp]
\* onBar: _exit_bar_index = _bar_index; exitAt, exitDt, reason:
\* _last_exit_mono and _last_exit_bar_dt (kept where a cooldown reads them),
\* _last_exit_reason; bucket: _last_entry_bucket; day, closes: _entry_day,
\* _closes_today.
Fresh == [onBar |-> FALSE, exitAt |-> NoStamp, exitDt |-> NoStamp,
          reason |-> "none", bucket |-> NoStamp, day |-> 0, closes |-> 0]

-----------------------------------------------------------------------------
(* Clocks *)

\* Mutant: a bar is stamped with the end of its bucket.
BucketEnd(t)   == [t EXCEPT !.at = @ - (@ % Bucket) + Bucket]
\* bucket_start_ts: a bar carries the start of its bucket, counted from midnight.
BucketStart(t) == [t EXCEPT !.at = @ - (@ % Bucket)]
Elapsed(s, t)  == (s.day - t.day) * DayLen + s.at - t.at
Earlier(s, t)  == s.day < t.day \/ (s.day = t.day /\ s.at < t.at)

\* The bar being filled is complete: a later minute bar, or the closing print.
Sealable ==
    /\ forming # NoStamp
    /\ forming # BucketStart(clock) \/ clock.at = Close

\* in_eod_squareoff_window, for a runner that must be flat.
InSweepWindow ==
    config.intraday /\ held # 0 /\ SweepFrom <= clock.at /\ clock.at < Close
\* The sweep finds a book it has to square off; a paused one it passes by.
SweepDue == InSweepWindow /\ status = "RUNNING"

Free == stage = "free" /\ leaving = [t \in Threads |-> NotGone]

\* The runner's lock is free.
Locks == stage = "free" /\ ("overlap" \in Faults \/ leaving["sweep"] = NotGone)

-----------------------------------------------------------------------------
(* Day budget *)

\* _roll_entry_day: the counter starts again when the date is another one.
Rolled(g, day) ==
    IF g.day = day THEN g ELSE [g EXCEPT !.day = day, !.closes = 0]

Kept(t)   == IF config.cooldown > 0 THEN t ELSE NoStamp
MarketDay == IF marketDt = NoStamp THEN clock.day ELSE marketDt.day

\* Mutant: a close is not counted.
LeftUncounted(g, reason) ==
    [Rolled(g, MarketDay) EXCEPT !.exitDt = Kept(marketDt), !.onBar = TRUE,
                                 !.exitAt = Kept(clock), !.reason = reason]
\* The memory of the gates after a close (_register_close, _exit_structure).
Left(g, reason) ==
    [Rolled(g, MarketDay) EXCEPT !.closes = @ + 1, !.exitDt = Kept(marketDt),
                                 !.onBar = TRUE, !.exitAt = Kept(clock),
                                 !.reason = reason]

-----------------------------------------------------------------------------
(* Gates *)

\* Mutant: an intraday book may enter to the cutoff of the session.
WindowOpenLate(ts) == Open <= ts.at /\ ts.at <= Close /\ ts.at <= LastEntry
\* _entry_window_block, on the stamp of the bar or tick.
WindowOpen(ts) ==
    /\ Open <= ts.at /\ ts.at <= Close
    /\ ts.at <= IF config.intraday THEN Cut ELSE LastEntry

\* _blocked_reentry: no entry on the bar whose processing closed a structure.
BlockedReentry == gate.onBar

\* _bar_cooldown_active, in market time.
BarCooldownActive(ts) ==
    /\ config.cooldown > 0 /\ gate.exitDt # NoStamp
    /\ Elapsed(ts, gate.exitDt) < config.cooldown

\* _blocked_tick_reentry: the reason list, then the wall-clock cooldown.
BlockedTickReentry ==
    \/ /\ gate.reason \in {"manual", "emergency_flatten", "squareoff"}
       /\ gate.onBar
    \/ /\ config.cooldown > 0 /\ gate.exitAt # NoStamp
       /\ Elapsed(clock, gate.exitAt) < config.cooldown

\* _is_entry_bar_stale: the bar ended before the runner was armed, that day.
BarEnd(t) == IF t.at + Bucket < DayLen THEN [t EXCEPT !.at = @ + Bucket]
             ELSE [day |-> t.day + 1, at |-> t.at + Bucket - DayLen]
StaleBar ==
    LET end == BarEnd(bar)
    IN  armed # NoStamp /\ end.day = armed.day /\ end.at < armed.at

BarMayEnter ==
    /\ held = 0 /\ status = "RUNNING" /\ ~StaleBar
    /\ ~BlockedReentry /\ ~BarCooldownActive(bar) /\ WindowOpen(bar)

\* Mutant: the latch is not looked at.
TickMayEnterAgain ==
    /\ config.ticks /\ held = 0 /\ status = "RUNNING"
    /\ ~BlockedTickReentry /\ WindowOpen(clock)
TickMayEnter ==
    /\ config.ticks /\ held = 0 /\ status = "RUNNING"
    /\ ~BlockedTickReentry /\ gate.bucket # BucketStart(clock)
    /\ WindowOpen(clock)

-----------------------------------------------------------------------------
(* Entries *)

\* on_intent past the gates: the budget is looked at, then the structure is
\* opened, refused, or left in doubt, which pauses the runner (on_halt).
Refused(ts) ==
    /\ gate' = Rolled(gate, ts.day)
    /\ UNCHANGED <<held, status, swept, Ghost>>

\* _reentry_cap_reached, negated.
BudgetLeft(g) == g.closes < config.entries

\* _execute drops the exit bar; on_intent latches the bucket of a tick entry
\* and clears the latch after a bar entry.
Entered(g, latch) == [g EXCEPT !.onBar = FALSE, !.bucket = latch]

Filled(by, ts, latch) ==
    /\ BudgetLeft(Rolled(gate, ts.day))
    /\ opened < Structures
    /\ gate' = Entered(Rolled(gate, ts.day), latch)
    /\ held' = opened + 1
    /\ opened' = opened + 1
    /\ today' = today + 1
    /\ last' = [by |-> by, bucket |-> BucketStart(clock), stamp |-> BucketStart(ts)]
    /\ missed' = FALSE /\ swept' = FALSE
    /\ UNCHANGED <<status, closes, forgotten, leftNow, restarts>>

Halted(ts) ==
    /\ BudgetLeft(Rolled(gate, ts.day))
    /\ gate' = Rolled(gate, ts.day)
    /\ status' = "PAUSED"
    /\ UNCHANGED <<held, swept, Ghost>>

-----------------------------------------------------------------------------
(* Exits *)

\* _maybe_intraday_squareoff, on the instant it is given.
SquareoffDue(ts) ==
    /\ config.intraday /\ status = "RUNNING"
    /\ Cut <= ts.at /\ ts.at <= Close

\* Stop, target, risk, time, settlement and flip are all "rule" here.
Reasons(ts) == {"rule"} \cup (IF SquareoffDue(ts) THEN {"squareoff"} ELSE {})

\* The holder of the lock calls close_structure, and is then at "next".
StartExit(reason, next) ==
    /\ held # 0
    /\ leaving' = [leaving EXCEPT !["runner"] = [id |-> held, reason |-> reason]]
    /\ stage' = next

\* Mutant: a closed structure stays the open one.
GoneKept(t) ==
    /\ held' = held
    /\ gate' = Left(gate, leaving[t].reason)
    /\ closes' = [closes EXCEPT ![leaving[t].id] = @ + 1]
    /\ leftNow' = TRUE
    /\ UNCHANGED <<status, missed>>
\* close_structure returns to the bridge: closed, refused, or in doubt.
Gone(t) ==
    /\ held' = 0
    /\ gate' = Left(gate, leaving[t].reason)
    /\ closes' = [closes EXCEPT ![leaving[t].id] = @ + 1]
    /\ leftNow' = TRUE
    /\ UNCHANGED <<status, missed>>
NotClosed ==
    /\ missed' = TRUE
    /\ status' \in {status, "PAUSED"}
    /\ UNCHANGED <<held, gate, closes, leftNow>>

FinishExit(t) ==
    /\ leaving[t] # NotGone
    /\ Gone(t) \/ NotClosed
    /\ leaving' = [leaving EXCEPT ![t] = NotGone]
    /\ IF t = "sweep"
       THEN swept' = (held' # 0) /\ UNCHANGED stage
       ELSE /\ stage' = IF stage = "marking" THEN "strategy" ELSE "free"
            /\ UNCHANGED swept
    /\ UNCHANGED <<clock, forming, config, armed, bar, marketDt,
                   opened, today, forgotten, last, restarts>>

RunnerLeaves == FinishExit("runner")
SweepLeaves  == FinishExit("sweep")

\* eod_squareoff of the manager's session-clock thread, without the lock.
Sweep ==
    /\ "overlap" \in Faults \/ stage = "free"
    /\ leaving["sweep"] = NotGone /\ SweepDue
    /\ leaving' = [leaving EXCEPT !["sweep"] = [id |-> held, reason |-> "squareoff"]]
    /\ UNCHANGED <<Feed, Runner, Bridge, Ghost, stage>>

-----------------------------------------------------------------------------
(* Bars *)

\* The first minute bar of a bucket nothing was being filled for.
StartBucket ==
    /\ Locks /\ forming = NoStamp /\ clock.at < Close
    /\ forming' = BucketStart(clock)
    /\ UNCHANGED <<clock, swept, Runner, Bridge, Ghost, stage, leaving>>

\* A minute bar seals the bucket before it, the closing print the last one;
\* process_candle_event up to the mark of the book (on_bar).
SealBar ==
    /\ Locks /\ Sealable
    /\ forming' = IF clock.at = Close THEN NoStamp ELSE BucketStart(clock)
    /\ bar' = forming /\ marketDt' = forming
    /\ gate' = [gate EXCEPT !.onBar = FALSE]
    /\ leftNow' = FALSE
    /\ \/ stage' = "strategy" /\ UNCHANGED leaving
       \/ \E r \in Reasons(forming) : StartExit(r, "marking")
    /\ UNCHANGED <<clock, swept, Runner, held, opened, closes, today,
                   forgotten, last, missed, restarts>>

\* The strategy on the bar (_process_option_bar): silent or refused by a gate,
\* an entry, or an exit of what is held.
BarPasses ==
    /\ stage = "strategy" /\ stage' = "free" /\ bar' = NoStamp
    /\ UNCHANGED <<Feed, Runner, held, marketDt, gate, Ghost, leaving>>

BarEnters ==
    /\ stage = "strategy" /\ stage' = "free" /\ bar' = NoStamp
    /\ BarMayEnter
    /\ \/ Refused(bar)
       \/ Filled("bar", bar, NoStamp)
       \/ Halted(bar)
    /\ UNCHANGED <<clock, forming, config, armed, marketDt, leaving>>

BarExits ==
    /\ stage = "strategy"
    /\ StartExit("rule", "closing") /\ bar' = NoStamp
    /\ UNCHANGED <<Feed, Runner, held, marketDt, gate, Ghost>>

-----------------------------------------------------------------------------
(* Ticks, operators, the process *)

\* A tick, or a minute mark of an unsealed bar: the clock moves, a rule or
\* the square-off may fire (on_tick).
Mark ==
    /\ Locks /\ clock.at <= Close
    /\ marketDt' = clock
    /\ \/ UNCHANGED <<stage, leaving>>
       \/ \E r \in Reasons(clock) : StartExit(r, "closing")
    /\ UNCHANGED <<Feed, Runner, held, bar, gate, Ghost>>

\* on_intent with from_tick.
TickEnters ==
    /\ Locks /\ TickMayEnter
    /\ marketDt' = clock
    /\ \/ Refused(clock)
       \/ Filled("tick", clock, BucketStart(clock))
       \/ Halted(clock)
    /\ UNCHANGED <<clock, forming, config, armed, bar, stage, leaving>>

\* manual_exit and flatten_all, also of a paused runner.
OperatorExit ==
    /\ Locks
    /\ \E r \in {"manual_close", "emergency_flatten"} : StartExit(r, "closing")
    /\ UNCHANGED <<Feed, Runner, Bridge, Ghost>>

Pause ==
    /\ Locks /\ status = "RUNNING" /\ status' = "PAUSED"
    /\ UNCHANGED <<Feed, config, armed, Bridge, Ghost, stage, leaving>>
Resume ==
    /\ Locks /\ status = "PAUSED" /\ status' = "RUNNING"
    /\ armed' = clock
    /\ UNCHANGED <<Feed, config, Bridge, Ghost, stage, leaving>>

\* A restart from the snapshot: _BRIDGE_SCALARS come back, the rest is fresh;
\* a runner with a position runs on, a flat one waits for its operator.
Restart ==
    /\ Free /\ restarts < MaxRestarts /\ restarts' = restarts + 1
    /\ forming' = NoStamp /\ bar' = NoStamp /\ marketDt' = NoStamp
    /\ gate' = [Fresh EXCEPT !.onBar = gate.onBar]
    /\ status' = IF status = "RUNNING" /\ held # 0 THEN "RUNNING" ELSE "PAUSED"
    /\ armed' = IF status' = "RUNNING" THEN clock ELSE NoStamp
    /\ forgotten' = today /\ last' = NoEntry
    /\ UNCHANGED <<clock, swept, config, stage, leaving, held,
                   opened, closes, today, leftNow, missed>>

\* Time passes; with minute bars arriving, a complete bar is sealed first.
Advance ==
    /\ Free
    /\ SweepDue => swept
    /\ Sealable => "gap" \in Faults \/ (clock.at = Close /\ "late" \in Faults)
    /\ swept' = FALSE
    /\ missed' = (missed \/ (InSweepWindow /\ ~SweepDue))
    /\ \/ /\ clock.at < Close /\ clock' = [clock EXCEPT !.at = @ + 1]
          /\ UNCHANGED <<today, forgotten>>
       \/ /\ clock.at = Close /\ clock.day < LastDay
          /\ forming # NoStamp => "late" \in Faults
          /\ clock' = [day |-> clock.day + 1, at |-> Open]
          /\ today' = 0 /\ forgotten' = 0
    /\ UNCHANGED <<forming, Runner, Bridge, opened, closes, last, leftNow,
                   restarts, stage, leaving>>

-----------------------------------------------------------------------------
Init ==
    /\ clock = [day |-> 1, at |-> Open] /\ forming = NoStamp /\ swept = FALSE
    /\ config \in Configs
    /\ status = "RUNNING" /\ armed = clock
    /\ stage = "free" /\ leaving = [t \in Threads |-> NotGone]
    /\ held = 0 /\ bar = NoStamp /\ marketDt = NoStamp
    /\ gate = Fresh
    /\ opened = 0 /\ closes = [s \in 1..Structures |-> 0]
    /\ today = 0 /\ forgotten = 0 /\ last = NoEntry
    /\ leftNow = FALSE /\ missed = FALSE /\ restarts = 0

Next ==
    \/ StartBucket \/ SealBar \/ BarPasses \/ BarEnters \/ BarExits
    \/ Mark \/ TickEnters \/ OperatorExit \/ Pause \/ Resume
    \/ Sweep \/ RunnerLeaves \/ SweepLeaves
    \/ Restart \/ Advance

Spec == Init /\ [][Next]_vars

Stamp   == [day : 0..LastDay, at : 0..DayLen - 1]
Holding == 0..Structures
Leaving == [id : Holding, reason : {"none", "rule", "squareoff", "manual_close",
                                    "emergency_flatten"}]
Gate    == [onBar : BOOLEAN, exitAt : Stamp, exitDt : Stamp,
            reason : {"none", "rule", "squareoff", "manual_close",
                      "emergency_flatten"},
            bucket : Stamp, day : 0..LastDay, closes : Nat]
Entry   == [by : {"none", "bar", "tick"}, bucket : Stamp, stamp : Stamp]

\* Every variable has its type.
TypeOK ==
    /\ clock \in Stamp /\ forming \in Stamp /\ swept \in BOOLEAN
    /\ config \in Configs
    /\ status \in {"RUNNING", "PAUSED"} /\ armed \in Stamp
    /\ stage \in {"free", "marking", "strategy", "closing"}
    /\ leaving \in [Threads -> Leaving]
    /\ held \in Holding
    /\ bar \in Stamp /\ marketDt \in Stamp /\ gate \in Gate
    /\ opened \in Holding /\ closes \in [1..Structures -> Nat]
    /\ today \in Nat /\ forgotten \in Nat /\ last \in Entry
    /\ leftNow \in BOOLEAN /\ missed \in BOOLEAN /\ restarts \in Nat

-----------------------------------------------------------------------------
(* Properties *)

Enters == held = 0 /\ held' # 0

\* A process lets no more structures in on one session day than the first
\* entry and the declared re-entries (_reentry_cap_reached), whatever closed
\* the others: rules, operators, the sweep, on bars or between them.
DayBudget == today - forgotten <= config.entries

\* Two entries in a row by ticks are never in one bucket of the runner's
\* timeframe (the latch of on_intent), however fast a stop fires between them.
TicksEnterOncePerBucket ==
    [][Enters /\ last.by = "tick" /\ last'.by = "tick"
          => last'.bucket # last.bucket]_vars

\* A bar that closed a structure, by rule, sweep or flip, opens none
\* (_blocked_reentry).
SameBarStaysOut == [][Enters /\ last'.by = "bar" => ~leftNow]_vars

\* An intraday book that is not paused holds nothing over night, unless it
\* was paused when the sweep came by or a close was refused (_maybe_intraday_squareoff, run_eod_squareoff_sweep).
FlatOvernight ==
    [][clock'.day > clock.day /\ config.intraday /\ status = "RUNNING" /\ ~missed
          => held = 0]_vars

\* A structure is closed once (eod_squareoff: "it is idempotent").
ClosedOnce == \A s \in 1..Structures : closes[s] <= 1

-----------------------------------------------------------------------------
(* What comments, docs and tests say, and the code does not do *)

\* "One entry per timeframe bucket" (on_intent), also with a bar between.
OneEntryPerBucket ==
    [][Enters /\ last.by # "none" => last'.bucket # last.bucket]_vars

\* "entry budget is per session day" (on_intent), restarts included.
DayBudgetSurvives == today <= config.entries

=============================================================================
