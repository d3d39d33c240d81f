---------------------------- MODULE RunnerOrders ----------------------------
(* How an equity runner turns the strategy's view into orders: the pipeline *)
(* of a closed bar, the bounded auto-retry of refused orders, the operator's*)
(* levels and closes, pause, stop, and the circuit breaker's flatten.       *)
(* Sources: StrategyRunner in src/backtest/forward/paper_runner.py, the     *)
(* breaker and emergency stop in src/backtest/forward/portfolio_manager.py. *)
(*                                                                          *)
(* One runner, one symbol.  A bar is worked off under the runner's lock, so *)
(* nothing else happens between its stages.  Time is two countdowns: the    *)
(* cooldown of a queued retry and the re-arming of a spent budget.          *)
EXTENDS Integers

CONSTANTS
    Lot,         \* quantity of an entry
    Budgets,     \* OrderRetryPolicy.max_attempts; 0: no policy
    Cooldowns,   \* cooldown_s, in ticks of the clock
    RearmAfter,  \* rearm_after_s, in ticks of the clock
    Modes,       \* of "paper" and "live"
    Slots,       \* bound: names of live orders working at one time
    MaxPos       \* bound: size of the position, long or short

ASSUME SizesAssumption ==
    /\ Lot \in Nat \ {0} /\ MaxPos \in Nat /\ Lot <= MaxPos
    /\ Budgets \subseteq Nat /\ Cooldowns \subseteq Nat /\ RearmAfter \in Nat
    /\ Modes \subseteq {"paper", "live"}

VARIABLES
    config,   \* the runner's mode, retry budget and cooldown
    status,   \* RUNNING, PAUSED, STOPPED
    halted,   \* the breaker latch of the runner's bucket
    pos,      \* signed position in the runner's book
    levels,   \* operator's stop or target: none, set on this trade ("own"),
              \* or left over from a trade that is closed ("carried")
    working,  \* live: signed quantity of each working order, 0: free slot
    ask,      \* what the strategy last asked for
    stage,    \* where in the bar's pipeline the runner is
    window,   \* the bar is inside the session's entry window
    retry,    \* the queued retry of a refused order
    blocked,  \* the kind of order whose budget is spent
    spent,    \* history: automatic sends of a kind in the current episode
    entered,  \* history: entry orders sent on this bar
    since     \* history: time since the last entry order, up to the cooldown

Book  == <<pos, levels, working>>
Queue == <<retry, blocked>>
Ghost == <<spent, entered, since>>
vars  == <<config, status, halted, ask, stage, window, Book, Queue, Ghost>>

Kinds   == {"entry", "exit"}
NoRetry == [kind |-> "none", qty |-> 0, attempts |-> 0, wait |-> 0, same |-> FALSE]
NoBlock == [kind |-> "none", wait |-> 0]
NoSends == [k \in Kinds |-> 0]

Retryable == config.mode = "paper"
Size(q)   == IF q < 0 THEN -q ELSE q

-----------------------------------------------------------------------------
(* One order *)

\* A fill that would carry the position through zero raises.
Reverses(q) == pos * q < 0 /\ Size(q) > Size(pos)

\* The paper executor also validates an opening fill: no short position.
PaperRefuses(q) == Reverses(q) \/ (pos = 0 /\ q < 0)

LevelsAfter(p, pops) ==
    IF p # 0 \/ levels = "none" THEN levels
    ELSE IF pops THEN "none" ELSE "carried"

\* submit_market succeeds: filled on paper, placed at the venue when live.
\* "pops": the caller drops the levels of a position that is gone.
Accepted(q, pops) ==
    \/ /\ config.mode = "paper" /\ ~PaperRefuses(q)
       /\ pos' = pos + q
       /\ levels' = LevelsAfter(pos + q, pops)
       /\ UNCHANGED working
    \/ /\ config.mode = "live"
       /\ \E s \in Slots : /\ working[s] = 0
                           /\ working' = [working EXCEPT ![s] = q]
       /\ UNCHANGED <<pos, levels>>

\* The budget counts from zero again for a kind whose block is lifted.
SpentAfter(b) ==
    [k \in Kinds |-> IF blocked.kind = k /\ b.kind # k THEN 0 ELSE spent[k]]

\* Counts one beyond the budget, and no further.
Counted(b, kind) ==
    IF config.budget = 0 THEN NoSends
    ELSE [SpentAfter(b) EXCEPT ![kind] = IF @ < 2 + config.budget THEN @ + 1 ELSE @]

\* No order is sent; the block is b.
Hold(b) ==
    /\ blocked' = b
    /\ spent' = SpentAfter(b)
    /\ UNCHANGED <<Book, retry, entered, since>>

-----------------------------------------------------------------------------
(* Auto-retry *)

\* Mutant: a queued retry does not stop the strategy's own order.
OwnsSpent(b, kind) == b.kind = kind /\ b.wait > 0
\* Mutant: a spent budget is never re-armed.
OwnsForever(b, kind) == retry.kind = kind \/ b.kind = kind
\* _retry_owns: queued, or spent and not yet re-armed.
RetryOwns(b, kind) == retry.kind = kind \/ (b.kind = kind /\ b.wait > 0)

Rearmed(b, kind) ==
    IF retry.kind # kind /\ b.kind = kind /\ b.wait = 0 THEN NoBlock ELSE b

Spent(kind) == [kind |-> kind, wait |-> RearmAfter]

\* _queue_retry: the first of its conditions that holds decides.
QueueRetry(b, kind, qty, onBar) ==
    IF config.budget = 0 \/ b.kind = kind
    THEN blocked' = b /\ UNCHANGED retry
    ELSE IF retry.kind = kind
    THEN blocked' = b /\ retry' = [retry EXCEPT !.qty = qty]
    ELSE IF ~Retryable
    THEN blocked' = Spent(kind) /\ UNCHANGED retry
    ELSE /\ blocked' = b
         /\ retry' = [kind |-> kind, qty |-> qty, attempts |-> 0,
                      wait |-> config.cooldown, same |-> onBar]

\* The order of a kind is sent by the runner's own rules, block b.
SendEntry(b) ==
    /\ entered' = entered + 1 /\ since' = 0
    /\ \/ /\ Accepted(Lot, FALSE)
          /\ blocked' = b /\ spent' = NoSends /\ UNCHANGED retry
       \/ /\ QueueRetry(b, "entry", Lot, TRUE)
          /\ spent' = Counted(b, "entry") /\ UNCHANGED Book

EmitEntry(b) ==
    IF RetryOwns(b, "entry") THEN Hold(b)
    ELSE IF ~window THEN Hold(Rearmed(b, "entry"))
    ELSE SendEntry(Rearmed(b, "entry"))

\* _emit_close always sells what the position's size is.
SendClose(b, manual, onBar) ==
    /\ UNCHANGED <<entered, since>>
    /\ \/ /\ Accepted(-Size(pos), TRUE)
          /\ blocked' = b /\ spent' = NoSends /\ UNCHANGED retry
       \/ /\ QueueRetry(b, "exit", Size(pos), onBar)
          /\ spent' = IF manual THEN SpentAfter(b) ELSE Counted(b, "exit")
          /\ UNCHANGED Book

\* Only an operator's level gets past a retry that owns the exit.
EmitClose(b, manual, onBar) ==
    IF RetryOwns(b, "exit") /\ ~manual THEN Hold(b)
    ELSE SendClose(Rearmed(b, "exit"), manual, onBar)

-----------------------------------------------------------------------------
(* The bar *)

BarCloses ==
    /\ stage = "idle" /\ status # "STOPPED"
    /\ stage' = "strategy"
    /\ ask' \in {"long", "flat"} /\ window' \in BOOLEAN
    /\ retry' = [retry EXCEPT !.same = FALSE]
    /\ entered' = 0
    /\ UNCHANGED <<config, status, halted, Book, blocked, spent, since>>

\* A change of mind lifts the block of what is no longer asked for.
Lifted ==
    IF \/ ask = "flat" /\ blocked.kind = "entry"
       \/ ask = "long" /\ blocked.kind = "exit"
    THEN NoBlock ELSE blocked

\* Warming up, or no signal.
StrategySilent ==
    /\ stage = "strategy" /\ stage' = "risk"
    /\ UNCHANGED <<config, status, halted, ask, window, Book, Queue, Ghost>>

\* Nothing to do, or one of the other entry gates refuses: the code changed
\* in a trade, the bar is stale, the strategy pauses entries, no capital.
StrategyWaits ==
    /\ stage = "strategy" /\ stage' = "risk"
    /\ ask = "long" \/ pos = 0
    /\ Hold(Lifted)
    /\ UNCHANGED <<config, status, halted, ask, window>>

StrategyEnters ==
    /\ stage = "strategy" /\ stage' = "risk"
    /\ ask = "long" /\ pos = 0 /\ status = "RUNNING"
    /\ EmitEntry(Lifted)
    /\ UNCHANGED <<config, status, halted, ask, window>>

StrategyExits ==
    /\ stage = "strategy" /\ stage' = "risk"
    /\ ask = "flat" /\ pos # 0
    /\ EmitClose(Lifted, FALSE, TRUE)
    /\ UNCHANGED <<config, status, halted, ask, window>>

\* _check_instance_risk: drawdown or daily loss.
CheckInstanceRisk ==
    /\ stage = "risk" /\ stage' = "rules"
    /\ status' \in {status, "PAUSED"}
    /\ UNCHANGED <<config, halted, ask, window, Book, Queue, Ghost>>

\* _check_position_rules: hit, or not; levels of no position are dropped.
CheckPositionRules ==
    \/ (levels = "none" \/ pos # 0) /\ UNCHANGED <<Book, Queue, Ghost>>
    \/ levels # "none" /\ pos # 0 /\ EmitClose(blocked, TRUE, FALSE)
    \/ /\ levels # "none" /\ pos = 0 /\ levels' = "none"
       /\ UNCHANGED <<pos, working, Queue, Ghost>>

BarRules ==
    /\ stage = "rules" /\ stage' = "requests"
    /\ CheckPositionRules
    /\ UNCHANGED <<config, status, halted, ask, window>>

\* close_position: an operator's or a strategy's request, whole or in part,
\* sent at once and never queued.
ClosePosition ==
    \E part \in {Size(pos), Size(pos) \div 2} \ {0} :
        /\ Accepted(IF pos > 0 THEN -part ELSE part, TRUE)
        /\ spent' = NoSends
        /\ UNCHANGED <<Queue, entered, since>>

BarRequests ==
    /\ stage = "requests" /\ stage' = "pump"
    /\ ClosePosition \/ UNCHANGED <<Book, Queue, Ghost>>
    /\ UNCHANGED <<config, status, halted, ask, window>>

-----------------------------------------------------------------------------
(* _pump_retries *)

Due == retry.kind # "none" /\ ~retry.same /\ retry.wait = 0

PumpWaits == ~Due /\ UNCHANGED <<Book, Queue, Ghost>>

\* An entry that the session cannot exit any more is dropped.
PumpDrops ==
    /\ Due /\ retry.kind = "entry" /\ ~window
    /\ retry' = NoRetry
    /\ spent' = [spent EXCEPT !["entry"] = 0]
    /\ UNCHANGED <<Book, blocked, entered, since>>

Sends == Due /\ (retry.kind = "exit" \/ window)

\* Mutant: one attempt too many.
ExhaustedLate == retry.attempts > config.budget
Exhausted     == retry.attempts + 1 > config.budget

PumpGivesUp ==
    /\ Sends /\ Exhausted
    /\ retry' = NoRetry /\ blocked' = Spent(retry.kind)
    /\ UNCHANGED <<Book, Ghost>>

RetryOrder == IF retry.kind = "entry" THEN retry.qty ELSE -retry.qty

PumpSends ==
    /\ Sends /\ ~Exhausted
    /\ IF retry.kind = "entry" THEN entered' = entered + 1 /\ since' = 0
                               ELSE UNCHANGED <<entered, since>>
    /\ \/ /\ Accepted(RetryOrder, FALSE)
          /\ retry' = NoRetry /\ blocked' = NoBlock /\ spent' = NoSends
       \/ /\ retry' = IF Retryable
                      THEN [retry EXCEPT !.attempts = @ + 1, !.wait = config.cooldown, !.same = TRUE]
                      ELSE NoRetry
          /\ blocked' = IF Retryable THEN blocked ELSE Spent(retry.kind)
          /\ spent' = Counted(blocked, retry.kind)
          /\ UNCHANGED Book

PumpRetries == PumpWaits \/ PumpDrops \/ PumpGivesUp \/ PumpSends

BarPump ==
    /\ stage = "pump" /\ stage' = "idle"
    /\ PumpRetries
    /\ UNCHANGED <<config, status, halted, ask, window>>

-----------------------------------------------------------------------------
(* Between bars *)

Idle == stage = "idle" /\ UNCHANGED <<config, ask, stage, window>>

\* A tick or a stress markdown checks the levels alone.
TickRules == Idle /\ CheckPositionRules /\ UNCHANGED <<status, halted>>

SetLevel ==
    /\ Idle /\ pos # 0
    /\ levels' \in {"own", "none"}
    /\ UNCHANGED <<status, halted, pos, working, Queue, Ghost>>

OperatorCloses == Idle /\ ClosePosition /\ UNCHANGED <<status, halted>>

Pause ==
    /\ Idle /\ status = "RUNNING" /\ status' = "PAUSED"
    /\ UNCHANGED <<halted, Book, Queue, Ghost>>

\* Of one runner; resume_all alone asks for the latch.
Resume ==
    /\ Idle /\ status = "PAUSED" /\ status' = "RUNNING"
    /\ UNCHANGED <<halted, Book, Queue, Ghost>>

Stop ==
    /\ Idle /\ status # "STOPPED" /\ status' = "STOPPED"
    /\ UNCHANGED <<halted, Book, Queue, Ghost>>

Paused == IF status = "RUNNING" THEN "PAUSED" ELSE status

FlattenAll ==
    IF pos # 0 THEN EmitClose(blocked, FALSE, FALSE) ELSE UNCHANGED <<Book, Queue, Ghost>>

OperatorFlattens == Idle /\ FlattenAll /\ UNCHANGED <<status, halted>>

\* _evaluate_risk at the end of a tick: latched, pause, and in one of its two
\* modes flatten.
BreakerTrips ==
    /\ Idle /\ ~halted /\ halted' = TRUE /\ status' = Paused
    /\ FlattenAll \/ UNCHANGED <<Book, Queue, Ghost>>

EmergencyFlatten == Idle /\ halted' = TRUE /\ status' = Paused /\ FlattenAll

ResetBreaker ==
    /\ Idle /\ halted /\ halted' = FALSE
    /\ UNCHANGED <<status, Book, Queue, Ghost>>

\* poll_pending books a working order's fill; one that would reverse the
\* position raises and stays working.
VenueFills(s) ==
    /\ Idle /\ working[s] # 0 /\ ~Reverses(working[s])
    /\ Size(pos + working[s]) <= MaxPos
    /\ pos' = pos + working[s]
    /\ levels' = LevelsAfter(pos + working[s], FALSE)
    /\ working' = [working EXCEPT ![s] = 0]
    /\ UNCHANGED <<status, halted, Queue, Ghost>>

VenueDrops(s) ==
    /\ Idle /\ working[s] # 0
    /\ working' = [working EXCEPT ![s] = 0]
    /\ UNCHANGED <<status, halted, pos, levels, Queue, Ghost>>

\* Mutant: counts on below zero.
LessOne(n) == n - 1
Less(n)    == IF n = 0 THEN 0 ELSE n - 1

Tick ==
    /\ Idle
    /\ retry' = [retry EXCEPT !.wait = Less(@)]
    /\ blocked' = [blocked EXCEPT !.wait = Less(@)]
    /\ since' = IF since < config.cooldown THEN since + 1 ELSE since
    /\ UNCHANGED <<status, halted, Book, spent, entered>>

-----------------------------------------------------------------------------
Init ==
    /\ config \in [mode : Modes, budget : Budgets, cooldown : Cooldowns]
    /\ status = "RUNNING" /\ halted = FALSE
    /\ pos = 0 /\ levels = "none" /\ working = [s \in Slots |-> 0]
    /\ ask = "flat" /\ stage = "idle" /\ window = TRUE
    /\ retry = NoRetry /\ blocked = NoBlock
    /\ spent = NoSends /\ entered = 0 /\ since = config.cooldown

Bar == \/ BarCloses \/ StrategySilent \/ StrategyWaits \/ StrategyEnters
       \/ StrategyExits \/ CheckInstanceRisk \/ BarRules \/ BarRequests \/ BarPump

Operator == \/ SetLevel \/ OperatorCloses \/ OperatorFlattens
            \/ Pause \/ Resume \/ Stop \/ EmergencyFlatten \/ ResetBreaker

Venue == \E s \in Slots : VenueFills(s) \/ VenueDrops(s)

Next == Bar \/ Operator \/ BreakerTrips \/ TickRules \/ Venue \/ Tick

Spec == Init /\ [][Next]_vars

\* Bars keep closing, the clock runs, and a strategy that goes on asking and a
\* venue that goes on being asked do not refuse for ever.
Fairness ==
    /\ WF_vars(Bar) /\ SF_vars(Tick)
    /\ SF_vars(StrategyEnters /\ pos' # pos)
    /\ SF_vars(StrategyExits /\ pos' # pos)
    /\ SF_vars(BarPump /\ pos' # pos)

FairSpec == Spec /\ Fairness

-----------------------------------------------------------------------------
(* Properties *)

Retries  == [kind : Kinds, qty : 1 .. MaxPos, attempts : Nat, wait : 0 .. config.cooldown,
             same : BOOLEAN] \cup {NoRetry}
Blocks   == [kind : Kinds, wait : 0 .. RearmAfter] \cup {[kind |-> "none", wait |-> 0]}

\* Every variable has its type.
TypeOK ==
    /\ config \in [mode : Modes, budget : Budgets, cooldown : Cooldowns]
    /\ status \in {"RUNNING", "PAUSED", "STOPPED"} /\ halted \in BOOLEAN
    /\ pos \in -MaxPos .. MaxPos /\ levels \in {"none", "own", "carried"}
    /\ working \in [Slots -> -MaxPos .. MaxPos]
    /\ ask \in {"long", "flat"} /\ window \in BOOLEAN
    /\ stage \in {"idle", "strategy", "risk", "rules", "requests", "pump"}
    /\ retry \in Retries /\ blocked \in Blocks
    /\ spent \in [Kinds -> Nat] /\ entered \in Nat /\ since \in 0 .. config.cooldown

\* On paper an order goes out once and max_attempts times more, and then no
\* more until one is accepted, the strategy changes its mind or the budget is
\* re-armed (paper_runner.py:1231, docs/PORTFOLIO-CENTER.md:244).
SendBudget ==
    config.mode = "paper" /\ config.budget > 0
        => \A k \in Kinds : spent[k] <= 1 + config.budget

\* The strategy and the pump never both send an entry on one bar, whatever
\* the cooldown (paper_runner.py:4107).
EntryOncePerBar == entered <= 1

\* A paper runner never holds more than one entry's quantity, and waits to
\* retry an entry only while it holds nothing: a retry and a fresh signal
\* never both open (paper_runner.py:4022).
OneIntentOnePosition ==
    config.mode = "paper" => pos \in 0 .. Lot /\ (retry.kind = "entry" => pos = 0)

\* The pump re-sends an entry no sooner than the cooldown after the last time
\* it went out (paper_runner.py:1232).
RetriesPaced == [][stage = "pump" /\ entered' > entered => since >= config.cooldown]_vars

\* A runner whose strategy stays flat ends up flat for good: no spent budget,
\* stale quantity or forgotten retry strands the position
\* (paper_runner.py:1240).
SettlesOut ==
    config.mode = "paper" /\ <>[](ask = "flat" /\ status # "STOPPED") => <>[](pos = 0)

\* A runner whose strategy keeps asking, inside the session, is let in.
ComesIn ==
    config.mode = "paper" /\ <>[](ask = "long" /\ status = "RUNNING" /\ window)
        => []<>(pos > 0)

-----------------------------------------------------------------------------
(* Claims of the code and its docs that the model refutes *)

\* "Strategy exit - allowed even when paused (it de-risks the book)"
\* (paper_runner.py:3973): an order the strategy's exit places works against
\* the position.
ExitsDeRisk ==
    [][\A s \in Slots : stage = "strategy" /\ ask = "flat" /\ working[s] = 0
                          => working'[s] * pos <= 0]_vars

\* flatten_all: "Market-exit every open position" (paper_runner.py:2469).
FlattenSends ==
    [][EmergencyFlatten /\ pos # 0 => pos' # pos \/ Queue' # Queue \/ spent' # spent]_vars

\* "the strategy's LATEST intent is the one worth re-sending"
\* (paper_runner.py:1702): an entry is sent only while it is asked for.
SendsLatestIntent == [][entered' > entered => ask = "long"]_vars

=============================================================================
