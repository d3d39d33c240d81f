-------------------------- MODULE EntryGatesProofs --------------------------
(* Proofs about EntryGates: its types, the day budget, one close of each    *)
(* structure, one tick entry per bucket, the same-bar rule and flat nights, *)
(* for every calendar of the session, every configuration and any number of *)
(* days.                                                                    *)
EXTENDS EntryGates, TLAPS

-----------------------------------------------------------------------------
(* Stamps and the bridge's memory *)

LEMMA StampFacts ==
    /\ NoStamp \in Stamp /\ NoEntry \in Entry /\ NotGone \in Leaving /\ Fresh \in Gate
    /\ [day |-> 1, at |-> Open] \in Stamp
BY ClockAssumption, GateAssumption
   DEF Stamp, NoStamp, Entry, NoEntry, Leaving, NotGone, Fresh, Gate, Holding

LEMMA StampFields ==
    ASSUME NEW t \in Stamp
    PROVE  t.day \in 0..LastDay /\ t.at \in 0..DayLen - 1
BY DEF Stamp

\* The start of a bucket is an instant of the same day.
LEMMA BucketFacts ==
    ASSUME NEW t \in Stamp
    PROVE  BucketStart(t) \in Stamp
<1>1. t.at - (t.at % Bucket) \in 0..DayLen - 1
  BY ClockAssumption DEF Stamp
<1>2. QED
  BY <1>1 DEF BucketStart, Stamp

\* Looking at the budget changes the day and the count, and on the same day
\* nothing.
LEMMA RolledFacts ==
    ASSUME NEW g \in Gate, NEW d \in 0..LastDay
    PROVE  /\ Rolled(g, d) \in Gate
           /\ Rolled(g, d).day = d
           /\ Rolled(g, d).bucket = g.bucket /\ Rolled(g, d).onBar = g.onBar
           /\ g.day = d => Rolled(g, d) = g
BY DEF Rolled, Gate

\* What a gate remembers of an entry.
LEMMA EnteredFacts ==
    ASSUME NEW g \in Gate, NEW t \in Stamp
    PROVE  /\ Entered(g, t) \in Gate /\ Entered(g, t).bucket = t
           /\ Entered(g, t).day = g.day /\ Entered(g, t).closes = g.closes
BY DEF Entered, Gate

LEMMA KeptFacts == ASSUME NEW t \in Stamp PROVE Kept(t) \in Stamp
BY StampFacts DEF Kept

LEMMA MarketDayFacts ==
    ASSUME clock \in Stamp, marketDt \in Stamp
    PROVE  MarketDay \in 0..LastDay
BY StampFields DEF MarketDay

Reason == {"none", "rule", "squareoff", "manual_close", "emergency_flatten"}

\* What a gate remembers of a close, when market time is given.
LEMMA LeftFacts ==
    ASSUME gate \in Gate, clock \in Stamp, marketDt \in Stamp, NEW r \in Reason
    PROVE  /\ Left(gate, r) \in Gate /\ Left(gate, r).onBar = TRUE
           /\ Left(gate, r).bucket = gate.bucket
           /\ gate.day = MarketDay => /\ Left(gate, r).day = gate.day
                                      /\ Left(gate, r).closes = gate.closes + 1
<1> DEFINE g == Rolled(gate, MarketDay)
           e == Left(gate, r)
<1>1. /\ g \in Gate /\ g.bucket = gate.bucket /\ (gate.day = MarketDay => g = gate)
  BY MarketDayFacts, RolledFacts
<1>2. e = [g EXCEPT !.closes = @ + 1, !.exitDt = Kept(marketDt),
                    !.onBar = TRUE, !.exitAt = Kept(clock), !.reason = r]
  BY DEF Left
<1>3. Kept(marketDt) \in Stamp /\ Kept(clock) \in Stamp
  BY KeptFacts
<1> DEFINE c == g.closes + 1
           a == Kept(marketDt)
           b == Kept(clock)
<1> HIDE DEF g, e
<1>4. c \in Nat /\ g.bucket \in Stamp /\ g.day \in 0..LastDay
  BY <1>1 DEF Gate
<1>5. e = [onBar |-> TRUE, exitAt |-> b, exitDt |-> a, reason |-> r,
           bucket |-> g.bucket, day |-> g.day, closes |-> c]
  BY <1>1, <1>2 DEF Gate
<1> HIDE DEF a, b, c
<1>6. a \in Stamp /\ b \in Stamp
  BY <1>3 DEF a, b
<1>7. e \in Gate
  BY <1>4, <1>5, <1>6 DEF Gate, Reason
<1>8. e.onBar = TRUE /\ e.bucket = gate.bucket /\ e.day = g.day /\ e.closes = c
  BY <1>1, <1>5
<1>9. gate.day = MarketDay => e.day = gate.day /\ e.closes = gate.closes + 1
  BY <1>1, <1>8 DEF c
<1>10. QED
  BY <1>7, <1>8, <1>9 DEF e

-----------------------------------------------------------------------------
(* Types *)

LEMMA TypesInitially == Init => TypeOK
<1> SUFFICES ASSUME Init PROVE TypeOK
  OBVIOUS
<1>1. clock \in Stamp /\ armed \in Stamp
  BY StampFacts DEF Init
<1>2. leaving \in [Threads -> Leaving]
  BY StampFacts DEF Init
<1>3. held \in Holding /\ opened \in Holding /\ closes \in [1..Structures -> Nat]
  BY GateAssumption DEF Init, Holding
<1>4. /\ swept \in BOOLEAN /\ leftNow \in BOOLEAN /\ missed \in BOOLEAN
  BY Zenon DEF Init
<1>5. /\ forming \in Stamp /\ bar \in Stamp /\ marketDt \in Stamp
      /\ gate \in Gate /\ last \in Entry
  BY StampFacts, Zenon DEF Init
<1>6. /\ today \in Nat /\ forgotten \in Nat /\ restarts \in Nat
      /\ config \in Configs /\ status \in {"RUNNING", "PAUSED"}
      /\ stage \in {"free", "marking", "strategy", "closing"}
  BY DEF Init
<1>7. QED
  BY <1>1, <1>2, <1>3, <1>4, <1>5, <1>6 DEF TypeOK

\* A call to close names what is held.
LEMMA StartKeepsTypes ==
    ASSUME TypeOK, NEW r \in Reason, NEW next, StartExit(r, next)
    PROVE  leaving' \in [Threads -> Leaving] /\ stage' = next
BY DEF TypeOK, StartExit, Leaving, Reason, Holding

LEMMA FinishKeepsTypes ==
    ASSUME TypeOK, NEW t \in Threads, FinishExit(t)
    PROVE  TypeOK'
<1>1. leaving[t] \in Leaving
  BY DEF TypeOK
<1>2. leaving[t].reason \in Reason /\ leaving[t].id \in Holding
  BY <1>1 DEF Leaving, Reason
<1>3. held' \in Holding /\ gate' \in Gate
  <2>1. CASE Gone(t)
    <3>1. Left(gate, leaving[t].reason) \in Gate
      BY <1>2, LeftFacts DEF TypeOK
    <3>2. 0 \in Holding
      BY GateAssumption DEF Holding
    <3>3. QED
      BY <2>1, <3>1, <3>2 DEF Gone
  <2>2. CASE NotClosed
    BY <2>2 DEF TypeOK, NotClosed
  <2>3. QED
    BY <2>1, <2>2 DEF FinishExit
<1>4. closes' \in [1..Structures -> Nat]
  BY DEF TypeOK, FinishExit, Gone, NotClosed
<1>5. leaving' \in [Threads -> Leaving]
  BY StampFacts DEF TypeOK, FinishExit
<1>6. leftNow' \in BOOLEAN /\ missed' \in BOOLEAN
  BY Zenon DEF TypeOK, FinishExit, Gone, NotClosed
<1>7. status' \in {"RUNNING", "PAUSED"}
  BY DEF TypeOK, FinishExit, Gone, NotClosed
<1>8. stage' \in {"free", "marking", "strategy", "closing"}
  BY DEF TypeOK, FinishExit
<1>9. swept' \in BOOLEAN
  BY Zenon DEF TypeOK, FinishExit
<1>10. QED
  BY <1>3, <1>4, <1>5, <1>6, <1>7, <1>8, <1>9 DEF FinishExit, TypeOK

\* A decision to enter on the instant ts keeps the types.
LEMMA DecisionKeepsTypes ==
    ASSUME TypeOK, NEW ts \in Stamp, NEW latch \in Stamp, NEW by \in {"bar", "tick"},
           Refused(ts) \/ Filled(by, ts, latch) \/ Halted(ts)
    PROVE  /\ held' \in Holding /\ gate' \in Gate /\ opened' \in Holding
           /\ status' \in {"RUNNING", "PAUSED"} /\ swept' \in BOOLEAN
           /\ closes' \in [1..Structures -> Nat] /\ today' \in Nat /\ forgotten' \in Nat
           /\ last' \in Entry /\ leftNow' \in BOOLEAN /\ missed' \in BOOLEAN
           /\ restarts' \in Nat
<1> DEFINE g == Rolled(gate, ts.day)
<1>1. g \in Gate
  BY StampFields, RolledFacts DEF TypeOK
<1>2. Entered(g, latch) \in Gate
  BY <1>1, EnteredFacts
<1>3. BucketStart(clock) \in Stamp /\ BucketStart(ts) \in Stamp
  BY BucketFacts DEF TypeOK
<1> HIDE DEF g
<1>4. CASE Refused(ts) \/ Halted(ts)
  <2>1. gate' = g /\ UNCHANGED <<held, swept, Ghost>> /\ status' \in {status, "PAUSED"}
    BY <1>4 DEF Refused, Halted, g
  <2>2. QED
    BY <1>1, <2>1 DEF Ghost, TypeOK
<1>5. CASE Filled(by, ts, latch)
  <2>1. gate' = Entered(g, latch)
    BY <1>5 DEF Filled, g
  <2>2. opened + 1 \in Holding
    BY <1>5, GateAssumption DEF Filled, TypeOK, Holding
  <2>3. last' \in Entry
    BY <1>3, <1>5 DEF Filled, Entry
  <2>4. /\ held' = opened + 1 /\ opened' = opened + 1 /\ today' = today + 1
        /\ missed' = FALSE /\ swept' = FALSE
        /\ UNCHANGED <<status, closes, forgotten, leftNow, restarts>>
    BY <1>5 DEF Filled
  <2>5. missed' \in BOOLEAN /\ swept' \in BOOLEAN
    BY <2>4, Zenon
  <2>6. QED
    BY <1>2, <2>1, <2>2, <2>3, <2>4, <2>5 DEF TypeOK
<1>6. QED
  BY <1>4, <1>5

LEMMA StepKeepsTypes == TypeOK /\ [Next]_vars => TypeOK'
<1> SUFFICES ASSUME TypeOK, [Next]_vars PROVE TypeOK'
  OBVIOUS
<1>1. CASE StartBucket
  BY <1>1, BucketFacts DEF StartBucket, Runner, Bridge, Ghost, TypeOK
<1>2. CASE SealBar
  <2>1. forming' \in Stamp
    BY <1>2, BucketFacts, StampFacts DEF SealBar, TypeOK
  <2>2. gate' \in Gate
    BY <1>2 DEF SealBar, TypeOK, Gate
  <2>3. Reasons(forming) \subseteq Reason
    BY DEF Reasons, Reason
  <2>4. leaving' \in [Threads -> Leaving] /\ stage' \in {"marking", "strategy"}
    BY <1>2, <2>3, StartKeepsTypes DEF SealBar, TypeOK
  <2>5. leftNow' \in BOOLEAN
    BY <1>2, Zenon DEF SealBar
  <2>6. QED
    BY <1>2, <2>1, <2>2, <2>4, <2>5 DEF SealBar, Runner, TypeOK
<1>3. CASE BarPasses
  BY <1>3, StampFacts DEF BarPasses, Feed, Runner, Ghost, TypeOK
<1>4. CASE BarEnters
  <2>1. \/ Refused(bar) \/ Filled("bar", bar, NoStamp) \/ Halted(bar)
    BY <1>4 DEF BarEnters
  <2>2. bar \in Stamp
    BY DEF TypeOK
  <2>3. QED
    BY <1>4, <2>1, <2>2, StampFacts, DecisionKeepsTypes DEF BarEnters, TypeOK
<1>5. CASE BarExits
  <2>1. leaving' \in [Threads -> Leaving] /\ stage' = "closing"
    BY <1>5, StartKeepsTypes DEF BarExits, Reason
  <2>2. QED
    BY <1>5, <2>1, StampFacts DEF BarExits, Feed, Runner, Ghost, TypeOK
<1>6. CASE Mark
  <2>1. Reasons(clock) \subseteq Reason
    BY DEF Reasons, Reason
  <2>2. /\ leaving' \in [Threads -> Leaving]
        /\ stage' \in {"free", "marking", "strategy", "closing"}
    BY <1>6, <2>1, StartKeepsTypes DEF Mark, TypeOK
  <2>3. QED
    BY <1>6, <2>2 DEF Mark, Feed, Runner, Ghost, TypeOK
<1>7. CASE TickEnters
  <2>1. \/ Refused(clock) \/ Filled("tick", clock, BucketStart(clock)) \/ Halted(clock)
    BY <1>7 DEF TickEnters
  <2>2. clock \in Stamp /\ BucketStart(clock) \in Stamp
    BY BucketFacts DEF TypeOK
  <2>3. QED
    BY <1>7, <2>1, <2>2, DecisionKeepsTypes DEF TickEnters, TypeOK
<1>8. CASE OperatorExit
  <2>1. leaving' \in [Threads -> Leaving] /\ stage' = "closing"
    BY <1>8, StartKeepsTypes DEF OperatorExit, Reason
  <2>2. QED
    BY <1>8, <2>1 DEF OperatorExit, Feed, Runner, Bridge, Ghost, TypeOK
<1>9. CASE Pause \/ Resume
  BY <1>9 DEF Pause, Resume, Feed, Bridge, Ghost, TypeOK
<1>10. CASE Sweep
  <2>1. leaving' \in [Threads -> Leaving]
    BY <1>10 DEF Sweep, TypeOK, Leaving, Holding
  <2>2. QED
    BY <1>10, <2>1 DEF Sweep, Feed, Runner, Bridge, Ghost, TypeOK
<1>11. CASE RunnerLeaves \/ SweepLeaves
  BY <1>11, FinishKeepsTypes DEF RunnerLeaves, SweepLeaves, Threads
<1>12. CASE Restart
  <2>1. gate' \in Gate
    BY <1>12, StampFacts DEF Restart, TypeOK, Gate
  <2>2. armed' \in Stamp /\ status' \in {"RUNNING", "PAUSED"}
    BY <1>12, StampFacts DEF Restart, TypeOK
  <2>3. QED
    BY <1>12, <2>1, <2>2, StampFacts DEF Restart, TypeOK
<1>13. CASE Advance
  <2>1. clock' \in Stamp
    <3>1. clock.day \in 0..LastDay /\ clock.at \in 0..DayLen - 1 /\ clock \in Stamp
      BY StampFields DEF TypeOK
    <3>2. Close \in 0..DayLen - 1 /\ Open \in 0..DayLen - 1 /\ DayLen \in Nat /\ LastDay \in Nat
      BY ClockAssumption, GateAssumption
    <3>3. CASE clock.at < Close /\ clock' = [clock EXCEPT !.at = @ + 1]
      <4>1. clock.at + 1 \in 0..DayLen - 1
        BY <3>1, <3>2, <3>3
      <4>2. QED
        BY <3>1, <3>3, <4>1 DEF Stamp
    <3>4. CASE clock.day < LastDay /\ clock' = [day |-> clock.day + 1, at |-> Open]
      <4>1. clock.day + 1 \in 0..LastDay
        BY <3>1, <3>2, <3>4
      <4>2. QED
        BY <3>2, <3>4, <4>1 DEF Stamp
    <3>5. QED
      BY <1>13, <3>3, <3>4 DEF Advance
  <2>2. swept' \in BOOLEAN /\ missed' \in BOOLEAN
    BY <1>13, Zenon DEF Advance
  <2>3. today' \in Nat /\ forgotten' \in Nat
    BY <1>13 DEF Advance, TypeOK
  <2>4. QED
    BY <1>13, <2>1, <2>2, <2>3 DEF Advance, Runner, Bridge, TypeOK
<1>14. CASE UNCHANGED vars
  BY <1>14 DEF vars, Feed, Runner, Bridge, Ghost, TypeOK
<1>15. QED
  BY <1>1, <1>2, <1>3, <1>4, <1>5, <1>6, <1>7, <1>8, <1>9, <1>10, <1>11, <1>12, <1>13,
     <1>14 DEF Next

\* Every variable has its type in every reachable state.
THEOREM TypesHold == Spec => []TypeOK
BY TypesInitially, StepKeepsTypes, PTL DEF Spec

-----------------------------------------------------------------------------
(* The day budget *)

\* A bar is sealed on the day it belongs to; and while entries of this session
\* day are remembered, market time and the counter are on this day, and every
\* such entry but the one held is counted as a close.
Counted == today - forgotten <= gate.closes + IF held # 0 THEN 1 ELSE 0
Budgeting ==
    /\ clock.day # 0
    /\ forming # NoStamp => forming.day = clock.day
    /\ stage \in {"marking", "strategy"} =>
          bar.day = clock.day /\ marketDt.day = clock.day
    /\ forgotten <= today
    /\ today > forgotten => /\ marketDt.day = clock.day /\ gate.day = clock.day
                            /\ Counted /\ today - forgotten <= config.entries

LEMMA ConfigFacts ==
    ASSUME config \in Configs
    PROVE  config.entries \in Nat \ {0}
BY GateAssumption

LEMMA BudgetInitially == Init => Budgeting
BY DEF Init, Budgeting

\* A decision on an instant of this day.
LEMMA DecisionKeepsBudget ==
    ASSUME TypeOK, Budgeting, held = 0, NEW ts \in Stamp, ts.day = clock.day,
           NEW latch \in Stamp, NEW by, Refused(ts) \/ Filled(by, ts, latch) \/ Halted(ts)
    PROVE  /\ forgotten' <= today'
           /\ today' > forgotten' =>
                 /\ gate'.day = clock.day /\ Counted' /\ today' - forgotten' <= config.entries
                 /\ today > forgotten \/ held' # 0
<1> DEFINE g == Rolled(gate, ts.day)
<1>1. g \in Gate /\ g.day = clock.day /\ (gate.day = clock.day => g = gate)
  BY StampFields, RolledFacts DEF TypeOK
<1>2. /\ today \in Nat /\ forgotten \in Nat /\ opened \in Nat /\ config.entries \in Nat \ {0}
      /\ g.closes \in Nat
  BY <1>1, ConfigFacts, GateAssumption DEF TypeOK, Gate, Holding
<1> HIDE DEF g
<1>3. CASE Refused(ts) \/ Halted(ts)
  <2>1. gate' = g /\ held' = held /\ today' = today /\ forgotten' = forgotten
    BY <1>3 DEF Refused, Halted, Ghost, g
  <2>2. QED
    BY <1>1, <1>2, <2>1 DEF Budgeting, Counted
<1>4. CASE Filled(by, ts, latch)
  <2>1. /\ gate' = Entered(g, latch) /\ g.closes < config.entries
        /\ held' = opened + 1 /\ today' = today + 1 /\ forgotten' = forgotten
    BY <1>4 DEF Filled, BudgetLeft, g
  <2>2. gate'.day = clock.day /\ gate'.closes = g.closes
    BY <1>1, <2>1, EnteredFacts
  <2>3. today - forgotten <= g.closes
    <3>1. CASE today = forgotten
      BY <1>2, <3>1
    <3>2. CASE today > forgotten
      <4>1. g = gate /\ Counted
        BY <1>1, <3>2 DEF Budgeting
      <4>2. QED
        BY <1>2, <4>1 DEF Counted
    <3>3. QED
      BY <1>2, <3>1, <3>2 DEF Budgeting
  <2>4. QED
    BY <1>2, <2>1, <2>2, <2>3 DEF Budgeting, Counted
<1>5. QED
  BY <1>3, <1>4

\* A close that returns.
LEMMA FinishKeepsBudget ==
    ASSUME TypeOK, Budgeting, NEW t \in Threads, FinishExit(t)
    PROVE  Budgeting'
<1>1. UNCHANGED <<clock, forming, config, bar, marketDt, today, forgotten>>
  BY DEF FinishExit
<1>2. stage' \in {"marking", "strategy"} => stage \in {"marking", "strategy"}
  BY DEF FinishExit
<1>3. CASE NotClosed
  BY <1>1, <1>2, <1>3 DEF NotClosed, Budgeting, Counted
<1>4. CASE Gone(t)
  <2> DEFINE left == Left(gate, leaving[t].reason)
  <2>1. gate' = left /\ held' = 0
    BY <1>4 DEF Gone
  <2>2. leaving[t].reason \in Reason
    BY DEF TypeOK, Leaving, Reason
  <2>3. gate.day = MarketDay => left.day = gate.day /\ left.closes = gate.closes + 1
    BY <2>2, LeftFacts DEF TypeOK
  <2> HIDE DEF left
  <2>4. /\ today \in Nat /\ forgotten \in Nat /\ gate.closes \in Nat
        /\ config.entries \in Nat
    BY ConfigFacts DEF TypeOK, Gate
  <2>5. ASSUME today > forgotten
        PROVE  left.day = clock.day /\ left.closes \in Nat /\ today - forgotten <= left.closes
    <3>1. marketDt.day = clock.day /\ gate.day = clock.day /\ Counted /\ clock.day # 0
      BY <2>5 DEF Budgeting
    <3>2. MarketDay = clock.day
      BY <3>1 DEF MarketDay
    <3>3. QED
      BY <2>3, <2>4, <3>1, <3>2 DEF Counted
  <2>6. ASSUME today' > forgotten'
        PROVE  /\ marketDt'.day = clock'.day /\ gate'.day = clock'.day
               /\ Counted' /\ today' - forgotten' <= config'.entries
    <3>1. today > forgotten
      BY <1>1, <2>6
    <3>2. marketDt.day = clock.day /\ today - forgotten <= config.entries
      BY <3>1 DEF Budgeting
    <3>3. Counted'
      BY <1>1, <2>1, <2>4, <2>5, <3>1 DEF Counted
    <3>4. QED
      BY <1>1, <2>1, <2>5, <3>1, <3>2, <3>3
  <2>7. QED
    BY <1>1, <1>2, <2>6 DEF Budgeting
<1>5. QED
  BY <1>3, <1>4 DEF FinishExit

LEMMA StepKeepsBudget ==
    ASSUME "late" \notin Faults, TypeOK, Budgeting, [Next]_vars
    PROVE  Budgeting'
<1>1. /\ today \in Nat /\ forgotten \in Nat /\ gate.closes \in Nat
      /\ config.entries \in Nat /\ gate \in Gate
  BY ConfigFacts DEF TypeOK, Gate
<1>2. CASE StartBucket
  BY <1>2 DEF StartBucket, Runner, Bridge, Ghost, Budgeting, Counted, BucketStart
<1>3. CASE SealBar
  <2>1. forming.day = clock.day
    BY <1>3 DEF SealBar, Sealable, Budgeting
  <2>2. forming' # NoStamp => forming'.day = clock.day
    BY <1>3 DEF SealBar, BucketStart, TypeOK, Stamp
  <2>3. gate'.day = gate.day /\ gate'.closes = gate.closes
    BY <1>1, <1>3 DEF SealBar, Gate
  <2>4. /\ UNCHANGED <<clock, config, held, today, forgotten>>
        /\ bar' = forming /\ marketDt' = forming
    BY <1>3 DEF SealBar, Runner
  <2>5. QED
    BY <2>1, <2>2, <2>3, <2>4 DEF Budgeting, Counted
<1>4. CASE BarPasses
  BY <1>4 DEF BarPasses, Feed, Runner, Ghost, Budgeting, Counted
<1>5. CASE BarEnters
  <2>1. \/ Refused(bar) \/ Filled("bar", bar, NoStamp) \/ Halted(bar)
    BY <1>5 DEF BarEnters
  <2>2. /\ bar \in Stamp /\ bar.day = clock.day /\ marketDt.day = clock.day
        /\ held = 0 /\ stage' = "free"
        /\ UNCHANGED <<clock, forming, config, marketDt>>
    BY <1>5 DEF BarEnters, BarMayEnter, TypeOK, Budgeting
  <2>3. QED
    BY <2>1, <2>2, StampFacts, DecisionKeepsBudget DEF Budgeting
<1>6. CASE BarExits
  BY <1>6 DEF BarExits, StartExit, Feed, Runner, Ghost, Budgeting, Counted
<1>7. CASE Mark
  BY <1>7 DEF Mark, Locks, StartExit, Feed, Runner, Ghost, Budgeting, Counted
<1>8. CASE TickEnters
  <2>1. \/ Refused(clock) \/ Filled("tick", clock, BucketStart(clock)) \/ Halted(clock)
    BY <1>8 DEF TickEnters
  <2>2. /\ clock \in Stamp /\ BucketStart(clock) \in Stamp
        /\ held = 0 /\ stage' = "free" /\ marketDt' = clock
        /\ UNCHANGED <<clock, forming, config>>
    BY <1>8, BucketFacts DEF TickEnters, TickMayEnter, Locks, TypeOK
  <2>3. QED
    BY <2>1, <2>2, DecisionKeepsBudget DEF Budgeting
<1>9. CASE OperatorExit
  BY <1>9 DEF OperatorExit, StartExit, Feed, Runner, Bridge, Ghost, Budgeting, Counted
<1>10. CASE Pause \/ Resume
  BY <1>10 DEF Pause, Resume, Feed, Bridge, Ghost, Budgeting, Counted
<1>11. CASE Sweep
  BY <1>11 DEF Sweep, Feed, Runner, Bridge, Ghost, Budgeting, Counted
<1>12. CASE RunnerLeaves \/ SweepLeaves
  BY <1>12, FinishKeepsBudget DEF RunnerLeaves, SweepLeaves, Threads
<1>13. CASE Restart
  <2>1. today' = forgotten' /\ forming' = NoStamp /\ stage' = "free" /\ clock' = clock
    BY <1>13 DEF Restart, Free
  <2>2. QED
    BY <1>1, <1>13, <2>1 DEF Budgeting, Restart
<1>14. CASE Advance
  <2>1. CASE clock.at < Close /\ clock' = [clock EXCEPT !.at = @ + 1] /\ UNCHANGED <<today, forgotten>>
    <3>1. clock'.day = clock.day
      BY <2>1 DEF TypeOK, Stamp
    <3>2. QED
      BY <1>14, <2>1, <3>1 DEF Advance, Runner, Bridge, Budgeting, Counted
  <2>2. CASE /\ clock.at = Close /\ forming = NoStamp
             /\ clock' = [day |-> clock.day + 1, at |-> Open]
             /\ today' = 0 /\ forgotten' = 0
    <3>1. clock'.day # 0 /\ stage' = "free" /\ forming' = NoStamp
      BY <1>14, <2>2 DEF Advance, Free, TypeOK, Stamp
    <3>2. QED
      BY <2>2, <3>1 DEF Budgeting
  <2>3. QED
    BY <1>14, <2>1, <2>2 DEF Advance
<1>15. CASE UNCHANGED vars
  BY <1>15 DEF vars, Feed, Runner, Bridge, Ghost, Budgeting, Counted
<1>16. QED
  BY <1>2, <1>3, <1>4, <1>5, <1>6, <1>7, <1>8, <1>9, <1>10, <1>11, <1>12, <1>13, <1>14,
     <1>15 DEF Next

\* With every bar sealed on its own day no process lets more structures in on
\* a session day than the budget (_reentry_cap_reached), whatever closed them.
THEOREM BudgetHolds == ASSUME "late" \notin Faults PROVE Spec => []DayBudget
<1>1. TypeOK /\ Budgeting /\ [Next]_vars => Budgeting'
  BY StepKeepsBudget
<1>2. TypeOK /\ Budgeting => DayBudget
  <2> SUFFICES ASSUME TypeOK, Budgeting PROVE DayBudget
    OBVIOUS
  <2>1. today \in Nat /\ forgotten \in Nat /\ config.entries \in Nat
    BY ConfigFacts DEF TypeOK
  <2>2. QED
    BY <2>1 DEF Budgeting, DayBudget
<1>3. QED
  BY <1>1, <1>2, BudgetInitially, TypesInitially, StepKeepsTypes, PTL DEF Spec

-----------------------------------------------------------------------------
(* One close of each structure *)

\* A close under way is of the structure held, there is one at a time, and
\* what is held, or not opened yet, has not been closed.
Closing ==
    /\ held <= opened
    /\ \A s \in 1..Structures :
          closes[s] <= 1 /\ (s > opened \/ s = held => closes[s] = 0)
    /\ \A t \in Threads : leaving[t] # NotGone => leaving[t].id = held /\ held # 0
    /\ leaving["sweep"] # NotGone => stage = "free"
    /\ leaving["runner"] # NotGone <=> stage \in {"marking", "closing"}

LEMMA ClosingInitially == Init => Closing
BY DEF Init, Closing, Threads

\* A call to close is one of a structure that is held.
LEMMA StartKeepsClosing ==
    ASSUME TypeOK, Closing, NEW r, NEW next \in {"marking", "closing"}, StartExit(r, next),
           UNCHANGED <<held, opened, closes>>, leaving["sweep"] = NotGone
    PROVE  Closing'
<1>1. [id |-> held, reason |-> r] # NotGone /\ stage' = next /\ held # 0
  BY DEF StartExit, NotGone
<1>2. /\ leaving'["runner"] = [id |-> held, reason |-> r]
      /\ leaving'["sweep"] = NotGone
  BY DEF StartExit, TypeOK, Threads
<1>3. QED
  BY <1>1, <1>2 DEF Closing, Threads

\* An entry while no close is under way.
LEMMA DecisionKeepsClosing ==
    ASSUME TypeOK, Closing, held = 0, NEW ts, NEW latch, NEW by,
           Refused(ts) \/ Filled(by, ts, latch) \/ Halted(ts),
           stage' = "free", UNCHANGED leaving,
           \A t \in Threads : leaving[t] = NotGone
    PROVE  Closing'
<1>1. opened \in Nat /\ held \in Nat /\ closes \in [1..Structures -> Nat]
  BY GateAssumption DEF TypeOK, Holding
<1>2. CASE Refused(ts) \/ Halted(ts)
  <2>1. UNCHANGED <<held, opened, closes>>
    BY <1>2 DEF Refused, Halted, Ghost
  <2>2. QED
    BY <2>1 DEF Closing, Threads
<1>3. CASE Filled(by, ts, latch)
  <2>1. held' = opened + 1 /\ opened' = opened + 1 /\ closes' = closes
    BY <1>3 DEF Filled
  <2>2. QED
    BY <1>1, <2>1 DEF Closing, Threads
<1>4. QED
  BY <1>2, <1>3

LEMMA FinishKeepsClosing ==
    ASSUME TypeOK, Closing, NEW t \in Threads, FinishExit(t)
    PROVE  Closing'
<1>1. /\ opened \in Nat /\ held \in 0..Structures /\ closes \in [1..Structures -> Nat]
      /\ Structures \in Nat
  BY GateAssumption DEF TypeOK, Holding
<1>2. leaving[t].id = held /\ held # 0 /\ opened' = opened
  BY DEF FinishExit, Closing
<1>3. \A u \in Threads : leaving'[u] = NotGone
  BY DEF FinishExit, Closing, Threads, TypeOK
<1>4. stage' \notin {"marking", "closing"}
  BY DEF FinishExit, Closing, Threads, TypeOK
<1>5. CASE NotClosed
  BY <1>2, <1>3, <1>4, <1>5 DEF NotClosed, Closing, Threads
<1>6. CASE Gone(t)
  <2>1. held' = 0 /\ closes' = [closes EXCEPT ![held] = @ + 1]
    BY <1>2, <1>6 DEF Gone
  <2>2. closes[held] = 0 /\ held <= opened
    BY <1>1, <1>2 DEF Closing
  <2>3. \A s \in 1..Structures : closes'[s] <= 1 /\ (s > opened => closes'[s] = 0)
    BY <1>1, <1>2, <2>1, <2>2 DEF Closing
  <2>4. QED
    BY <1>1, <1>2, <1>3, <1>4, <2>1, <2>3 DEF Closing, Threads
<1>7. QED
  BY <1>5, <1>6 DEF FinishExit

LEMMA StepKeepsClosing ==
    ASSUME "overlap" \notin Faults, TypeOK, Closing, [Next]_vars
    PROVE  Closing'
<1>1. CASE StartBucket
  BY <1>1 DEF StartBucket, Bridge, Ghost, Closing
<1>2. CASE SealBar
  <2>1. UNCHANGED <<held, opened, closes>> /\ leaving["sweep"] = NotGone /\ stage = "free"
    BY <1>2 DEF SealBar, Locks
  <2>2. CASE stage' = "strategy" /\ UNCHANGED leaving
    BY <2>1, <2>2 DEF Closing
  <2>3. CASE \E r \in Reasons(forming) : StartExit(r, "marking")
    BY <2>1, <2>3, StartKeepsClosing
  <2>4. QED
    BY <1>2, <2>2, <2>3 DEF SealBar
<1>3. CASE BarPasses
  BY <1>3 DEF BarPasses, Ghost, Closing
<1>4. CASE BarEnters
  <2>1. \/ Refused(bar) \/ Filled("bar", bar, NoStamp) \/ Halted(bar)
    BY <1>4 DEF BarEnters
  <2>2. held = 0 /\ stage' = "free" /\ UNCHANGED leaving
    BY <1>4 DEF BarEnters, BarMayEnter
  <2>3. \A t \in Threads : leaving[t] = NotGone
    BY <1>4 DEF BarEnters, Closing, Threads
  <2>4. QED
    BY <2>1, <2>2, <2>3, DecisionKeepsClosing
<1>5. CASE BarExits
  <2>1. leaving["sweep"] = NotGone
    BY <1>5 DEF BarExits, Closing
  <2>2. QED
    BY <1>5, <2>1, StartKeepsClosing DEF BarExits, Ghost
<1>6. CASE Mark
  <2>1. UNCHANGED <<held, opened, closes>> /\ leaving["sweep"] = NotGone
    BY <1>6 DEF Mark, Locks, Ghost
  <2>2. CASE UNCHANGED <<stage, leaving>>
    BY <2>1, <2>2 DEF Closing
  <2>3. CASE \E r \in Reasons(clock) : StartExit(r, "closing")
    BY <2>1, <2>3, StartKeepsClosing
  <2>4. QED
    BY <1>6, <2>2, <2>3 DEF Mark
<1>7. CASE TickEnters
  <2>1. \/ Refused(clock) \/ Filled("tick", clock, BucketStart(clock)) \/ Halted(clock)
    BY <1>7 DEF TickEnters
  <2>2. held = 0 /\ stage' = "free" /\ UNCHANGED leaving
    BY <1>7 DEF TickEnters, TickMayEnter, Locks
  <2>3. \A t \in Threads : leaving[t] = NotGone
    BY <1>7 DEF TickEnters, Locks, Closing, Threads
  <2>4. QED
    BY <2>1, <2>2, <2>3, DecisionKeepsClosing
<1>8. CASE OperatorExit
  BY <1>8, StartKeepsClosing DEF OperatorExit, Locks, Bridge, Ghost
<1>9. CASE Pause \/ Resume
  BY <1>9 DEF Pause, Resume, Bridge, Ghost, Closing
<1>10. CASE Sweep
  <2>1. /\ leaving' = [leaving EXCEPT !["sweep"] = [id |-> held, reason |-> "squareoff"]]
        /\ held # 0 /\ stage = "free" /\ UNCHANGED <<held, opened, closes, stage>>
    BY <1>10 DEF Sweep, SweepDue, InSweepWindow, Bridge, Ghost
  <2>2. leaving'["runner"] = leaving["runner"]
    BY <2>1 DEF TypeOK, Threads
  <2>3. leaving'["sweep"].id = held
    BY <2>1 DEF TypeOK, Threads
  <2>4. QED
    BY <2>1, <2>2, <2>3 DEF Closing, Threads
<1>11. CASE RunnerLeaves \/ SweepLeaves
  BY <1>11, FinishKeepsClosing DEF RunnerLeaves, SweepLeaves, Threads
<1>12. CASE Restart
  BY <1>12 DEF Restart, Closing
<1>13. CASE Advance
  BY <1>13 DEF Advance, Bridge, Closing
<1>14. CASE UNCHANGED vars
  BY <1>14 DEF vars, Bridge, Ghost, Closing
<1>15. QED
  BY <1>1, <1>2, <1>3, <1>4, <1>5, <1>6, <1>7, <1>8, <1>9, <1>10, <1>11, <1>12, <1>13,
     <1>14 DEF Next

\* While the sweep waits for the runner and the runner for the sweep, no
\* structure is closed twice, by any mix of rules, operators and square-offs.
THEOREM ClosedOnceHolds == ASSUME "overlap" \notin Faults PROVE Spec => []ClosedOnce
<1>1. TypeOK /\ Closing /\ [Next]_vars => Closing'
  BY StepKeepsClosing
<1>2. Closing => ClosedOnce
  BY DEF Closing, ClosedOnce
<1>3. QED
  BY <1>1, <1>2, ClosingInitially, TypesInitially, StepKeepsTypes, PTL DEF Spec

-----------------------------------------------------------------------------
(* The latch and the exit bar *)

\* The latch is the bucket of the last entry, if a tick made it; a bar being
\* worked off remembers that it closed something.
Latched == last.by = "tick" => gate.bucket = last.bucket
BarKnows == stage \in {"marking", "strategy"} /\ leftNow => gate.onBar
Staying == Latched /\ BarKnows

LEMMA StayingInitially == Init => Staying
BY DEF Init, Staying, Latched, BarKnows, NoEntry

\* A decision that opens nothing leaves both alone; one that opens latches the
\* bucket it was made in.
LEMMA DecisionLatches ==
    ASSUME TypeOK, Latched, NEW ts \in Stamp, NEW latch \in Stamp, NEW by,
           Refused(ts) \/ Filled(by, ts, latch) \/ Halted(ts),
           by = "tick" => latch = BucketStart(clock)
    PROVE  /\ Latched'
           /\ held' # held => last'.by = by /\ last'.bucket = BucketStart(clock)
<1> DEFINE g == Rolled(gate, ts.day)
<1>1. g \in Gate /\ g.bucket = gate.bucket
  BY StampFields, RolledFacts DEF TypeOK
<1> HIDE DEF g
<1>2. CASE Refused(ts) \/ Halted(ts)
  <2>1. gate' = g /\ last' = last /\ held' = held
    BY <1>2 DEF Refused, Halted, Ghost, g
  <2>2. gate'.bucket = gate.bucket
    BY <1>1, <2>1
  <2>3. QED
    BY <2>1, <2>2 DEF Latched
<1>3. CASE Filled(by, ts, latch)
  <2>1. gate' = Entered(g, latch) /\ last'.by = by /\ last'.bucket = BucketStart(clock)
    BY <1>3 DEF Filled, g
  <2>2. gate'.bucket = latch
    BY <1>1, <2>1, EnteredFacts
  <2>3. QED
    BY <2>1, <2>2 DEF Latched
<1>4. QED
  BY <1>2, <1>3

LEMMA FinishKeepsStaying ==
    ASSUME TypeOK, Staying, NEW t \in Threads, FinishExit(t)
    PROVE  Staying'
<1>1. /\ last' = last
      /\ stage' \in {"marking", "strategy"} => stage \in {"marking", "strategy"}
  BY DEF FinishExit
<1>2. CASE NotClosed
  BY <1>1, <1>2 DEF NotClosed, Staying, Latched, BarKnows
<1>3. CASE Gone(t)
  <2>1. leaving[t].reason \in Reason
    BY DEF TypeOK, Leaving, Reason
  <2>2. gate'.onBar = TRUE /\ gate'.bucket = gate.bucket
    BY <1>3, <2>1, LeftFacts DEF Gone, TypeOK
  <2>3. QED
    BY <1>1, <2>2 DEF Staying, Latched, BarKnows
<1>4. QED
  BY <1>2, <1>3 DEF FinishExit

LEMMA StepKeepsStaying ==
    ASSUME TypeOK, Staying, [Next]_vars
    PROVE  Staying'
<1> USE DEF Staying, Latched, BarKnows
<1>1. CASE StartBucket
  BY <1>1 DEF StartBucket, Bridge, Ghost
<1>2. CASE SealBar
  <2>1. gate'.bucket = gate.bucket /\ last' = last /\ leftNow' = FALSE
    BY <1>2 DEF SealBar, TypeOK, Gate
  <2>2. QED
    BY <2>1
<1>3. CASE BarPasses \/ BarExits
  BY <1>3 DEF BarPasses, BarExits, StartExit, Ghost
<1>4. CASE BarEnters
  <2>1. \/ Refused(bar) \/ Filled("bar", bar, NoStamp) \/ Halted(bar)
    BY <1>4 DEF BarEnters
  <2>2. bar \in Stamp /\ stage' = "free"
    BY <1>4 DEF BarEnters, TypeOK
  <2>3. QED
    BY <2>1, <2>2, StampFacts, DecisionLatches
<1>5. CASE Mark \/ OperatorExit
  BY <1>5 DEF Mark, OperatorExit, Locks, StartExit, Bridge, Ghost
<1>6. CASE TickEnters
  <2>1. \/ Refused(clock) \/ Filled("tick", clock, BucketStart(clock)) \/ Halted(clock)
    BY <1>6 DEF TickEnters
  <2>2. clock \in Stamp /\ BucketStart(clock) \in Stamp /\ stage' = "free"
    BY <1>6, BucketFacts DEF TickEnters, Locks, TypeOK
  <2>3. QED
    BY <2>1, <2>2, DecisionLatches
<1>7. CASE Pause \/ Resume \/ Sweep
  BY <1>7 DEF Pause, Resume, Sweep, Bridge, Ghost
<1>8. CASE RunnerLeaves \/ SweepLeaves
  BY <1>8, FinishKeepsStaying DEF RunnerLeaves, SweepLeaves, Threads
<1>9. CASE Restart
  BY <1>9 DEF Restart, Free, NoEntry
<1>10. CASE Advance
  BY <1>10 DEF Advance, Free, Bridge
<1>11. CASE UNCHANGED vars
  BY <1>11 DEF vars, Bridge, Ghost
<1>12. QED
  BY <1>1, <1>2, <1>3, <1>4, <1>5, <1>6, <1>7, <1>8, <1>9, <1>10, <1>11 DEF Next

\* Only the strategy's two decisions open a structure.
LEMMA OnlyDecisionsEnter ==
    ASSUME TypeOK, [Next]_vars, Enters
    PROVE  BarEnters \/ TickEnters
<1>1. \A t \in Threads : FinishExit(t) => held' = 0 \/ held' = held
  BY DEF FinishExit, Gone, NotClosed
<1>2. QED
  BY <1>1 DEF Enters, Next, StartBucket, SealBar, BarPasses, BarExits, Mark, OperatorExit,
     Pause, Resume, Sweep, RunnerLeaves, SweepLeaves, Threads, Restart, Advance, vars, Bridge

\* Ticks enter once per bucket, however often rules close between them.
THEOREM TicksLatch == Spec => TicksEnterOncePerBucket
<1>1. ASSUME TypeOK, Staying, [Next]_vars, Enters, last.by = "tick", last'.by = "tick"
      PROVE  last'.bucket # last.bucket
  <2>1. clock \in Stamp /\ BucketStart(clock) \in Stamp /\ bar \in Stamp
    BY <1>1, BucketFacts DEF TypeOK
  <2>2. CASE TickEnters
    <3>1. \/ Refused(clock) \/ Filled("tick", clock, BucketStart(clock)) \/ Halted(clock)
      BY <2>2 DEF TickEnters
    <3>2. last'.bucket = BucketStart(clock)
      BY <1>1, <2>1, <3>1, DecisionLatches DEF Staying, Enters
    <3>3. gate.bucket # BucketStart(clock)
      BY <2>2 DEF TickEnters, TickMayEnter
    <3>4. QED
      BY <1>1, <3>2, <3>3 DEF Staying, Latched
  <2>3. CASE BarEnters
    <3>1. \/ Refused(bar) \/ Filled("bar", bar, NoStamp) \/ Halted(bar)
      BY <2>3 DEF BarEnters
    <3>2. last'.by = "bar"
      BY <1>1, <2>1, <3>1, StampFacts, DecisionLatches DEF Staying, Enters
    <3>3. QED
      BY <1>1, <3>2
  <2>4. QED
    BY <1>1, <2>2, <2>3, OnlyDecisionsEnter
<1>2. TypeOK /\ Staying /\ [Next]_vars
         => [Enters /\ last.by = "tick" /\ last'.by = "tick"
               => last'.bucket # last.bucket]_vars
  BY <1>1
<1>3. QED
  BY <1>2, TypesHold, StayingInitially, StepKeepsStaying, PTL DEF Spec, TicksEnterOncePerBucket

\* The bar whose processing closed a structure opens none (_blocked_reentry).
THEOREM ExitBarHolds == Spec => SameBarStaysOut
<1>1. ASSUME TypeOK, Staying, [Next]_vars, Enters, last'.by = "bar"
      PROVE  ~leftNow
  <2>1. clock \in Stamp /\ BucketStart(clock) \in Stamp
    BY <1>1, BucketFacts DEF TypeOK
  <2>2. CASE TickEnters
    <3>1. \/ Refused(clock) \/ Filled("tick", clock, BucketStart(clock)) \/ Halted(clock)
      BY <2>2 DEF TickEnters
    <3>2. last'.by = "tick"
      BY <1>1, <2>1, <3>1, DecisionLatches DEF Staying, Enters
    <3>3. QED
      BY <1>1, <3>2
  <2>3. CASE BarEnters
    <3>1. stage = "strategy" /\ ~gate.onBar
      BY <2>3 DEF BarEnters, BarMayEnter, BlockedReentry
    <3>2. QED
      BY <1>1, <3>1 DEF Staying, BarKnows
  <2>4. QED
    BY <1>1, <2>2, <2>3, OnlyDecisionsEnter
<1>2. TypeOK /\ Staying /\ [Next]_vars
         => [Enters /\ last'.by = "bar" => ~leftNow]_vars
  BY <1>1
<1>3. QED
  BY <1>2, TypesHold, StayingInitially, StepKeepsStaying, PTL DEF Spec, SameBarStaysOut

-----------------------------------------------------------------------------
(* Flat nights *)

\* The stamp of the last bar of a session: its bucket holds the last minute.
LastBar == (Close - 1) - ((Close - 1) % Bucket)

\* The sweep comes by before the close, no minute bar is missing, and the last
\* bar of the session is stamped after the square-off minute.
ShortBars == "gap" \notin Faults /\ SweepFrom < Close /\ Cut < LastBar

\* A sweep that left something behind is on record; at the close an intraday
\* book is flat, and what is sealed then is stamped too late to enter on.
SweptBehind == swept /\ held # 0 => missed
FlatAtClose == config.intraday /\ ~missed /\ clock.at = Close => held = 0
LateStamp   == clock.at = Close =>
                   /\ forming # NoStamp => forming.at = LastBar
                   /\ stage \in {"marking", "strategy"} => bar.at = LastBar
NightInv == SweptBehind /\ FlatAtClose /\ LateStamp

LEMMA NightInitially == Init => NightInv
BY ClockAssumption DEF Init, NightInv, SweptBehind, FlatAtClose, LateStamp

\* A decision at the close opens nothing in an intraday book.
LEMMA DecisionKeepsNight ==
    ASSUME TypeOK, NightInv, NEW ts, NEW latch, NEW by,
           Refused(ts) \/ Filled(by, ts, latch) \/ Halted(ts),
           UNCHANGED <<clock, config>>,
           clock.at = Close => ~config.intraday
    PROVE  SweptBehind' /\ FlatAtClose'
<1> USE DEF NightInv, SweptBehind, FlatAtClose
<1>1. CASE Refused(ts) \/ Halted(ts)
  <2>1. UNCHANGED <<held, swept, missed>>
    BY <1>1 DEF Refused, Halted, Ghost
  <2>2. QED
    BY <2>1
<1>2. CASE Filled(by, ts, latch)
  <2>1. swept' = FALSE
    BY <1>2 DEF Filled
  <2>2. QED
    BY <2>1
<1>3. QED
  BY <1>1, <1>2

\* An intraday book enters on no instant after its square-off minute.
LEMMA WindowCloses ==
    ASSUME TypeOK, NEW ts \in Stamp, WindowOpen(ts), ts.at > Cut
    PROVE  ~config.intraday
<1>1. ts.at \in Int /\ Cut \in Int
  BY ClockAssumption, StampFields
<1>2. config.intraday => ts.at <= Cut
  BY DEF WindowOpen
<1>3. QED
  BY <1>1, <1>2

LEMMA FinishKeepsNight ==
    ASSUME TypeOK, NightInv, NEW t \in Threads, FinishExit(t)
    PROVE  NightInv'
<1> USE DEF NightInv, SweptBehind, FlatAtClose
<1>1. /\ UNCHANGED <<clock, config, forming, bar>>
      /\ stage' \in {"marking", "strategy"} => stage \in {"marking", "strategy"}
  BY DEF FinishExit
<1>2. held' = 0 \/ (missed' = TRUE /\ held' = held)
  BY DEF FinishExit, Gone, NotClosed
<1>3. SweptBehind' /\ FlatAtClose'
  BY <1>1, <1>2
<1>4. LateStamp'
  BY <1>1 DEF LateStamp
<1>5. QED
  BY <1>3, <1>4

\* At the minute before the close the sweep has come by, or noted a pause, and
\* the bucket being filled is the last one.
LEMMA AdvanceKeepsNight ==
    ASSUME ShortBars, TypeOK, NightInv, Advance
    PROVE  NightInv'
<1>1. /\ swept' = FALSE /\ UNCHANGED <<forming, config, held, bar, stage>>
      /\ stage = "free"
      /\ SweepDue => swept
      /\ missed' = (missed \/ (InSweepWindow /\ ~SweepDue))
  BY DEF Advance, Free, Runner, Bridge
<1>2. clock \in Stamp /\ clock.at \in Int /\ Close \in Int /\ SweepFrom \in Int
  BY ClockAssumption DEF TypeOK, Stamp
<1>3. clock'.at = Open \/ (clock'.at = clock.at + 1 /\ clock.at < Close)
  BY <1>2 DEF Advance, Stamp
<1>4. CASE clock'.at # Close
  BY <1>1, <1>4 DEF NightInv, SweptBehind, FlatAtClose, LateStamp
<1>5. CASE clock'.at = Close
  <2>1. clock.at = Close - 1 /\ clock.at < Close /\ SweepFrom <= clock.at
    BY <1>2, <1>3, <1>5, ClockAssumption DEF ShortBars
  <2>2. FlatAtClose'
    <3> SUFFICES ASSUME config.intraday, ~missed', held # 0
                 PROVE  FALSE
      BY <1>1 DEF FlatAtClose
    <3>1. InSweepWindow
      BY <2>1 DEF InSweepWindow
    <3>2. ~missed /\ swept
      BY <1>1, <3>1
    <3>3. QED
      BY <3>2 DEF NightInv, SweptBehind
  <2>3. LateStamp'
    <3> SUFFICES ASSUME forming # NoStamp PROVE forming.at = LastBar
      BY <1>1 DEF LateStamp
    <3>1. ~Sealable
      BY <1>2, <2>1 DEF Advance, ShortBars
    <3>2. forming = BucketStart(clock)
      BY <3>1 DEF Sealable
    <3>3. QED
      BY <1>2, <2>1, <3>2 DEF BucketStart, LastBar, Stamp
  <2>4. SweptBehind'
    BY <1>1 DEF SweptBehind
  <2>5. QED
    BY <2>2, <2>3, <2>4 DEF NightInv
<1>6. QED
  BY <1>4, <1>5

LEMMA StepKeepsNight ==
    ASSUME ShortBars, TypeOK, NightInv, [Next]_vars
    PROVE  NightInv'
<1>0. /\ clock \in Stamp /\ bar \in Stamp
      /\ Close > Cut /\ LastBar > Cut /\ Close \in Int /\ Cut \in Int /\ LastBar \in Int
  BY ClockAssumption DEF TypeOK, ShortBars, LastBar
<1> USE DEF NightInv, SweptBehind, FlatAtClose, LateStamp
<1>1. CASE StartBucket
  <2>1. clock.at # Close
    BY <1>0, <1>1, StampFields DEF StartBucket
  <2>2. QED
    BY <1>1, <2>1 DEF StartBucket, Runner, Bridge, Ghost
<1>2. CASE SealBar
  <2>1. /\ UNCHANGED <<clock, swept, config, held, missed>>
        /\ bar' = forming /\ forming # NoStamp
        /\ clock.at = Close => forming' = NoStamp
    BY <1>2 DEF SealBar, Sealable, Runner
  <2>2. QED
    BY <2>1
<1>3. CASE BarPasses \/ BarExits
  <2>1. /\ UNCHANGED <<clock, forming, swept, config, held, missed>>
        /\ stage' \notin {"marking", "strategy"}
    BY <1>3 DEF BarPasses, BarExits, StartExit, Feed, Runner, Ghost
  <2>2. QED
    BY <2>1
<1>4. CASE BarEnters
  <2>1. \/ Refused(bar) \/ Filled("bar", bar, NoStamp) \/ Halted(bar)
    BY <1>4 DEF BarEnters
  <2>2. /\ UNCHANGED <<clock, forming, config>> /\ stage' = "free"
        /\ stage = "strategy" /\ WindowOpen(bar)
    BY <1>4 DEF BarEnters, BarMayEnter
  <2>3. clock.at = Close => ~config.intraday
    BY <1>0, <2>2, WindowCloses
  <2>4. SweptBehind' /\ FlatAtClose'
    BY <2>1, <2>2, <2>3, DecisionKeepsNight
  <2>5. QED
    BY <2>2, <2>4
<1>5. CASE Mark \/ OperatorExit
  <2>1. /\ UNCHANGED <<clock, forming, swept, config, held, missed>>
        /\ stage' \notin {"marking", "strategy"}
    BY <1>5 DEF Mark, OperatorExit, Locks, StartExit, Feed, Runner, Bridge, Ghost
  <2>2. QED
    BY <2>1
<1>6. CASE TickEnters
  <2>1. \/ Refused(clock) \/ Filled("tick", clock, BucketStart(clock)) \/ Halted(clock)
    BY <1>6 DEF TickEnters
  <2>2. /\ UNCHANGED <<clock, forming, config, stage>> /\ stage = "free"
        /\ WindowOpen(clock)
    BY <1>6 DEF TickEnters, TickMayEnter, Locks
  <2>3. clock.at = Close => ~config.intraday
    BY <1>0, <2>2, WindowCloses
  <2>4. SweptBehind' /\ FlatAtClose'
    BY <2>1, <2>2, <2>3, DecisionKeepsNight
  <2>5. QED
    BY <2>2, <2>4
<1>7. CASE Pause \/ Resume \/ Sweep
  BY <1>7 DEF Pause, Resume, Sweep, Feed, Runner, Bridge, Ghost
<1>8. CASE RunnerLeaves \/ SweepLeaves
  BY <1>8, FinishKeepsNight DEF RunnerLeaves, SweepLeaves, Threads
<1>9. CASE Restart
  <2>1. /\ UNCHANGED <<clock, swept, config, held, missed, stage>>
        /\ stage = "free" /\ forming' = NoStamp
    BY <1>9 DEF Restart, Free
  <2>2. QED
    BY <2>1
<1>10. CASE Advance
  BY <1>10, AdvanceKeepsNight
<1>11. CASE UNCHANGED vars
  BY <1>11 DEF vars, Feed, Runner, Bridge, Ghost
<1>12. QED
  BY <1>1, <1>2, <1>3, <1>4, <1>5, <1>6, <1>7, <1>8, <1>9, <1>10, <1>11 DEF Next

\* The date changes only when the clock moves on from the close.
LEMMA OnlyNightTurnsDay ==
    ASSUME TypeOK, [Next]_vars, clock'.day > clock.day
    PROVE  clock.at = Close
<1>1. clock \in Stamp /\ clock.day \in Int
  BY DEF TypeOK, Stamp
<1>2. clock' # clock
  BY <1>1
<1>3. Advance
  BY <1>2 DEF Next, StartBucket, SealBar, BarPasses, BarEnters, BarExits, Mark, TickEnters,
     OperatorExit, Pause, Resume, Sweep, RunnerLeaves, SweepLeaves, FinishExit, Restart,
     vars, Feed
<1>4. clock.at < Close => clock'.day = clock.day
  BY <1>1, <1>3 DEF Advance, Stamp
<1>5. QED
  BY <1>1, <1>3, <1>4 DEF Advance

\* An intraday book that was not paused at the sweep, and whose closes were not
\* refused, is flat over night: on bars or ticks, with closing prints that are
\* a day late, and with the sweep beside whatever else the runner does.
THEOREM FlatNights == ASSUME ShortBars PROVE Spec => FlatOvernight
<1>1. ASSUME TypeOK, NightInv, [Next]_vars, clock'.day > clock.day, config.intraday, ~missed
      PROVE  held = 0
  BY <1>1, OnlyNightTurnsDay DEF NightInv, FlatAtClose
<1>2. TypeOK /\ NightInv /\ [Next]_vars
         => [clock'.day > clock.day /\ config.intraday /\ status = "RUNNING" /\ ~missed
               => held = 0]_vars
  BY <1>1
<1>3. TypeOK /\ NightInv /\ [Next]_vars => NightInv'
  BY StepKeepsNight
<1>4. QED
  BY <1>2, <1>3, TypesHold, NightInitially, PTL DEF Spec, FlatOvernight
=============================================================================
