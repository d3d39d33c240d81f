----------------------------- MODULE LiveOptions -----------------------------
(* One live option runner: the bridge's entry and exit calls, the           *)
(* LiveOptionBrokerAdapter's book, the LiveOptionTrader that sends one      *)
(* structure leg by leg (or two legs on two threads), its intent journal,   *)
(* and the broker's venue.  Source: src/backtest/options/live_trading.py.   *)
(*                                                                          *)
(* The venue (orders, fills, lost answers) is external: it does what the    *)
(* trader is written to survive.  Faults names which of that a run allows.  *)
EXTENDS Integers, FiniteSets, Sequences, IntentJournal

CONSTANTS
    Legs,         \* leg indices of the structure, a set 1..n
    Side,         \* Side[l] \in {"BUY", "SELL"}: the side that opens leg l
    Qty,          \* Qty[l]: total_quantity of leg l
    Concurrent,   \* concurrent_same_side_legs
    Durable,      \* TRUE: IntentJournal (database); FALSE: MemoryJournal
    TickEntries,  \* TRUE: ticks may re-emit a decision within its bar
    Cooldown,     \* TRUE: reentry_cooldown_seconds outlasts a bar (the default
                  \* on 1-minute bars); FALSE: the knob is set to 0
    Faults,       \* what the venue and the link may do, see AllFaults
    MaxClock, MaxAttempts, MaxCrashes   \* bounds of the exploration

\* "lost":    place_order ends without an answer (OrderOutcomeUnknown)
\* "drop":    the connection breaks while the order book is being read
\* "slow":    no terminal status is seen within the poll timeout
\* "partial": the exchange cancels what is left of a partly filled order
\* "noprice": an executed order is reported without an average price
\* "noflat":  a rollback order is refused, lost or cancelled
AllFaults == {"lost", "drop", "slow", "partial", "noprice", "noflat"}

ASSUME LegsAssumption == /\ Legs \subseteq Nat \ {0}
                         /\ IsFiniteSet(Legs)
                         /\ Side \in [Legs -> {"BUY", "SELL"}]
                         /\ Qty \in [Legs -> Nat \ {0}]
ASSUME SwitchAssumption == /\ {Concurrent, Durable, TickEntries, Cooldown} \subseteq BOOLEAN
                           /\ Faults \subseteq AllFaults
ASSUME BoundAssumption == {MaxClock, MaxAttempts, MaxCrashes} \subseteq Nat

VARIABLES
    orders,    \* venue: every order it ever accepted, index = broker order id
    lost,      \* history: ids the process never learnt, or forgot in a crash
    journal,   \* the intent journal
    op,        \* the execute_structure / close_structure call in progress
    run,       \* per leg of op: its LegResult and where _submit_leg stands
    flats,     \* legs _rollback has still to flatten
    book,      \* adapter book and bridge: positions held, legs of the open
               \* structure, the bar on which the re-entry guards refuse
    saved,     \* the book in the last state snapshot
    runner,    \* StrategyRunner.status
    result,    \* status of the last finished call
    clock,     \* bar timestamp
    tried,     \* bar of the last entry attempt of this process
    attempts, crashes

venue  == <<orders, lost>>
call   == <<op, run, flats>>
local  == <<book, saved, runner, result>>
count  == <<clock, tried, attempts, crashes>>
vars   == <<venue, journal, call, local, count>>

-----------------------------------------------------------------------------
(* Data *)

Opposite(s) == IF s = "BUY" THEN "SELL" ELSE "BUY"

\* The side leg l is sent with: a close sends the inverse side.
SideOf(act, l) == IF act = "close" THEN Opposite(Side[l]) ELSE Side[l]

Intent(act, at, legs) == [act |-> act, at |-> at, legs |-> legs]
NoCall  == [act |-> "none", at |-> 0, legs |-> {}, phase |-> "idle"]
Busy    == op.act # "none"
Current == Intent(op.act, op.at, op.legs)    \* intent_key of the call

FreshLeg == [pc |-> "todo", order |-> NoOrder, qty |-> 0, priced |-> FALSE]
Done     == {"filled", "rejected", "uncertain", "raised"}

Order(use, leg, side, qty) ==
    [intent |-> Current, use |-> use, leg |-> leg, side |-> side,
     qty |-> qty, filled |-> 0, status |-> "open"]
LegOrder(l)  == Order("leg", l, SideOf(op.act, l), Qty[l])
\* Mutant: the rollback order repeats the leg's side.
FlatOrderSameSide(l) == Order("flat", l, SideOf(op.act, l), run[l].qty)
FlatOrder(l) == Order("flat", l, Opposite(SideOf(op.act, l)), run[l].qty)

Ids == DOMAIN orders
\* Mutant: the packet is compared without its side.
SamePacketAnySide(o, p) == o.leg = p.leg /\ o.qty = p.qty
SamePacket(o, p) == o.leg = p.leg /\ o.side = p.side /\ o.qty = p.qty

\* Mutant: legs go out in index order whatever their side.
BeforeByIndex(k, l) == k < l

\* exec_indices: BUY legs before SELL legs, else in leg order.
Before(k, l) ==
    LET s == SideOf(op.act, k)
        t == SideOf(op.act, l)
    IN  (s = "BUY" /\ t = "SELL") \/ (s = t /\ k < l)

\* is_two_leg_same_side: the pair goes out on two worker threads.
Paired == /\ Concurrent
          /\ Cardinality(op.legs) = 2
          /\ \A k, l \in op.legs : SideOf(op.act, k) = SideOf(op.act, l)

\* Leg l's turn: a thread of the pair, or every leg before it has filled.
Turn(l) == \/ Paired
           \/ \A k \in op.legs : Before(k, l) => run[k].pc = "filled"

All(pcs) == {l \in op.legs : run[l].pc \in pcs}
Positions(o) == IF o.side = Side[o.leg] THEN o.filled ELSE 0 - o.filled

-----------------------------------------------------------------------------
(* The venue (external) *)

\* An accepted order executes one unit at a time.
VenueFill(i) ==
    /\ orders[i].status = "open"
    /\ orders' = [orders EXCEPT ![i].filled = @ + 1,
                                ![i].status = IF orders[i].filled + 1 = orders[i].qty
                                              THEN "executed" ELSE "open"]
    /\ UNCHANGED <<lost, journal, call, local, count>>

\* REJECTED, CANCELLED or EXPIRED at the exchange: what is left never fills.
VenueKill(i) ==
    /\ orders[i].status = "open"
    /\ orders[i].filled > 0 => "partial" \in Faults
    /\ orders[i].use = "flat" => "noflat" \in Faults
    /\ orders' = [orders EXCEPT ![i].status = "cancelled"]
    /\ UNCHANGED <<lost, journal, call, local, count>>

-----------------------------------------------------------------------------
(* Starting a call *)

Decide(i) == Record(journal, Row(i, "DECIDED", NoLeg, NoOrder))

Begin(act, legs) ==
    /\ ~Busy
    /\ attempts < MaxAttempts
    /\ attempts' = attempts + 1
    /\ journal' = Decide(Intent(act, clock, legs))
    /\ op' = [act |-> act, at |-> clock, legs |-> legs, phase |-> "legs"]
    /\ run' = [l \in Legs |-> FreshLeg]

\* The entry gates of OptionsBridge.on_intent: nothing open, no exit on this
\* bar (or cooldown), and one attempt per bar unless ticks re-evaluate it.
MayEnter == /\ runner = "running"
            /\ book.open = {}
            /\ book.spent # clock
            /\ TickEntries \/ tried # clock

\* OptionsBridge.on_intent reaches execute_structure: DECIDED is journaled.
StartOpen ==
    /\ MayEnter
    /\ Begin("open", Legs)
    /\ tried' = clock
    /\ UNCHANGED <<venue, flats, local, clock, crashes>>

\* The same, refused by the margin pre-check: nothing is sent.
StartWithoutMargin ==
    /\ MayEnter
    /\ ~Busy
    /\ attempts < MaxAttempts
    /\ attempts' = attempts + 1
    /\ LET i == Intent("open", clock, Legs)
       IN  journal' = Record(Decide(i), Row(i, "REJECTED", NoLeg, NoOrder))
    /\ result' = "ROLLED_BACK"
    /\ tried' = clock
    /\ UNCHANGED <<venue, call, book, saved, runner, clock, crashes>>

\* An exit rule, the operator or flatten_all closes the open structure; a
\* paused runner's structure can still be closed by hand.
StartClose ==
    /\ book.open # {}
    /\ Begin("close", book.open)
    /\ UNCHANGED <<venue, flats, local, clock, tried, crashes>>

-----------------------------------------------------------------------------
(* _submit_leg, one step per call it makes *)

Leg(l, pc) == op.phase = "legs" /\ l \in op.legs /\ run[l].pc = pc
Becomes(l, pc) == run' = [run EXCEPT ![l].pc = pc]
Known(l) == OrderIdFor(journal, Current, l)

\* The journal holds a ticket for this leg: settle it, never place another.
ReuseTicket(l) ==
    /\ Leg(l, "todo") /\ Turn(l)
    /\ Known(l) # NoOrder
    /\ run' = [run EXCEPT ![l].pc = "polling", ![l].order = Known(l)]
    /\ UNCHANGED <<venue, journal, op, flats, local, count>>

\* Mutant: the idempotency guard is gone.
MayPlaceUnguarded(l) == Leg(l, "todo") /\ Turn(l)
MayPlace(l) == Leg(l, "todo") /\ Turn(l) /\ Known(l) = NoOrder

\* place_order returns an id.
PlaceAnswered(l) ==
    /\ MayPlace(l)
    /\ orders' = Append(orders, LegOrder(l))
    /\ run' = [run EXCEPT ![l].pc = "answered", ![l].order = Len(orders) + 1]
    /\ UNCHANGED <<lost, journal, op, flats, local, count>>

\* A definite refusal: MStockOrderError.
PlaceRefused(l) ==
    /\ MayPlace(l)
    /\ journal' = Record(journal, Row(Current, "REJECTED", l, NoOrder))
    /\ Becomes(l, "rejected")
    /\ UNCHANGED <<venue, op, flats, local, count>>

\* Mutant: an unanswered placement is not journaled.
MarkNothing(l) == journal
MarkUncertain(l) == journal \cup {UnkeyedRow(Current, "UNCERTAIN", l, NoOrder)}

\* OrderOutcomeUnknown, whether or not the venue took the order:
\* _mark_uncertain journals it and goes on to reconcile.
PlaceUnanswered(l) ==
    /\ MayPlace(l)
    /\ "lost" \in Faults
    /\ \/ /\ orders' = Append(orders, LegOrder(l))
          /\ lost' = lost \cup {Len(orders) + 1}
       \/ UNCHANGED venue
    /\ journal' = MarkUncertain(l)
    /\ Becomes(l, "unanswered")
    /\ UNCHANGED <<op, flats, local, count>>

WithTicket(rows, l, i) == Record(rows, Row(Current, "SUBMITTED", l, i))

\* The SUBMITTED row that makes the ticket findable.  The write does not fail
\* here: an error other than a duplicate would leave the call with an order
\* that has no trace.
JournalTicket(l) ==
    /\ Leg(l, "answered")
    /\ journal' = WithTicket(journal, l, run[l].order)
    /\ Becomes(l, "polling")
    /\ UNCHANGED <<venue, op, flats, local, count>>

-----------------------------------------------------------------------------
(* _settle: one poll of the push cache and the order book, or its timeout *)

Settled(l, kind, pc, qty, priced) ==
    /\ journal' = Record(journal, Row(Current, kind, l, run[l].order))
    /\ run' = [run EXCEPT ![l].pc = pc, ![l].qty = qty, ![l].priced = priced]
    /\ UNCHANGED <<venue, op, flats, local, count>>

SettleFilled(l) ==
    /\ Leg(l, "polling")
    /\ orders[run[l].order].status = "executed"
    /\ \E priced \in {TRUE} \cup {b \in {FALSE} : "noprice" \in Faults} :
          Settled(l, "FILLED", "filled", orders[run[l].order].filled, priced)

\* The order book's CANCELLED row is taken as a rejection whatever it filled.
SettleRejected(l) ==
    /\ Leg(l, "polling")
    /\ orders[run[l].order].status = "cancelled"
    /\ Settled(l, "REJECTED", "rejected", 0, FALSE)

SettleTimeout(l) ==
    /\ Leg(l, "polling")
    /\ "slow" \in Faults
    /\ Settled(l, "UNCERTAIN", "uncertain", 0, FALSE)

-----------------------------------------------------------------------------
(* _reconcile: one look at the venue for a row with the packet of leg l *)

Reconcilable(l) == {i \in Ids : SamePacket(orders[i], LegOrder(l))}

\* What the row found says of the leg.
Reading(o) == IF o.filled > 0 THEN "filled"
              ELSE IF o.status = "cancelled" THEN "rejected"
              ELSE "uncertain"

ReconcileFound(l) ==
    /\ Leg(l, "unanswered")
    /\ \E i \in Reconcilable(l) :
          /\ journal' = WithTicket(
                            journal \cup {UnkeyedRow(Current, "RECONCILED", l, i)}, l, i)
          /\ \E priced \in {TRUE} \cup {b \in {FALSE} : "noprice" \in Faults} :
                run' = [run EXCEPT ![l] =
                          [pc     |-> Reading(orders[i]),
                           order  |-> i,
                           qty    |-> orders[i].filled,
                           priced |-> priced /\ orders[i].filled > 0]]
    /\ UNCHANGED <<venue, op, flats, local, count>>

\* No matching row, or the read failed.
ReconcileNothing(l) ==
    /\ Leg(l, "unanswered")
    /\ Becomes(l, "uncertain")
    /\ UNCHANGED <<venue, journal, op, flats, local, count>>

\* get_order_book lets the connection error through: it is none of the
\* errors _poll_terminal_state and _reconcile catch, so the leg's call raises.
ReadRaises(l) ==
    /\ Leg(l, "polling") \/ Leg(l, "unanswered")
    /\ "drop" \in Faults
    /\ Becomes(l, "raised")
    /\ UNCHANGED <<venue, journal, op, flats, local, count>>

-----------------------------------------------------------------------------
(* Finishing a call *)

\* Mutant: an uncertain leg does not end the wait.
FailedKnown == All({"rejected", "raised"})
Failed    == All({"rejected", "uncertain", "raised"})
AllFilled == All({"filled"}) = op.legs
\* Mutant: the pair is judged at the first failure, its sibling still running.
JoinedEarly == op.phase = "legs" /\ Failed # {}

\* Both threads joined, or the sequential loop left at its first failure.
Joined == /\ op.phase = "legs"
          /\ Failed # {}
          /\ Paired => All(Done) = op.legs
Returned == Joined /\ All({"raised"}) = {}

\* Mutant: an interrupted rollback's list outlives its call.
EndCallKeepsFlats == /\ op' = NoCall /\ UNCHANGED flats
                     /\ run' = [l \in Legs |-> FreshLeg]
EndCall == /\ op' = NoCall /\ flats' = {}
           /\ run' = [l \in Legs |-> FreshLeg]
Finish(status) == EndCall /\ result' = status

\* Mutant: a halted call leaves the runner running.
HaltRunning ==
    /\ journal' = Record(journal, Row(Current, "HALTED", NoLeg, NoOrder))
    /\ Finish("HALTED")
    /\ UNCHANGED runner

\* LiveExecutionHaltedError: HALTED is journaled and the runner is paused.
Halt ==
    /\ journal' = Record(journal, Row(Current, "HALTED", NoLeg, NoOrder))
    /\ Finish("HALTED")
    /\ runner' = "paused"

\* Legs the adapter books: every one with a price, up to the first without.
Bookable == {l \in op.legs : \A k \in op.legs : k <= l => run[k].priced}

\* Structure FILLED, and the adapter books each leg's whole quantity; a fill
\* without a price halts it half way.
OpenFilled ==
    /\ op.act = "open" /\ op.phase = "legs" /\ AllFilled
    /\ LET whole == Bookable = op.legs
       IN  /\ book' = [held  |-> [l \in Legs |-> book.held[l]
                                     + IF l \in Bookable THEN Qty[l] ELSE 0],
                       open  |-> IF whole THEN op.legs ELSE {},
                       spent |-> book.spent]
           /\ Finish(IF whole THEN "FILLED" ELSE "HALTED")
           /\ runner' = IF whole THEN runner ELSE "paused"
    /\ UNCHANGED <<venue, journal, saved, count>>

\* A leg's outcome is unknown.
OpenHalted ==
    /\ op.act = "open" /\ Returned
    /\ All({"uncertain"}) # {}
    /\ Halt
    /\ UNCHANGED <<venue, book, saved, count>>

\* Mutant: the legs that filled are left standing.
NothingToFlatten == {}
ToFlatten == All({"filled"})

\* Every failure is a definite rejection: roll the filled legs back.
StartRollback ==
    /\ op.act = "open" /\ Returned
    /\ All({"uncertain"}) = {}
    /\ op' = [op EXCEPT !.phase = "rollback"]
    /\ flats' = ToFlatten
    /\ UNCHANGED <<venue, journal, run, local, count>>

\* _rollback sends one MARKET order per filled leg, in execution order, and
\* only logs one that is refused or unanswered.
Flatten(l) ==
    /\ op.phase = "rollback" /\ l \in flats
    /\ \A k \in flats \ {l} : Before(l, k)
    /\ flats' = flats \ {l}
    /\ \/ orders' = Append(orders, FlatOrder(l))
       \/ "noflat" \in Faults /\ UNCHANGED orders
    /\ UNCHANGED <<lost, journal, op, run, local, count>>

RolledBack ==
    /\ op.phase = "rollback" /\ flats = {}
    /\ Finish("ROLLED_BACK")
    /\ UNCHANGED <<venue, journal, book, saved, runner, count>>

\* The adapter closes the position of every leg that filled with a price.
ClosedLegs == {l \in All({"filled"}) : run[l].priced}
Unheld == [l \in Legs |-> book.held[l] - IF l \in ClosedLegs THEN Qty[l] ELSE 0]

CloseFilled ==
    /\ op.act = "close" /\ AllFilled
    /\ book' = [held  |-> Unheld, open |-> {},
                spent |-> IF Cooldown THEN op.at ELSE book.spent]
    /\ Finish("FILLED")
    /\ UNCHANGED <<venue, journal, saved, runner, count>>

\* A close never rolls back: it halts, and the structure stays open.
CloseHalted ==
    /\ op.act = "close" /\ Returned
    /\ book' = [book EXCEPT !.held = Unheld, !.open = @ \ ClosedLegs]
    /\ Halt
    /\ UNCHANGED <<venue, saved, count>>

\* The exception of a leg ends the call, its sibling's result with it.  The
\* bridge takes an entry's for a rejection and a close's for a failed close;
\* neither pauses the runner.
CallRaises ==
    /\ Joined /\ All({"raised"}) # {}
    /\ Finish("raised")
    /\ UNCHANGED <<venue, journal, book, saved, runner, count>>

-----------------------------------------------------------------------------
(* The process around the calls *)

\* The next bar; a call keeps the stamp it started with, so bars that pass
\* during one are not told apart.
NextBar ==
    /\ ~Busy /\ clock < MaxClock
    /\ clock' = clock + 1
    /\ UNCHANGED <<venue, journal, call, local, tried, attempts, crashes>>

Resume ==
    /\ runner = "paused"
    /\ runner' = "running"
    /\ UNCHANGED <<venue, journal, call, book, saved, result, count>>

\* The manager writes the state snapshot (only a crash ever reads it).
SaveState ==
    /\ ~Busy /\ crashes < MaxCrashes /\ saved # book
    /\ saved' = book
    /\ UNCHANGED <<venue, journal, call, book, runner, result, count>>

\* The process dies and is restored: paused, with the book of the snapshot
\* (the re-entry guards are not in it) and whatever journal survives.
Crash ==
    /\ crashes < MaxCrashes
    /\ crashes' = crashes + 1
    /\ lost' = IF Durable THEN lost \cup {run[l].order : l \in All({"answered"})}
               ELSE Ids
    /\ journal' = IF Durable THEN journal ELSE {}
    /\ EndCall
    /\ book' = [saved EXCEPT !.spent = 0]
    /\ runner' = "paused"
    /\ result' = "none"
    /\ tried' = 0
    /\ UNCHANGED <<orders, saved, clock, attempts>>

-----------------------------------------------------------------------------
Flat == [held |-> [l \in Legs |-> 0], open |-> {}, spent |-> 0]

Init ==
    /\ orders = <<>> /\ lost = {}
    /\ journal = {}
    /\ op = NoCall /\ run = [l \in Legs |-> FreshLeg] /\ flats = {}
    /\ book = Flat /\ saved = Flat
    /\ runner = "running" /\ result = "none"
    /\ clock = 1 /\ tried = 0 /\ attempts = 0 /\ crashes = 0

Submit(l) == \/ ReuseTicket(l) \/ PlaceAnswered(l) \/ PlaceRefused(l)
             \/ PlaceUnanswered(l) \/ JournalTicket(l)
             \/ SettleFilled(l) \/ SettleRejected(l) \/ SettleTimeout(l)
             \/ ReconcileFound(l) \/ ReconcileNothing(l) \/ ReadRaises(l)

Complete == \/ OpenFilled \/ OpenHalted \/ StartRollback \/ RolledBack
            \/ CloseFilled \/ CloseHalted \/ CallRaises

Trader == \/ \E l \in Legs : Submit(l) \/ Flatten(l)
          \/ Complete

Venue == \E i \in Ids : VenueFill(i) \/ VenueKill(i)

Runner == StartOpen \/ StartWithoutMargin \/ StartClose
          \/ NextBar \/ Resume \/ SaveState \/ Crash

Next == Trader \/ Venue \/ Runner

\* The trader's threads run and its polls end: every wait has a timeout, and
\* the venue gets an order it accepted to a terminal status.
Fairness == WF_vars(Trader) /\ WF_vars(Venue)

Spec     == Init /\ [][Next]_vars
FairSpec == Spec /\ Fairness

-----------------------------------------------------------------------------
(* Properties *)

OrderType == [intent : [act : {"open", "close"}, at : Nat, legs : SUBSET Legs],
              use : {"leg", "flat"}, leg : Legs, side : {"BUY", "SELL"},
              qty : Nat \ {0}, filled : Nat,
              status : {"open", "executed", "cancelled"}]

RowType == [intent : [act : {"open", "close"}, at : Nat, legs : SUBSET Legs],
            kind : Kinds, leg : Legs \cup {NoLeg}, order : Nat, keyed : BOOLEAN]

BookType == [held : [Legs -> Int], open : SUBSET Legs, spent : Nat]

\* Every variable keeps its type: in particular a leg's order id is one the
\* venue gave, from the moment place_order answered.
TypeOK ==
    /\ orders \in Seq(OrderType) /\ lost \subseteq Ids
    /\ journal \subseteq RowType
    /\ op \in [act : {"none", "open", "close"}, at : Nat, legs : SUBSET Legs,
               phase : {"idle", "legs", "rollback"}]
    /\ run \in [Legs -> [pc : {"todo", "answered", "unanswered", "polling"} \cup Done,
                         order : Nat, qty : Nat, priced : BOOLEAN]]
    /\ flats \subseteq op.legs
    /\ {book, saved} \subseteq BookType
    /\ runner \in {"running", "paused"}
    /\ result \in {"none", "FILLED", "ROLLED_BACK", "HALTED", "raised"}
    /\ {clock, tried, attempts, crashes} \subseteq Nat

\* The idempotency read is unambiguous: a leg of a decision has at most one
\* SUBMITTED row, and the order it names is one the venue holds for that leg
\* and that side.  _submit_leg settles whatever order_id_for returns.
TicketsAreReal ==
    \A r \in journal : r.kind = "SUBMITTED" =>
        /\ Tickets(journal, r.intent, r.leg) = {r}
        /\ r.order \in Ids
        /\ orders[r.order].leg = r.leg
        /\ orders[r.order].side = SideOf(r.intent.act, r.leg)

SameTicket(i, j) == /\ orders[i].use = "leg" /\ orders[j].use = "leg"
                    /\ orders[i].intent = orders[j].intent
                    /\ orders[i].leg = orders[j].leg

\* A leg is placed a second time for the same decision only when the id of
\* every earlier order was lost: not answered and never reconciled, or
\* forgotten by a crash.  No interleaving of the two leg threads, replay,
\* rollback or resume places one twice otherwise.
PlacedAgainOnlyIfLost ==
    \A i, j \in Ids : i < j /\ SameTicket(i, j) => i \in lost

\* "A leg is placed at most once per decision" (module docstring).
AtMostOncePerDecision ==
    \A i, j \in Ids : i < j => ~SameTicket(i, j)

\* A rollback starts only when every leg of the structure has a definite
\* answer: no call is unanswered, no ticket still polled.
NoRollbackUnderUncertainty ==
    op.phase = "rollback" =>
        /\ op.act = "open"
        /\ \A l \in op.legs : run[l].pc \in {"todo", "filled", "rejected"}

\* An entry that ends although order i, placed for it, still works at the venue.
LeavesWorking(i) == /\ op.act = "open" /\ op'.act = "none"
                    /\ orders[i].use = "leg" /\ orders[i].intent = Current
                    /\ orders[i].status = "open"

\* "A call that ends without a usable answer ... the structure halts" (module
\* docstring), of the orders its legs follow: an entry that returns while one
\* of them still works leaves the runner paused.  An exception is apart, and
\* so is an order found by reconciliation after it filled in part.
ReturnedUnknownPauses ==
    [][\A i \in Ids :
          /\ LeavesWorking(i) /\ All({"raised"}) = {}
          /\ run[orders[i].leg].order = i
          /\ i \in lost => orders[i].filled = 0
          => runner' = "paused"]_vars

\* The same of every order of the entry: also one whose answer was lost and
\* for which the reconciliation took another.
UnansweredPauses ==
    [][\A i \in Ids :
          LeavesWorking(i) /\ All({"raised"}) = {} /\ crashes = 0
          => runner' = "paused"]_vars

\* "... terminal status with zero fills ... is the only outcome that rolls
\* back" (module docstring): a rejected leg holds nothing.
RollbackOnZeroFills ==
    op.phase = "rollback" =>
        \A l \in All({"rejected"}) : run[l].order # NoOrder =>
            orders[run[l].order].filled = 0

\* An order whose id the process does not hold leaves a trace an operator can
\* reconcile from: a ticket, an UNCERTAIN row for its leg, or the crash that
\* lost it.
NoInvisibleOrder ==
    Durable => \A i \in Ids : orders[i].use = "leg" =>
        \/ \E r \in Tickets(journal, orders[i].intent, orders[i].leg) : r.order = i
        \/ \E r \in journal : /\ r.kind = "UNCERTAIN" /\ r.leg = orders[i].leg
                              /\ r.intent = orders[i].intent
        \/ Busy /\ run[orders[i].leg].order = i
        \/ crashes > 0 /\ i \in lost

\* f[1] + ... + f[n]: a recursive function over the order ids, where a fold
\* over a set would hide from the proofs which order comes next.
Total(f, n) == LET S[k \in 0 .. n] == IF k = 0 THEN 0 ELSE S[k - 1] + f[k] IN S[n]

\* Lots of leg l held at the venue, positive on the side that opens it.
Exposure(l) ==
    Total([i \in Ids |-> IF orders[i].leg = l THEN Positions(orders[i]) ELSE 0],
          Len(orders))

\* The same once every rollback order that is working has filled.
Outcome(o) == IF o.use = "flat" /\ o.status = "open"
              THEN Positions([o EXCEPT !.filled = o.qty]) ELSE Positions(o)
Committed(l) ==
    Total([i \in Ids |-> IF orders[i].leg = l THEN Outcome(orders[i]) ELSE 0],
          Len(orders))

\* No leg is ever held twice over, nor sold through zero by a close or a
\* rollback that flattens what is already flat.
NoReversal == \A l \in Legs : Committed(l) \in 0 .. Qty[l]

\* "crash-replay of the same close finds the already-submitted closing ticket
\* rather than double-closing" (close_structure): two closing orders of a leg
\* that both live or fill have an opening order between them.
NoDoubleClose ==
    LET Closing(i) == /\ orders[i].use = "leg" /\ orders[i].intent.act = "close"
                      /\ orders[i].status # "cancelled"
    IN  \A i, j \in Ids :
          i < j /\ Closing(i) /\ Closing(j) /\ orders[i].leg = orders[j].leg
            => \E k \in i .. j : /\ orders[k].leg = orders[i].leg
                                /\ orders[k].intent.act = "open"

\* A hedged structure is never short more than its long wings, in any order
\* of fills on the way in, out or back.
Held(side) ==
    Total([i \in Ids |-> IF Side[orders[i].leg] = side THEN Positions(orders[i]) ELSE 0],
          Len(orders))
NeverNakedShort == Held("SELL") <= Held("BUY")

\* Between calls, once nothing is working at the venue, the adapter's book
\* is the venue's position, leg by leg.
BookMatchesVenue ==
    (~Busy /\ \A i \in Ids : orders[i].status # "open") =>
        \A l \in Legs : book.held[l] = Exposure(l)

\* The adapter books what was confirmed: "book exact fills" (its docstring).
BooksExactFills ==
    [][OpenFilled => \A l \in Legs :
          book'.held[l] # book.held[l] => book'.held[l] - book.held[l] = run[l].qty]_vars

\* No position outlives its structure: when nothing is open to exit, the
\* book holds nothing ("the local book 1:1 with real exchange exposure").
NothingHeldWhenClosed ==
    book.open = {} => \A l \in Legs : book.held[l] = 0

(* The inductive invariant behind the theorems of LiveOptionsProofs. *)

\* A call owns op, run, flats and the structure it works on.
CallOK ==
    /\ (op.act = "none") <=> (op.phase = "idle")
    /\ op.act = "none" => op = NoCall
    /\ op.act = "open" => op.legs = Legs /\ book.open = {}
    /\ op.act = "close" => op.legs = book.open /\ book.open # {} /\ op.phase = "legs"
    /\ flats # {} => op.phase = "rollback"
    /\ flats \subseteq All({"filled"})

\* What a leg's state says of the order it follows.
LegsOK ==
    \A l \in Legs :
        /\ l \notin op.legs => run[l] = FreshLeg
        /\ run[l].pc = "filled" => run[l].qty # 0
        /\ run[l].pc \in {"answered", "polling"} =>
              /\ run[l].order \in Ids
              /\ orders[run[l].order].leg = l
              /\ orders[run[l].order].side = SideOf(op.act, l)

ExecutedOK == \A i \in Ids : orders[i].status = "executed" => orders[i].filled # 0

\* SUBMITTED rows are keyed, one per leg of a decision, and name real orders.
TicketsOK ==
    \A r \in journal : r.kind = "SUBMITTED" =>
        /\ r.keyed
        /\ r.order \in Ids
        /\ orders[r.order].leg = r.leg
        /\ orders[r.order].side = SideOf(r.intent.act, r.leg)
        /\ \A s \in journal : s.kind = "SUBMITTED" /\ s.intent = r.intent
                               /\ s.leg = r.leg => s = r

\* Off the threaded pair, a leg has left "todo" only if all before it filled.
TurnsOK ==
    op.phase = "legs" /\ ~Paired =>
        \A k, l \in op.legs : Before(k, l) /\ run[l].pc # "todo" => run[k].pc = "filled"

\* An order that is not lost has a ticket, or its leg is about to write one.
OnRecord(i) ==
    \/ Tickets(journal, orders[i].intent, orders[i].leg) # {}
    \/ /\ orders[i].intent = Current
       /\ run[orders[i].leg].pc = "answered" /\ run[orders[i].leg].order = i
HistoryOK == \A i \in Ids : orders[i].use = "leg" /\ i \notin lost => OnRecord(i)

IInv == /\ TypeOK /\ CallOK /\ LegsOK /\ ExecutedOK /\ TicketsOK
        /\ TurnsOK /\ HistoryOK
        /\ NoRollbackUnderUncertainty /\ PlacedAgainOnlyIfLost

(* What the theorems on the trace of an order and on its end add to it. *)

\* A leg whose placement was just answered, or not, has no ticket yet; and a
\* leg follows no order before it has an id.
FreshOK ==
    \A l \in op.legs :
        /\ run[l].pc \in {"answered", "unanswered"} => Tickets(journal, Current, l) = {}
        /\ run[l].pc \in {"todo", "unanswered"} => run[l].order = NoOrder

\* HistoryOK with the order the ticket names.
Ticketed(i) ==
    \/ \E r \in Tickets(journal, orders[i].intent, orders[i].leg) : r.order = i
    \/ /\ orders[i].intent = Current
       /\ run[orders[i].leg].pc = "answered" /\ run[orders[i].leg].order = i
Noted(i) ==
    \/ \E r \in journal : /\ r.kind = "UNCERTAIN" /\ r.leg = orders[i].leg
                         /\ r.intent = orders[i].intent
    \/ crashes > 0
TraceOK == \A i \in Ids : orders[i].use = "leg" =>
              IF i \in lost THEN Durable => Noted(i) ELSE Ticketed(i)

\* A leg that came to a definite end follows an order that came to one too,
\* unless reconciliation read a part of its fill.
EndsOK ==
    \A l \in op.legs :
        run[l].pc \in {"filled", "rejected"} /\ run[l].order # NoOrder =>
            LET o == orders[run[l].order]
            IN  /\ run[l].order \in Ids
                /\ o.status = "open" =>
                      /\ o.filled # 0
                      /\ run[l].order \in lost \/ o.intent # Current \/ o.use = "flat"

TraceInv == IInv /\ FreshOK /\ TraceOK /\ EndsOK

(* What the theorems on positions add to it, on a quiet day: the venue answers *)
(* every call, one entry per bar, no restart.                                  *)

Quiet == Faults = {} /\ TickEntries = FALSE /\ Cooldown = TRUE /\ MaxCrashes = 0

\* A leg follows the one order its call sent for it, to the order's own end.
QuietLegs ==
    \A l \in Legs :
        /\ run[l].pc \in {"todo", "answered", "polling", "filled", "rejected"}
        /\ run[l].order # NoOrder =>
              /\ run[l].order \in Ids
              /\ orders[run[l].order].use = "leg" /\ orders[run[l].order].leg = l
              /\ orders[run[l].order].intent = Current
        /\ run[l].pc \in {"answered", "polling", "filled"} => run[l].order # NoOrder
        /\ run[l].pc = "filled" => /\ run[l].qty = Qty[l] /\ run[l].priced
                                   /\ orders[run[l].order].status = "executed"
        /\ run[l].pc = "rejected" /\ run[l].order # NoOrder =>
              orders[run[l].order].status = "cancelled"

\* What an order is, and that it ends whole or not at all.
QuietOrder(o) ==
    /\ o.qty = Qty[o.leg]
    /\ o.use = "leg"  => o.side = SideOf(o.intent.act, o.leg)
    /\ o.use = "flat" => /\ o.side = Opposite(Side[o.leg]) /\ o.intent.act = "open"
                         /\ o.status # "cancelled"
    /\ o.status = "open" => o.filled < o.qty
    /\ o.status = "executed" => o.filled = o.qty
    /\ o.status = "cancelled" => o.filled = 0

\* Which call an order belongs to: one that still works to the call in
\* progress, and a decision of this bar is never made again on what it did.
Belongs(i) ==
    LET o == orders[i]
        mine == run[o.leg].order = i
    IN  /\ o.intent.at <= clock
        /\ o.intent.act = "open" => o.intent.at <= tried
        /\ o.use = "leg" =>
              /\ o.status = "open" =>
                    mine /\ run[o.leg].pc \in {"answered", "polling"}
              /\ op.act = "open" /\ o.intent = Current => mine
              /\ o.intent.act = "close" /\ o.intent.at = clock /\ o.status # "cancelled" =>
                    /\ mine \/ o.leg \notin book.open
                    /\ book.open # {} \/ book.spent = clock

QuietOrders == \A i \in Ids : QuietOrder(orders[i]) /\ Belongs(i)

TicketsName == \A r \in journal : r.kind = "SUBMITTED" =>
                  orders[r.order].use = "leg" /\ orders[r.order].intent = r.intent

QuietBook ==
    /\ book.held = [l \in Legs |-> IF l \in book.open THEN Qty[l] ELSE 0]
    /\ tried <= clock
    /\ op.act # "none" => op.at = clock
    /\ op.act = "open" => tried = clock /\ book.spent # clock

\* What the call in progress has done to leg l and not booked yet.
Pending(l) ==
    IF op.phase = "rollback" THEN IF l \in flats THEN Qty[l] ELSE 0
    ELSE IF run[l].order = NoOrder THEN 0
    ELSE IF op.act = "close" THEN 0 - orders[run[l].order].filled
    ELSE orders[run[l].order].filled

Accounts == \A l \in Legs : Committed(l) = book.held[l] + Pending(l)

QuietInv == /\ IInv /\ FreshOK
            /\ QuietLegs /\ QuietOrders /\ TicketsName /\ QuietBook /\ Accounts

\* A hedged pair: the short leg stands only on a whole long one, and is never
\* flattened by a rollback.
HedgeOK ==
    \A s, b \in Legs : Side[s] = "SELL" /\ Side[b] = "BUY" =>
        /\ s \in book.open => b \in book.open
        /\ s \notin flats
        /\ \A i \in Ids : orders[i].use = "flat" => orders[i].leg # s

\* The calls as the bridge sees them.
Seam == INSTANCE StructureSeam WITH call <- op.act, open <- book.open,
                                    saved <- saved.open, runner <- runner
ImplementsSeam == Seam!Spec

\* Every call returns: no leg thread, poll or rollback waits for ever.
CallsReturn == Busy ~> ~Busy
=============================================================================
