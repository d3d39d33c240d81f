--------------------------- MODULE LiveOptionsProofs ---------------------------
EXTENDS LiveOptions, TLAPS, SequenceTheorems, WellFoundedInduction

-----------------------------------------------------------------------------
(* The venue and the journal *)

\* record of rows only grows, by at most the row offered.
LEMMA RecordGrows ==
    ASSUME NEW rows, NEW row
    PROVE  /\ rows \subseteq Record(rows, row)
           /\ Record(rows, row) \subseteq rows \cup {row}
    BY DEF Record

LEMMA OrderFacts ==
    ASSUME orders \in Seq(OrderType)
    PROVE  /\ Len(orders) \in Nat
           /\ Ids = 1 .. Len(orders)
           /\ \A i \in Ids : i \in Nat \ {0} /\ orders[i] \in OrderType
    BY DEF Ids

LEMMA Appended ==
    ASSUME orders \in Seq(OrderType), NEW o \in OrderType,
           orders' = Append(orders, o)
    PROVE  /\ orders' \in Seq(OrderType)
           /\ Ids' = Ids \cup {Len(orders) + 1}
           /\ Len(orders) + 1 \notin Ids
           /\ orders'[Len(orders) + 1] = o
           /\ \A i \in Ids : orders'[i] = orders[i]
    BY OrderFacts DEF Ids

\* What never changes of an order, and that no order is ever dropped.
Kept == /\ Ids \subseteq Ids'
        /\ \A i \in Ids : /\ orders'[i].intent = orders[i].intent
                          /\ orders'[i].use = orders[i].use
                          /\ orders'[i].leg = orders[i].leg
                          /\ orders'[i].side = orders[i].side

LEMMA Updated ==
    ASSUME orders \in Seq(OrderType), NEW i \in Ids,
           VenueFill(i) \/ VenueKill(i)
    PROVE  /\ orders' \in Seq(OrderType)
           /\ Ids' = Ids
           /\ Kept
           /\ \A j \in Ids : j # i => orders'[j] = orders[j]
           /\ orders'[i].status \in {"open", "executed"} => orders'[i].filled # 0
           /\ orders[i].status = "open"
<1> DEFINE filled == [orders[i] EXCEPT !.filled = @ + 1,
                                       !.status = IF orders[i].filled + 1 = orders[i].qty
                                                  THEN "executed" ELSE "open"]
           killed == [orders[i] EXCEPT !.status = "cancelled"]
<1>1. orders[i] \in OrderType /\ i \in 1 .. Len(orders)
  BY OrderFacts
<1>2. /\ filled \in OrderType
      /\ filled.intent = orders[i].intent /\ filled.use = orders[i].use
      /\ filled.leg = orders[i].leg /\ filled.side = orders[i].side
      /\ filled.filled # 0
  <2>1. orders[i].filled \in Nat /\ orders[i].filled + 1 \in Nat \ {0}
    BY <1>1 DEF OrderType
  <2>2. filled.filled = orders[i].filled + 1
    BY <1>1 DEF OrderType
  <2> QED BY <1>1, <2>1, <2>2 DEF OrderType
<1>3. /\ killed \in OrderType
      /\ killed.intent = orders[i].intent /\ killed.use = orders[i].use
      /\ killed.leg = orders[i].leg /\ killed.side = orders[i].side
      /\ killed.status = "cancelled"
  BY <1>1 DEF OrderType
<1>4. CASE VenueFill(i)
  <2>1. orders' = [orders EXCEPT ![i] = filled]
    BY <1>1, <1>4, OrderFacts DEF VenueFill
  <2>2. orders[i].status = "open"
    BY <1>4 DEF VenueFill
  <2> QED
    BY <1>1, <1>2, <2>1, <2>2, ExceptSeq, OrderFacts DEF Kept, Ids
<1>5. CASE VenueKill(i)
  <2>1. orders' = [orders EXCEPT ![i] = killed]
    BY <1>1, <1>5, OrderFacts DEF VenueKill
  <2>2. orders[i].status = "open"
    BY <1>5 DEF VenueKill
  <2> QED
    BY <1>1, <1>3, <2>1, <2>2, ExceptSeq, OrderFacts DEF Kept, Ids
<1> QED BY <1>4, <1>5

-----------------------------------------------------------------------------
(* Which steps send orders, and that the venue keeps what it was sent *)

LEMMA WhoSends ==
    ASSUME [Next]_vars
    PROVE  \/ UNCHANGED orders
           \/ \E l \in Legs : PlaceAnswered(l) \/ PlaceUnanswered(l) \/ Flatten(l)
           \/ \E i \in Ids : VenueFill(i) \/ VenueKill(i)
<1>1. CASE UNCHANGED vars
  BY <1>1 DEF vars, venue
<1>2. ASSUME NEW l \in Legs, Submit(l)
      PROVE  UNCHANGED orders \/ PlaceAnswered(l) \/ PlaceUnanswered(l)
  BY <1>2 DEF Submit, ReuseTicket, PlaceRefused, JournalTicket, SettleFilled,
     SettleRejected, SettleTimeout, Settled, ReconcileFound, ReconcileNothing,
     ReadRaises, venue
<1>3. CASE Complete
  BY <1>3 DEF Complete, OpenFilled, OpenHalted, StartRollback, RolledBack,
     CloseFilled, CloseHalted, CallRaises, venue
<1>4. CASE Runner
  BY <1>4 DEF Runner, StartOpen, StartWithoutMargin, StartClose, NextBar, Resume,
     SaveState, Crash, venue
<1> QED BY <1>1, <1>2, <1>3, <1>4 DEF Next, Trader, Venue

LEMMA CurrentType ==
    ASSUME TypeOK, CallOK, op.act # "none"
    PROVE  Current \in [act : {"open", "close"}, at : Nat, legs : SUBSET Legs]
    BY DEF TypeOK, CallOK, Current, Intent, NoCall

LEMMA LegOrderType ==
    ASSUME TypeOK, CallOK, op.act # "none", NEW l \in Legs
    PROVE  /\ LegOrder(l) \in OrderType
           /\ LegOrder(l).use = "leg" /\ LegOrder(l).leg = l
           /\ LegOrder(l).intent = Current
           /\ LegOrder(l).side = SideOf(op.act, l)
           /\ LegOrder(l).status = "open"
    BY CurrentType, LegsAssumption
    DEF OrderType, LegOrder, Order, SideOf, Opposite

LEMMA FlatOrderType ==
    ASSUME TypeOK, CallOK, LegsOK, NEW l \in flats
    PROVE  /\ l \in Legs
           /\ FlatOrder(l) \in OrderType
           /\ FlatOrder(l).use = "flat"
           /\ FlatOrder(l).status = "open"
<1>1. op.act # "none" /\ l \in Legs
  BY DEF TypeOK, CallOK, All
<1>2. run[l].qty \in Nat \ {0}
  BY <1>1 DEF TypeOK, CallOK, LegsOK, All
<1>3. SideOf(op.act, l) \in {"BUY", "SELL"}
  BY <1>1, LegsAssumption DEF SideOf, Opposite
<1> QED
  BY <1>1, <1>2, <1>3, CurrentType DEF OrderType, FlatOrder, Order, Opposite

\* No step changes what an order is, or forgets one.
LEMMA OrdersStep ==
    ASSUME TypeOK, CallOK, LegsOK, ExecutedOK, [Next]_vars
    PROVE  orders' \in Seq(OrderType) /\ Kept /\ ExecutedOK'
<1>1. orders \in Seq(OrderType)
  BY DEF TypeOK
<1>2. CASE UNCHANGED orders
  BY <1>1, <1>2 DEF Kept, ExecutedOK, Ids
<1>3. ASSUME NEW o \in OrderType, o.status = "open", orders' = Append(orders, o)
      PROVE  orders' \in Seq(OrderType) /\ Kept /\ ExecutedOK'
  BY <1>1, <1>3, Appended DEF Kept, ExecutedOK
<1>4. ASSUME NEW l \in Legs, PlaceAnswered(l) \/ PlaceUnanswered(l)
      PROVE  orders' \in Seq(OrderType) /\ Kept /\ ExecutedOK'
  <2>1. op.act # "none"
    BY <1>4 DEF PlaceAnswered, PlaceUnanswered, MayPlace, Leg, CallOK
  <2>2. orders' = Append(orders, LegOrder(l)) \/ UNCHANGED orders
    BY <1>4 DEF PlaceAnswered, PlaceUnanswered, venue
  <2> QED BY <1>2, <1>3, <2>1, <2>2, LegOrderType
<1>5. ASSUME NEW l \in Legs, Flatten(l)
      PROVE  orders' \in Seq(OrderType) /\ Kept /\ ExecutedOK'
  BY <1>2, <1>3, <1>5, FlatOrderType DEF Flatten
<1>6. ASSUME NEW i \in Ids, VenueFill(i) \/ VenueKill(i)
      PROVE  orders' \in Seq(OrderType) /\ Kept /\ ExecutedOK'
  BY <1>1, <1>6, Updated DEF ExecutedOK
<1> QED BY <1>2, <1>4, <1>5, <1>6, WhoSends

-----------------------------------------------------------------------------
(* Type correctness *)

\* What order_id_for answers: the order of a ticket, or that there is none.
LEMMA KnownTicket ==
    ASSUME TypeOK, TicketsOK, NEW l \in Legs
    PROVE  /\ Known(l) = NoOrder => Tickets(journal, Current, l) = {}
           /\ Known(l) # NoOrder =>
                 /\ Known(l) \in Ids
                 /\ orders[Known(l)].leg = l
                 /\ orders[Known(l)].side = SideOf(op.act, l)
<1>1. ASSUME Tickets(journal, Current, l) # {}
      PROVE  /\ Known(l) \in Ids /\ Known(l) # NoOrder
             /\ orders[Known(l)].leg = l
             /\ orders[Known(l)].side = SideOf(op.act, l)
  <2>1. PICK r \in Tickets(journal, Current, l) : Known(l) = r.order
    BY <1>1 DEF Known, OrderIdFor
  <2>2. r \in journal /\ r.kind = "SUBMITTED" /\ r.leg = l /\ r.intent = Current
    BY <2>1 DEF Tickets
  <2>3. Current.act = op.act
    BY DEF Current, Intent
  <2>4. r.order \in Ids /\ r.order \in Nat \ {0}
    BY <2>2, OrderFacts DEF TicketsOK, TypeOK
  <2> QED BY <2>1, <2>2, <2>3, <2>4 DEF TicketsOK, NoOrder
<1> QED BY <1>1 DEF Known, OrderIdFor

LEMMA RowInType ==
    ASSUME NEW i \in [act : {"open", "close"}, at : Nat, legs : SUBSET Legs],
           NEW k \in Kinds, NEW l \in Legs \cup {NoLeg}, NEW o \in Nat
    PROVE  Row(i, k, l, o) \in RowType /\ UnkeyedRow(i, k, l, o) \in RowType
    BY DEF Row, UnkeyedRow, RowType

LEMMA RecordType ==
    ASSUME NEW rows \in SUBSET RowType, NEW row \in RowType
    PROVE  Record(rows, row) \in SUBSET RowType
    BY RecordGrows

\* A leg's bookkeeping step: TypeOK is kept by any change of run and journal
\* that stays in type.
LEMMA SubmitType ==
    ASSUME IInv, NEW l \in Legs, Submit(l)
    PROVE  /\ run' \in [Legs -> [pc : {"todo", "answered", "unanswered", "polling"} \cup Done,
                                 order : Nat, qty : Nat, priced : BOOLEAN]]
           /\ journal' \subseteq RowType
           /\ lost' \subseteq Ids'
           /\ UNCHANGED <<op, flats, local, count>>
<1> DEFINE LegType == [pc : {"todo", "answered", "unanswered", "polling"} \cup Done,
                       order : Nat, qty : Nat, priced : BOOLEAN]
<1> USE DEF IInv
<1>1. /\ run \in [Legs -> LegType] /\ journal \in SUBSET RowType /\ lost \subseteq Ids
      /\ Len(orders) \in Nat
      /\ \A i \in Ids : i \in Nat /\ orders[i] \in OrderType
  BY OrderFacts DEF TypeOK
<1>2. /\ op.act # "none"
      /\ Current \in [act : {"open", "close"}, at : Nat, legs : SUBSET Legs]
      /\ UNCHANGED <<op, flats, local, count>>
  <2>1. op.phase = "legs"
    BY DEF Submit, ReuseTicket, PlaceAnswered, PlaceRefused, PlaceUnanswered, MayPlace,
       JournalTicket, SettleFilled, SettleRejected, SettleTimeout, ReconcileFound,
       ReconcileNothing, ReadRaises, Leg
  <2>2. UNCHANGED <<op, flats, local, count>>
    BY DEF Submit, ReuseTicket, PlaceAnswered, PlaceRefused, PlaceUnanswered,
       JournalTicket, SettleFilled, SettleRejected, SettleTimeout, Settled,
       ReconcileFound, ReconcileNothing, ReadRaises
  <2> QED BY <2>1, <2>2, CurrentType DEF CallOK
<1>3. ASSUME NEW k \in Kinds, NEW o \in Nat, NEW rows \in SUBSET RowType
      PROVE  /\ Row(Current, k, l, o) \in RowType /\ UnkeyedRow(Current, k, l, o) \in RowType
             /\ Record(rows, Row(Current, k, l, o)) \in SUBSET RowType
  BY <1>2, <1>3, RowInType, RecordType
<1>4. CASE UNCHANGED <<venue, journal>> /\ \E pc \in Done : Becomes(l, pc)
  BY <1>1, <1>2, <1>4 DEF Becomes, venue, Ids
<1>5. CASE ReuseTicket(l)
  <2>1. Known(l) \in Nat
    BY <1>1, <1>5, KnownTicket DEF ReuseTicket
  <2> QED BY <1>1, <1>2, <1>5, <2>1 DEF ReuseTicket, venue, Ids
<1>6. CASE PlaceAnswered(l)
  <2>1. Ids \subseteq Ids'
    BY <1>2, <1>6, LegOrderType, Appended DEF PlaceAnswered, TypeOK
  <2>2. ASSUME NEW n \in Nat, run' = [run EXCEPT ![l].pc = "answered", ![l].order = n]
        PROVE  run' \in [Legs -> LegType]
    BY <1>1, <2>2
  <2>3. Len(orders) + 1 \in Nat
           /\ run' = [run EXCEPT ![l].pc = "answered", ![l].order = Len(orders) + 1]
    BY <1>1, <1>6 DEF PlaceAnswered
  <2>4. run' \in [Legs -> LegType]
    BY <2>2, <2>3
  <2> QED BY <1>1, <1>2, <1>6, <2>1, <2>4 DEF PlaceAnswered
<1>7. CASE PlaceRefused(l)
  BY <1>1, <1>2, <1>3, <1>7 DEF PlaceRefused, Becomes, venue, Ids, Kinds, NoOrder, Done
<1>8. CASE PlaceUnanswered(l)
  <2>1. lost' \subseteq Ids'
    BY <1>1, <1>2, <1>8, LegOrderType, Appended DEF PlaceUnanswered, TypeOK, venue, Ids
  <2> QED BY <1>1, <1>2, <1>3, <1>8, <2>1 DEF PlaceUnanswered, MarkUncertain, Becomes, Kinds, NoOrder
<1>9. CASE JournalTicket(l)
  BY <1>1, <1>2, <1>3, <1>9 DEF JournalTicket, WithTicket, Becomes, venue, Ids, Kinds
<1>10. ASSUME NEW k \in {"FILLED", "REJECTED", "UNCERTAIN"}, NEW pc \in Done, NEW q \in Nat,
              NEW b \in BOOLEAN, Settled(l, k, pc, q, b)
       PROVE  run' \in [Legs -> LegType] /\ journal' \subseteq RowType /\ lost' \subseteq Ids'
  BY <1>1, <1>3, <1>10 DEF Settled, venue, Ids, Kinds
<1>11. CASE SettleFilled(l)
  <2>1. orders[run[l].order].filled \in Nat
    BY <1>1, <1>11 DEF SettleFilled, Leg, LegsOK, OrderType
  <2> QED BY <1>2, <1>10, <1>11, <2>1 DEF SettleFilled, Done
<1>12. CASE SettleRejected(l) \/ SettleTimeout(l)
  BY <1>2, <1>10, <1>12 DEF SettleRejected, SettleTimeout, Done
<1>13. CASE ReconcileFound(l)
  <2>1. PICK i \in Reconcilable(l), priced \in BOOLEAN :
           /\ journal' = WithTicket(journal \cup {UnkeyedRow(Current, "RECONCILED", l, i)}, l, i)
           /\ run' = [run EXCEPT ![l] = [pc     |-> Reading(orders[i]),
                                         order  |-> i,
                                         qty    |-> orders[i].filled,
                                         priced |-> priced /\ orders[i].filled > 0]]
    BY <1>13 DEF ReconcileFound
  <2>2. i \in Nat /\ orders[i].filled \in Nat /\ Reading(orders[i]) \in Done
    BY <1>1, <2>1 DEF Reconcilable, OrderType, Reading, Done
  <2>3. UnkeyedRow(Current, "RECONCILED", l, i) \in RowType
    BY <1>1, <1>3, <2>2 DEF Kinds
  <2>4. journal' \subseteq RowType
    BY <1>1, <1>3, <2>1, <2>2, <2>3 DEF WithTicket, Kinds
  <2>5. run' \in [Legs -> LegType]
    BY <1>1, <2>1, <2>2
  <2> QED BY <1>1, <1>2, <1>13, <2>4, <2>5 DEF ReconcileFound, venue, Ids
<1>14. CASE ReconcileNothing(l) \/ ReadRaises(l)
  BY <1>4, <1>14 DEF ReconcileNothing, ReadRaises, Done
<1>15. run' \in [Legs -> LegType] /\ journal' \subseteq RowType /\ lost' \subseteq Ids'
  BY <1>5, <1>6, <1>7, <1>8, <1>9, <1>11, <1>12, <1>13, <1>14 DEF Submit
<1> QED BY <1>2, <1>15

LegStates == [Legs -> [pc : {"todo", "answered", "unanswered", "polling"} \cup Done,
                       order : Nat, qty : Nat, priced : BOOLEAN]]

LEMMA FreshType == [l \in Legs |-> FreshLeg] \in LegStates
    BY DEF LegStates, FreshLeg, NoOrder, Done

\* The steps that start or end a call.
LEMMA CallType ==
    ASSUME IInv, Complete \/ StartOpen \/ StartWithoutMargin \/ StartClose
    PROVE  TypeOK'
<1> USE DEF IInv
<1>1. /\ run \in LegStates /\ journal \in SUBSET RowType /\ lost \subseteq Ids
      /\ book \in BookType /\ saved \in BookType /\ clock \in Nat /\ tried \in Nat
      /\ attempts \in Nat /\ crashes \in Nat
  BY DEF TypeOK, LegStates
<1>2. ASSUME NEW i \in [act : {"open", "close"}, at : Nat, legs : SUBSET Legs],
             NEW k \in Kinds, NEW rows \in SUBSET RowType
      PROVE  Record(rows, Row(i, k, NoLeg, NoOrder)) \in SUBSET RowType
  BY <1>2, RowInType, RecordType DEF NoOrder
<1>3. op.act # "none" => Current \in [act : {"open", "close"}, at : Nat, legs : SUBSET Legs]
  BY CurrentType
<1>4. ASSUME NEW status \in {"FILLED", "ROLLED_BACK", "HALTED", "raised"}, Finish(status)
      PROVE  /\ op' = NoCall /\ flats' = {} /\ run' \in LegStates
             /\ op' \in [act : {"none", "open", "close"}, at : Nat, legs : SUBSET Legs,
                         phase : {"idle", "legs", "rollback"}]
             /\ result' \in {"none", "FILLED", "ROLLED_BACK", "HALTED", "raised"}
  BY <1>4, FreshType DEF Finish, EndCall, NoCall
<1>5. CASE OpenFilled
  <2>1. /\ op.act = "open" /\ \E s \in {"FILLED", "HALTED"} : Finish(s)
        /\ UNCHANGED <<venue, journal, saved, count>>
        /\ runner' \in {"running", "paused"}
    BY <1>5 DEF OpenFilled, TypeOK
  <2>2. book' \in BookType
    BY <1>1, <1>5, LegsAssumption DEF OpenFilled, BookType, TypeOK
  <2> QED BY <1>1, <1>4, <2>1, <2>2 DEF TypeOK, venue, count, Ids, LegStates
<1>6. CASE OpenHalted \/ CloseHalted
  <2>1. /\ op.act # "none" /\ Finish("HALTED") /\ runner' = "paused"
        /\ journal' = Record(journal, Row(Current, "HALTED", NoLeg, NoOrder))
        /\ UNCHANGED <<venue, saved, count>>
    BY <1>6 DEF OpenHalted, CloseHalted, Halt
  <2>2. book' \in BookType
    <3>1. Unheld \in [Legs -> Int] /\ book.open \ ClosedLegs \subseteq Legs
      BY <1>1, LegsAssumption DEF BookType, Unheld
    <3>2. \/ UNCHANGED book
          \/ book' = [book EXCEPT !.held = Unheld, !.open = book.open \ ClosedLegs]
      BY <1>6 DEF OpenHalted, CloseHalted
    <3> QED BY <1>1, <3>1, <3>2 DEF BookType
  <2>3. journal' \in SUBSET RowType
    BY <1>1, <1>2, <1>3, <2>1 DEF Kinds
  <2> QED BY <1>1, <1>4, <2>1, <2>2, <2>3 DEF TypeOK, venue, count, Ids, LegStates
<1>7. CASE StartRollback
  <2>1. op' = [op EXCEPT !.phase = "rollback"] /\ flats' \subseteq op.legs
        /\ UNCHANGED <<venue, journal, run, local, count>>
    BY <1>7 DEF StartRollback, ToFlatten, All
  <2> QED BY <1>1, <2>1 DEF TypeOK, venue, local, count, Ids, LegStates
<1>8. CASE RolledBack \/ CallRaises
  <2>1. /\ \E s \in {"ROLLED_BACK", "raised"} : Finish(s)
        /\ UNCHANGED <<venue, journal, book, saved, runner, count>>
    BY <1>8 DEF RolledBack, CallRaises
  <2> QED BY <1>1, <1>4, <2>1 DEF TypeOK, venue, count, Ids, LegStates
<1>9. CASE CloseFilled
  <2>1. Finish("FILLED") /\ UNCHANGED <<venue, journal, saved, runner, count>>
    BY <1>9 DEF CloseFilled
  <2>2. book' \in BookType
    BY <1>1, <1>9, LegsAssumption DEF CloseFilled, BookType, Unheld, TypeOK
  <2> QED BY <1>1, <1>4, <2>1, <2>2 DEF TypeOK, venue, count, Ids, LegStates
<1>10. CASE StartOpen
  <2>1. Intent("open", clock, Legs) \in [act : {"open", "close"}, at : Nat, legs : SUBSET Legs]
    BY <1>1 DEF Intent
  <2>2. journal' \in SUBSET RowType
    BY <1>1, <1>2, <1>10, <2>1 DEF StartOpen, Begin, Decide, Kinds
  <2>3. flats = {}
    BY <1>10 DEF StartOpen, Begin, Busy, CallOK
  <2> QED BY <1>1, <1>10, <2>2, <2>3, FreshType
          DEF StartOpen, Begin, TypeOK, venue, local, Ids, LegStates
<1>11. CASE StartClose
  <2>1. Intent("close", clock, book.open)
            \in [act : {"open", "close"}, at : Nat, legs : SUBSET Legs]
    BY <1>1 DEF Intent, BookType
  <2>2. journal' \in SUBSET RowType /\ book.open \subseteq Legs
    BY <1>1, <1>2, <1>11, <2>1 DEF StartClose, Begin, Decide, Kinds, BookType
  <2>3. flats = {}
    BY <1>11 DEF StartClose, Begin, Busy, CallOK
  <2> QED BY <1>1, <1>11, <2>2, <2>3, FreshType
          DEF StartClose, Begin, TypeOK, venue, local, Ids, LegStates
<1>12. CASE StartWithoutMargin
  <2>1. Intent("open", clock, Legs) \in [act : {"open", "close"}, at : Nat, legs : SUBSET Legs]
    BY <1>1 DEF Intent
  <2>2. journal' \in SUBSET RowType
    BY <1>1, <1>2, <1>12, <2>1 DEF StartWithoutMargin, Decide, Kinds
  <2> QED BY <1>1, <1>12, <2>2 DEF StartWithoutMargin, TypeOK, venue, call, Ids, LegStates
<1> QED
  BY <1>5, <1>6, <1>7, <1>8, <1>9, <1>10, <1>11, <1>12 DEF Complete

\* Type correctness is kept by every step.
LEMMA TypeStep == IInv /\ [Next]_vars => TypeOK'
<1> SUFFICES ASSUME IInv, [Next]_vars
             PROVE  TypeOK'
  OBVIOUS
<1> USE DEF IInv
<1>1. orders' \in Seq(OrderType) /\ Ids \subseteq Ids'
  BY OrdersStep DEF Kept
<1>2. CASE UNCHANGED vars
  BY <1>2 DEF TypeOK, vars, venue, call, local, count, Ids
<1>3. ASSUME NEW l \in Legs, Submit(l)
      PROVE  TypeOK'
  <2>1. UNCHANGED <<op, flats, local, count>>
    BY <1>3, SubmitType
  <2>2. op' = op /\ flats' = flats /\ book' = book /\ saved' = saved /\ runner' = runner
        /\ result' = result /\ clock' = clock /\ tried' = tried /\ attempts' = attempts
        /\ crashes' = crashes
    BY <2>1 DEF local, count
  <2> QED BY <1>1, <1>3, <2>2, SubmitType DEF TypeOK
<1>4. ASSUME NEW l \in Legs, Flatten(l)
      PROVE  TypeOK'
  BY <1>1, <1>4 DEF Flatten, TypeOK, local, count
<1>5. ASSUME NEW i \in Ids, VenueFill(i) \/ VenueKill(i)
      PROVE  TypeOK'
  BY <1>1, <1>5 DEF VenueFill, VenueKill, TypeOK, call, local, count
<1>6. CASE NextBar \/ Resume \/ SaveState
  BY <1>6 DEF NextBar, Resume, SaveState, TypeOK, venue, call, local, count, Ids
<1>7. CASE Crash
  <2>1. /\ op' = NoCall /\ flats' = {} /\ run' \in LegStates /\ Ids' = Ids
        /\ journal' \subseteq RowType
        /\ UNCHANGED <<saved, clock, attempts>>
        /\ tried' = 0 /\ result' = "none" /\ runner' = "paused"
        /\ crashes' \in Nat
    BY <1>7, FreshType DEF Crash, EndCall, TypeOK, Ids
  <2>2. book' \in BookType
    BY <1>7 DEF Crash, TypeOK, BookType
  <2>3. lost' \subseteq Ids
    BY <1>7 DEF Crash, TypeOK, All, LegsOK
  <2> QED BY <1>1, <2>1, <2>2, <2>3 DEF TypeOK, LegStates, NoCall
<1> QED
  BY <1>2, <1>3, <1>4, <1>5, <1>6, <1>7, CallType DEF Next, Trader, Venue, Runner

-----------------------------------------------------------------------------
(* The call and its legs *)

\* Submitting a leg happens in the legs phase and moves that leg alone.
LEMMA SubmitFrame ==
    ASSUME IInv, NEW l \in Legs, Submit(l)
    PROVE  /\ op.phase = "legs" /\ op.act # "none" /\ l \in op.legs
           /\ run[l].pc \in {"todo", "answered", "unanswered", "polling"}
           /\ op' = op /\ flats' = flats /\ book' = book
           /\ saved' = saved /\ runner' = runner
           /\ \A k \in Legs \ {l} : run'[k] = run[k]
<1> USE DEF IInv
<1>1. /\ op.phase = "legs" /\ l \in op.legs
      /\ run[l].pc \in {"todo", "answered", "unanswered", "polling"}
  BY DEF Submit, ReuseTicket, PlaceAnswered, PlaceRefused, PlaceUnanswered, MayPlace,
     JournalTicket, SettleFilled, SettleRejected, SettleTimeout, ReconcileFound,
     ReconcileNothing, ReadRaises, Leg
<1>2. run \in LegStates /\ run' \in LegStates
  BY SubmitType DEF TypeOK, LegStates
<1>3. \A k \in Legs \ {l} : run'[k] = run[k]
  BY <1>2 DEF LegStates, Submit, ReuseTicket, PlaceAnswered, PlaceRefused, PlaceUnanswered,
     JournalTicket, SettleFilled, SettleRejected, SettleTimeout, Settled, ReconcileFound,
     ReconcileNothing, ReadRaises, Becomes
<1>4. UNCHANGED <<op, flats, local>>
  BY SubmitType
<1> QED BY <1>1, <1>3, <1>4 DEF local, CallOK

\* A step that ends a call, and a crash, leave no call behind.
NoCallLeft == op' = NoCall /\ flats' = {} /\ run' = [l \in Legs |-> FreshLeg]

LEMMA Ending ==
    ASSUME OpenFilled \/ OpenHalted \/ RolledBack \/ CloseFilled \/ CloseHalted
           \/ CallRaises \/ Crash
    PROVE  NoCallLeft
    BY DEF OpenFilled, OpenHalted, RolledBack, CloseFilled, CloseHalted, CallRaises,
       Crash, Halt, Finish, EndCall, NoCallLeft

LEMMA CallStep == IInv /\ [Next]_vars => CallOK'
<1> SUFFICES ASSUME IInv, [Next]_vars
             PROVE  CallOK'
  OBVIOUS
<1> USE DEF IInv
<1>1. CASE UNCHANGED <<op, run, flats, book>>
  BY <1>1 DEF CallOK, All
<1>2. ASSUME NEW l \in Legs, Submit(l)
      PROVE  CallOK'
  BY <1>2, SubmitFrame DEF CallOK
<1>3. ASSUME NEW l \in Legs, Flatten(l)
      PROVE  CallOK'
  BY <1>3 DEF Flatten, CallOK, All, local
<1>4. CASE NoCallLeft
  BY <1>4 DEF NoCallLeft, CallOK, NoCall
<1>5. CASE StartRollback
  BY <1>5 DEF StartRollback, Returned, Joined, ToFlatten, CallOK, All, local, TypeOK
<1>6. CASE StartOpen
  BY <1>6 DEF StartOpen, MayEnter, Begin, Busy, CallOK, local
<1>7. CASE StartClose
  BY <1>7 DEF StartClose, Begin, Busy, CallOK, local
<1>8. CASE Venue \/ StartWithoutMargin \/ NextBar \/ Resume \/ SaveState \/ UNCHANGED vars
  BY <1>1, <1>8 DEF Venue, VenueFill, VenueKill, StartWithoutMargin, NextBar, Resume,
     SaveState, vars, call, local
<1> QED
  BY <1>2, <1>3, <1>4, <1>5, <1>6, <1>7, <1>8, Ending DEF Next, Trader, Complete, Runner

LEMMA LegsStep == IInv /\ [Next]_vars => LegsOK'
<1> SUFFICES ASSUME IInv, [Next]_vars
             PROVE  LegsOK'
  OBVIOUS
<1> USE DEF IInv
<1>0. Kept
  BY OrdersStep
<1>1. CASE op'.act = op.act /\ op'.legs = op.legs /\ UNCHANGED run
  BY <1>0, <1>1 DEF LegsOK, Kept, SideOf
<1>2. ASSUME NEW l \in Legs, Submit(l)
      PROVE  LegsOK'
  <2> DEFINE Follows == run'[l].pc \in {"answered", "polling"} =>
                           /\ run'[l].order \in Ids'
                           /\ orders'[run'[l].order].leg = l
                           /\ orders'[run'[l].order].side = SideOf(op.act, l)
             Whole == run'[l].pc = "filled" => run'[l].qty # 0
  <2>1. run \in LegStates
    BY DEF TypeOK, LegStates
  <2>2. op' = op /\ op.act # "none" /\ l \in op.legs /\ \A k \in Legs \ {l} : run'[k] = run[k]
    BY <1>2, SubmitFrame
  <2>3. ASSUME ReuseTicket(l)  PROVE Follows /\ Whole
    BY <1>0, <2>1, <2>3, KnownTicket DEF ReuseTicket, Kept, LegStates
  <2>4. ASSUME PlaceAnswered(l)  PROVE Follows /\ Whole
    <3>1. orders' = Append(orders, LegOrder(l)) /\ LegOrder(l) \in OrderType
          /\ LegOrder(l).leg = l /\ LegOrder(l).side = SideOf(op.act, l)
      BY <2>2, <2>4, LegOrderType DEF PlaceAnswered
    <3>2. run'[l].pc = "answered" /\ run'[l].order = Len(orders) + 1
      BY <2>1, <2>4 DEF PlaceAnswered, LegStates
    <3> QED BY <3>1, <3>2, Appended DEF TypeOK
  <2>5. ASSUME JournalTicket(l)  PROVE Follows /\ Whole
    BY <1>0, <2>1, <2>5 DEF JournalTicket, Leg, Becomes, LegsOK, Kept, LegStates
  <2>6. ASSUME \/ PlaceRefused(l) \/ PlaceUnanswered(l) \/ ReconcileNothing(l)
               \/ ReadRaises(l) \/ SettleRejected(l) \/ SettleTimeout(l)
        PROVE Follows /\ Whole
    BY <2>1, <2>6 DEF PlaceRefused, PlaceUnanswered, ReconcileNothing, ReadRaises,
       SettleRejected, SettleTimeout, Settled, Becomes, LegStates
  <2>7. ASSUME SettleFilled(l)  PROVE Follows /\ Whole
    <3>1. run[l].order \in Ids /\ orders[run[l].order].filled # 0
      BY <2>7 DEF SettleFilled, Leg, LegsOK, ExecutedOK
    <3> QED BY <2>1, <2>7, <3>1 DEF SettleFilled, Settled, LegStates
  <2>8. ASSUME ReconcileFound(l)  PROVE Follows /\ Whole
    <3>1. PICK i \in Reconcilable(l) : /\ run'[l].pc = Reading(orders[i])
                                       /\ run'[l].qty = orders[i].filled
      BY <2>1, <2>8 DEF ReconcileFound, LegStates
    <3>2. orders[i].filled \in Nat
      BY OrderFacts DEF Reconcilable, TypeOK, OrderType
    <3> QED BY <3>1, <3>2 DEF Reading
  <2>9. Follows /\ Whole
    BY <1>2, <2>3, <2>4, <2>5, <2>6, <2>7, <2>8 DEF Submit
  <2> QED BY <1>0, <2>2, <2>9 DEF LegsOK, Kept, SideOf
<1>3. CASE run' = [l \in Legs |-> FreshLeg]
  BY <1>3 DEF LegsOK, FreshLeg
<1>4. ASSUME NEW l \in Legs, Flatten(l)
      PROVE  LegsOK'
  BY <1>1, <1>4 DEF Flatten
<1>5. CASE StartRollback
  BY <1>1, <1>5 DEF StartRollback, TypeOK
<1>6. CASE NoCallLeft \/ StartOpen \/ StartClose
  BY <1>3, <1>6 DEF NoCallLeft, StartOpen, StartClose, Begin
<1>7. CASE Venue \/ StartWithoutMargin \/ NextBar \/ Resume \/ SaveState \/ UNCHANGED vars
  BY <1>1, <1>7 DEF Venue, VenueFill, VenueKill, StartWithoutMargin, NextBar, Resume,
     SaveState, vars, call, local
<1> QED
  BY <1>2, <1>4, <1>5, <1>6, <1>7, Ending DEF Next, Trader, Complete, Runner

-----------------------------------------------------------------------------
(* The journal *)

Submitted(rows) == {r \in rows : r.kind = "SUBMITTED"}

\* Only a crash of a process without the database forgets a row, and only
\* the two steps that learn an order id write a ticket.
LEMMA WhoWrites ==
    ASSUME [Next]_vars
    PROVE  /\ journal \subseteq journal' \/ Crash
           /\ \/ Submitted(journal') \subseteq Submitted(journal)
              \/ \E l \in Legs : JournalTicket(l) \/ ReconcileFound(l)
<1> DEFINE Goal == /\ journal \subseteq journal' \/ Crash
                   /\ \/ Submitted(journal') \subseteq Submitted(journal)
                      \/ \E l \in Legs : JournalTicket(l) \/ ReconcileFound(l)
<1>1. CASE UNCHANGED journal
  BY <1>1
<1>2. ASSUME NEW i, NEW k, k # "SUBMITTED", NEW l, NEW o, NEW rows
      PROVE  /\ rows \subseteq Record(rows, Row(i, k, l, o))
             /\ Submitted(Record(rows, Row(i, k, l, o))) \subseteq Submitted(rows)
  BY <1>2, RecordGrows DEF Row, Submitted
<1>3. ASSUME NEW l \in Legs, Submit(l)
      PROVE  Goal
  <2>1. CASE JournalTicket(l)
    BY <2>1, RecordGrows DEF JournalTicket, WithTicket
  <2>5. CASE ReconcileFound(l)
    <3>1. PICK i \in Reconcilable(l) :
             journal' = WithTicket(journal \cup {UnkeyedRow(Current, "RECONCILED", l, i)}, l, i)
      BY <2>5 DEF ReconcileFound
    <3> QED BY <2>5, <3>1, RecordGrows DEF WithTicket
  <2>2. CASE PlaceUnanswered(l)
    BY <2>2 DEF PlaceUnanswered, MarkUncertain, UnkeyedRow, Row, Submitted
  <2>3. CASE PlaceRefused(l) \/ SettleFilled(l) \/ SettleRejected(l) \/ SettleTimeout(l)
    BY <1>2, <2>3 DEF PlaceRefused, SettleFilled, SettleRejected, SettleTimeout, Settled
  <2>4. CASE ReuseTicket(l) \/ PlaceAnswered(l) \/ ReconcileNothing(l) \/ ReadRaises(l)
    BY <1>1, <2>4 DEF ReuseTicket, PlaceAnswered, ReconcileNothing, ReadRaises
  <2> QED BY <1>3, <2>1, <2>2, <2>3, <2>4, <2>5 DEF Submit
<1>4. CASE StartOpen \/ StartClose \/ OpenHalted \/ CloseHalted
  BY <1>2, <1>4 DEF StartOpen, StartClose, Begin, Decide, OpenHalted, CloseHalted, Halt
<1>5. CASE StartWithoutMargin
  <2>1. journal' = Record(Decide(Intent("open", clock, Legs)),
                          Row(Intent("open", clock, Legs), "REJECTED", NoLeg, NoOrder))
    BY <1>5 DEF StartWithoutMargin
  <2> QED BY <1>2, <2>1 DEF Decide
<1>6. CASE Crash
  BY <1>6 DEF Crash, Submitted
<1>7. ASSUME \/ Venue \/ UNCHANGED vars \/ NextBar \/ Resume \/ SaveState
             \/ OpenFilled \/ StartRollback \/ RolledBack \/ CloseFilled \/ CallRaises
             \/ \E l \in Legs : Flatten(l)
      PROVE  UNCHANGED journal
  BY <1>7 DEF Venue, VenueFill, VenueKill, vars, NextBar, Resume, SaveState, OpenFilled,
     StartRollback, RolledBack, CloseFilled, CallRaises, Flatten
<1> QED
  BY <1>1, <1>3, <1>4, <1>5, <1>6, <1>7 DEF Next, Trader, Runner, Complete

LEMMA TicketsStep == IInv /\ [Next]_vars => TicketsOK'
<1> SUFFICES ASSUME IInv, [Next]_vars
             PROVE  TicketsOK'
  OBVIOUS
<1> USE DEF IInv
<1>0. Kept /\ journal' \subseteq RowType /\ journal \subseteq RowType
  BY OrdersStep, TypeStep DEF TypeOK
<1>1. CASE Submitted(journal') \subseteq Submitted(journal)
  BY <1>0, <1>1 DEF TicketsOK, Kept, Submitted, SideOf
<1>2. ASSUME NEW l \in Legs, NEW i \in Ids, NEW rows,
             orders[i].leg = l, orders[i].side = SideOf(op.act, l),
             Submitted(rows) = Submitted(journal),
             journal' = WithTicket(rows, l, i)
      PROVE  TicketsOK'
  <2> DEFINE row == Row(Current, "SUBMITTED", l, i)
  <2>1. /\ row.keyed /\ row.order = i /\ row.leg = l /\ row.intent = Current
        /\ row.intent.act = op.act /\ row.kind = "SUBMITTED"
    BY DEF Row, Current, Intent
  <2>2. CASE \E r \in rows : SameKey(r, row)
    <3>1. journal' = rows
      BY <1>2, <2>2 DEF WithTicket, Record
    <3> QED BY <1>1, <1>2, <3>1
  <2>3. CASE ~ \E r \in rows : SameKey(r, row)
    <3>1. Submitted(journal') = Submitted(journal) \cup {row}
      BY <1>2, <2>1, <2>3 DEF WithTicket, Record, Submitted
    <3>2. \A s \in Submitted(journal) : s.intent = row.intent => s.leg # row.leg
      BY <1>2, <2>1, <2>3 DEF Submitted, SameKey, TicketsOK
    <3> QED BY <1>0, <1>2, <2>1, <3>1, <3>2 DEF TicketsOK, Kept, Submitted, SideOf
  <2> QED BY <2>2, <2>3
<1>3. ASSUME NEW l \in Legs, JournalTicket(l)
      PROVE  TicketsOK'
  BY <1>2, <1>3 DEF JournalTicket, Leg, LegsOK
<1>4. ASSUME NEW l \in Legs, ReconcileFound(l)
      PROVE  TicketsOK'
  <2>1. PICK i \in Reconcilable(l) :
           journal' = WithTicket(journal \cup {UnkeyedRow(Current, "RECONCILED", l, i)}, l, i)
    BY <1>4 DEF ReconcileFound
  <2>2. /\ i \in Ids /\ orders[i].leg = l /\ orders[i].side = SideOf(op.act, l)
    BY DEF Reconcilable, SamePacket, LegOrder, Order
  <2>3. Submitted(journal \cup {UnkeyedRow(Current, "RECONCILED", l, i)}) = Submitted(journal)
    BY DEF Submitted, UnkeyedRow, Row
  <2> QED BY <1>2, <2>1, <2>2, <2>3
<1> QED BY <1>1, <1>3, <1>4, WhoWrites

-----------------------------------------------------------------------------
(* The order in which legs go out *)

\* A leg leaves "todo" only in its turn.
LEMMA LeavesInTurn ==
    ASSUME NEW l \in Legs, Submit(l)
    PROVE  run[l].pc = "todo" => Turn(l)
    BY DEF Submit, ReuseTicket, PlaceAnswered, PlaceRefused, PlaceUnanswered, MayPlace,
       JournalTicket, SettleFilled, SettleRejected, SettleTimeout, ReconcileFound,
       ReconcileNothing, ReadRaises, Leg

LEMMA TurnsStep == IInv /\ [Next]_vars => TurnsOK'
<1> SUFFICES ASSUME IInv, [Next]_vars
             PROVE  TurnsOK'
  OBVIOUS
<1> USE DEF IInv
<1>1. CASE op' = op /\ run' = run
  BY <1>1 DEF TurnsOK, Paired, Before, SideOf
<1>2. ASSUME NEW l \in Legs, Submit(l)
      PROVE  TurnsOK'
  <2>1. /\ op' = op /\ op.phase = "legs" /\ l \in op.legs
        /\ run[l].pc # "filled"
        /\ \A k \in Legs \ {l} : run'[k] = run[k]
    BY <1>2, SubmitFrame
  <2>2. op.legs \subseteq Legs
    BY DEF TypeOK
  <2>3. SUFFICES ASSUME ~Paired, NEW j \in op.legs, NEW k \in op.legs, Before(j, k),
                        run'[k].pc # "todo"
                 PROVE  run'[j].pc = "filled"
    BY <2>1 DEF TurnsOK, Paired, Before, SideOf
  <2>4. j # k
    <3>1. k \in Nat
      BY <2>2, LegsAssumption
    <3>2. j = k => ~Before(j, k)
      BY <3>1 DEF Before
    <3> QED BY <2>3, <3>2
  <2>5. CASE k = l
    <3>1. run[j].pc = "filled"
      BY <1>2, <2>1, <2>3, <2>5, LeavesInTurn DEF TurnsOK, Turn
    <3> QED BY <2>1, <2>2, <2>4, <2>5, <3>1
  <2>6. CASE k # l
    <3>1. run[j].pc = "filled"
      BY <2>1, <2>2, <2>3, <2>6 DEF TurnsOK
    <3> QED BY <2>1, <2>2, <3>1
  <2> QED BY <2>5, <2>6
<1>3. CASE StartOpen \/ StartClose
  BY <1>3 DEF StartOpen, StartClose, Begin, TurnsOK, FreshLeg, TypeOK, BookType
<1>4. CASE op'.phase # "legs"
  BY <1>4 DEF TurnsOK
<1>5. ASSUME NEW l \in Legs, Flatten(l)
      PROVE  TurnsOK'
  BY <1>1, <1>5 DEF Flatten
<1>6. CASE StartRollback \/ NoCallLeft
  BY <1>4, <1>6 DEF StartRollback, NoCallLeft, NoCall, TypeOK
<1>7. CASE Venue \/ StartWithoutMargin \/ NextBar \/ Resume \/ SaveState \/ UNCHANGED vars
  BY <1>1, <1>7 DEF Venue, VenueFill, VenueKill, StartWithoutMargin, NextBar, Resume,
     SaveState, vars, call, local
<1> QED
  BY <1>2, <1>3, <1>5, <1>6, <1>7, Ending DEF Next, Trader, Complete, Runner

-----------------------------------------------------------------------------
(* Rollbacks *)

LEMMA RollbackStep == IInv /\ [Next]_vars => NoRollbackUnderUncertainty'
<1> SUFFICES ASSUME IInv, [Next]_vars
             PROVE  NoRollbackUnderUncertainty'
  OBVIOUS
<1> USE DEF IInv
<1>1. CASE op' = op /\ run' = run
  BY <1>1 DEF NoRollbackUnderUncertainty
<1>2. CASE op'.phase # "rollback"
  BY <1>2 DEF NoRollbackUnderUncertainty
<1>3. ASSUME NEW l \in Legs, Submit(l)
      PROVE  NoRollbackUnderUncertainty'
  BY <1>2, <1>3, SubmitFrame
<1>4. CASE StartRollback
  <2>1. /\ op' = [op EXCEPT !.phase = "rollback"] /\ run' = run /\ op.act = "open"
        /\ op.phase = "legs"
        /\ All({"raised"}) = {} /\ All({"uncertain"}) = {}
        /\ All(Done) = op.legs \/ (~Paired /\ Failed # {})
    BY <1>4 DEF StartRollback, Returned, Joined, local
  <2>2. op'.act = "open" /\ op'.legs = op.legs /\ op.legs \subseteq Legs
    BY <2>1 DEF TypeOK
  <2>3. CASE All(Done) = op.legs
    BY <2>1, <2>2, <2>3 DEF NoRollbackUnderUncertainty, All, Done
  <2>4. CASE ~Paired /\ Failed # {}
    <3>1. PICK f \in op.legs : run[f].pc \in {"rejected", "uncertain", "raised"}
      BY <2>4 DEF Failed, All
    <3>2. run[f].pc = "rejected"
      BY <2>1, <3>1 DEF All
    <3>3. ASSUME NEW l \in op.legs
          PROVE  run[l].pc \in {"todo", "filled", "rejected"}
      <4>1. CASE l = f
        BY <3>2, <4>1
      <4>2. CASE Before(f, l)
        BY <2>1, <2>4, <3>2, <4>2 DEF TurnsOK
      <4>3. CASE Before(l, f)
        BY <2>1, <2>4, <3>2, <4>3 DEF TurnsOK
      <4>4. l = f \/ Before(f, l) \/ Before(l, f)
        <5>1. l \in Nat /\ f \in Nat /\ SideOf(op.act, l) \in {"BUY", "SELL"}
              /\ SideOf(op.act, f) \in {"BUY", "SELL"}
          BY <2>2, LegsAssumption DEF SideOf, Opposite
        <5> QED BY <5>1 DEF Before
      <4> QED BY <4>1, <4>2, <4>3, <4>4
    <3> QED BY <2>1, <2>2, <3>3 DEF NoRollbackUnderUncertainty
  <2> QED BY <2>1, <2>3, <2>4
<1>5. ASSUME NEW l \in Legs, Flatten(l)
      PROVE  NoRollbackUnderUncertainty'
  BY <1>1, <1>5 DEF Flatten
<1>6. CASE StartOpen \/ StartClose \/ NoCallLeft
  BY <1>2, <1>6 DEF StartOpen, StartClose, Begin, NoCallLeft, NoCall
<1>7. CASE Venue \/ StartWithoutMargin \/ NextBar \/ Resume \/ SaveState \/ UNCHANGED vars
  BY <1>1, <1>7 DEF Venue, VenueFill, VenueKill, StartWithoutMargin, NextBar, Resume,
     SaveState, vars, call, local
<1> QED
  BY <1>3, <1>4, <1>5, <1>6, <1>7, Ending DEF Next, Trader, Complete, Runner

-----------------------------------------------------------------------------
(* The history of placements *)

\* A call ends with no leg under way.
LEMMA NoneWaits ==
    ASSUME IInv, NEW l \in Legs,
           OpenFilled \/ CloseFilled \/ RolledBack \/ OpenHalted \/ CloseHalted
           \/ CallRaises \/ StartOpen \/ StartClose
    PROVE  run[l].pc \notin {"answered", "unanswered", "polling"}
<1> USE DEF IInv
<1>1. CASE l \notin op.legs
  BY <1>1 DEF LegsOK, FreshLeg
<1>2. CASE l \in op.legs /\ (OpenFilled \/ CloseFilled)
  BY <1>2 DEF OpenFilled, CloseFilled, AllFilled, All
<1>3. CASE l \in op.legs /\ RolledBack
  BY <1>3 DEF RolledBack, NoRollbackUnderUncertainty
<1>4. CASE l \in op.legs /\ (StartOpen \/ StartClose)
  BY <1>4 DEF StartOpen, StartClose, Begin, Busy, CallOK, NoCall
<1>5. CASE l \in op.legs /\ (OpenHalted \/ CloseHalted \/ CallRaises)
  <2>1. Joined
    BY <1>5 DEF OpenHalted, CloseHalted, CallRaises, Returned
  <2>2. CASE Paired
    BY <1>5, <2>1, <2>2 DEF Joined, All, Done
  <2>3. CASE ~Paired
    <3>1. PICK f \in op.legs : run[f].pc \in {"rejected", "uncertain", "raised"}
      BY <2>1 DEF Joined, Failed, All
    <3>2. CASE l = f
      BY <3>1, <3>2
    <3>3. CASE Before(f, l)
      BY <1>5, <2>1, <2>3, <3>1, <3>3 DEF TurnsOK, Joined
    <3>4. CASE Before(l, f)
      BY <1>5, <2>1, <2>3, <3>1, <3>4 DEF TurnsOK, Joined
    <3>5. l = f \/ Before(f, l) \/ Before(l, f)
      <4>1. l \in Nat /\ f \in Nat /\ SideOf(op.act, l) \in {"BUY", "SELL"}
            /\ SideOf(op.act, f) \in {"BUY", "SELL"}
        BY LegsAssumption DEF SideOf, Opposite, TypeOK
      <4> QED BY <4>1 DEF Before
    <3> QED BY <3>2, <3>3, <3>4, <3>5
  <2> QED BY <2>2, <2>3
<1> QED BY <1>1, <1>2, <1>3, <1>4, <1>5

LEMMA NoneAnswered ==
    ASSUME IInv, NEW l \in Legs,
           OpenFilled \/ CloseFilled \/ RolledBack \/ OpenHalted \/ CloseHalted
           \/ CallRaises \/ StartOpen \/ StartClose
    PROVE  run[l].pc # "answered"
    BY NoneWaits

\* Once written, a ticket makes its leg known.
LEMMA TicketFound ==
    ASSUME NEW rows, NEW l, NEW i
    PROVE  Tickets(WithTicket(rows, l, i), Current, l) # {}
<1> DEFINE row == Row(Current, "SUBMITTED", l, i)
<1>1. row.intent = Current /\ row.kind = "SUBMITTED" /\ row.leg = l
  BY DEF Row
<1>2. CASE \E r \in rows : SameKey(r, row)
  BY <1>1, <1>2 DEF WithTicket, Record, SameKey, Tickets
<1>3. CASE ~ \E r \in rows : SameKey(r, row)
  <2>1. row \in WithTicket(rows, l, i)
    BY <1>3 DEF WithTicket, Record
  <2> QED BY <1>1, <2>1 DEF Tickets
<1> QED BY <1>2, <1>3

\* What a step may add to the venue: an order of the leg it places, whose id
\* the step learns or loses, or a rollback order.
LEMMA NewOrder ==
    ASSUME IInv, [Next]_vars, NEW j \in Ids' \ Ids, orders'[j].use = "leg"
    PROVE  \E l \in Legs :
              /\ PlaceAnswered(l) \/ PlaceUnanswered(l)
              /\ j = Len(orders) + 1
              /\ orders'[j].intent = Current /\ orders'[j].leg = l
<1> USE DEF IInv
<1>1. orders \in Seq(OrderType)
  BY DEF TypeOK
<1>2. ~UNCHANGED orders
  BY DEF Ids
<1>3. ASSUME NEW l \in Legs, PlaceAnswered(l) \/ PlaceUnanswered(l)
      PROVE  j = Len(orders) + 1 /\ orders'[j].intent = Current /\ orders'[j].leg = l
  <2>1. op.act # "none" /\ orders' = Append(orders, LegOrder(l))
    BY <1>2, <1>3 DEF PlaceAnswered, PlaceUnanswered, MayPlace, Leg, CallOK, venue
  <2> QED BY <1>1, <2>1, LegOrderType, Appended
<1>4. ASSUME NEW l \in Legs, Flatten(l)
      PROVE  FALSE
  <2>1. orders' = Append(orders, FlatOrder(l)) /\ l \in flats
    BY <1>2, <1>4 DEF Flatten
  <2> QED BY <1>1, <2>1, FlatOrderType, Appended
<1>5. ASSUME NEW i \in Ids, VenueFill(i) \/ VenueKill(i)
      PROVE  FALSE
  BY <1>1, <1>5, Updated
<1> QED BY <1>2, <1>3, <1>4, <1>5, WhoSends

LEMMA LostGrows ==
    ASSUME IInv, [Next]_vars
    PROVE  lost \subseteq lost'
<1>1. ASSUME NEW l \in Legs, Submit(l)
      PROVE  lost \subseteq lost'
  BY <1>1 DEF Submit, ReuseTicket, PlaceAnswered, PlaceRefused, PlaceUnanswered,
     JournalTicket, SettleFilled, SettleRejected, SettleTimeout, Settled,
     ReconcileFound, ReconcileNothing, ReadRaises, venue
<1>2. CASE Complete
  BY <1>2 DEF Complete, OpenFilled, OpenHalted, StartRollback, RolledBack, CloseFilled,
     CloseHalted, CallRaises, venue
<1>3. CASE Crash
  BY <1>3 DEF Crash, IInv, TypeOK
<1>4. CASE Venue \/ UNCHANGED vars \/ \E l \in Legs : Flatten(l)
  BY <1>4 DEF Venue, VenueFill, VenueKill, vars, venue, Flatten
<1>5. CASE StartOpen \/ StartWithoutMargin \/ StartClose \/ NextBar \/ Resume \/ SaveState
  BY <1>5 DEF StartOpen, StartWithoutMargin, StartClose, NextBar, Resume, SaveState, venue
<1> QED BY <1>1, <1>2, <1>3, <1>4, <1>5 DEF Next, Trader, Runner

LEMMA HistoryStep == IInv /\ [Next]_vars => HistoryOK'
<1> SUFFICES ASSUME IInv, [Next]_vars, NEW j \in Ids', orders'[j].use = "leg", j \notin lost'
             PROVE  OnRecord(j)'
  BY DEF HistoryOK
<1> USE DEF IInv
<1>0. Kept /\ run \in LegStates
  BY OrdersStep DEF TypeOK, LegStates
<1>1. CASE j \notin Ids
  <2>1. PICK l \in Legs : /\ PlaceAnswered(l) \/ PlaceUnanswered(l)
                          /\ j = Len(orders) + 1
                          /\ orders'[j].intent = Current /\ orders'[j].leg = l
    BY <1>1, NewOrder
  <2>2. PlaceAnswered(l)
    BY <1>1, <2>1 DEF PlaceUnanswered, venue, Ids
  <2>3. run'[l].pc = "answered" /\ run'[l].order = j /\ op' = op
    BY <1>0, <2>1, <2>2 DEF PlaceAnswered, LegStates
  <2> QED BY <2>1, <2>3 DEF OnRecord, Current
<1>2. CASE j \in Ids
  <2>1. /\ orders'[j].intent = orders[j].intent /\ orders'[j].leg = orders[j].leg
        /\ orders[j].use = "leg" /\ j \notin lost /\ orders[j].leg \in Legs
    BY <1>0, <1>2, LostGrows, OrderFacts DEF Kept, TypeOK, OrderType
  <2>2. OnRecord(j)
    BY <1>2, <2>1 DEF HistoryOK
  <2> DEFINE leg == orders[j].leg
  <2>3. CASE Tickets(journal, orders[j].intent, leg) # {}
    <3>1. CASE journal \subseteq journal'
      BY <2>1, <2>3, <3>1 DEF OnRecord, Tickets
    <3>2. CASE Crash
      BY <1>2, <2>1, <2>3, <3>2 DEF OnRecord, Tickets, Crash
    <3> QED BY <3>1, <3>2, WhoWrites
  <2>4. CASE orders[j].intent = Current /\ run[leg].pc = "answered" /\ run[leg].order = j
    <3>1. CASE op' = op /\ run'[leg] = run[leg]
      BY <2>1, <2>4, <3>1 DEF OnRecord, Current
    <3>2. ASSUME NEW l \in Legs, Submit(l)
          PROVE  OnRecord(j)'
      <4>1. CASE l # leg
        BY <2>1, <3>1, <3>2, <4>1, SubmitFrame
      <4>2. CASE JournalTicket(l) /\ l = leg
        <5>1. Tickets(journal', Current, l) # {}
          BY <4>2, TicketFound DEF JournalTicket
        <5> QED BY <2>1, <2>4, <4>2, <5>1 DEF OnRecord
      <4> QED
        BY <2>4, <3>2, <4>1, <4>2
        DEF Submit, ReuseTicket, PlaceAnswered, PlaceRefused, PlaceUnanswered, MayPlace,
            SettleFilled, SettleRejected, SettleTimeout, ReconcileFound, ReconcileNothing,
            ReadRaises, Leg
    <3>3. CASE Crash
      <4>1. leg \in op.legs
        BY <2>1, <2>4 DEF LegsOK, FreshLeg
      <4> QED BY <1>2, <2>4, <3>3, <4>1 DEF Crash, All
    <3>4. CASE StartRollback
      <4>1. op'.phase = "rollback" /\ op'.legs = op.legs /\ run' = run
        BY <3>4 DEF StartRollback, TypeOK
      <4>2. leg \in op.legs
        BY <2>1, <2>4 DEF LegsOK, FreshLeg
      <4>3. run[leg].pc # "answered"
        BY <4>1, <4>2, RollbackStep DEF NoRollbackUnderUncertainty
      <4> QED BY <2>4, <4>3
    <3>5. CASE Venue \/ StartWithoutMargin \/ NextBar \/ Resume \/ SaveState \/ UNCHANGED vars
               \/ \E l \in Legs : Flatten(l)
      BY <3>1, <3>5 DEF Venue, VenueFill, VenueKill, StartWithoutMargin, NextBar, Resume,
         SaveState, vars, call, local, Flatten
    <3> QED
      BY <2>1, <2>4, <3>2, <3>3, <3>4, <3>5, NoneAnswered
      DEF Next, Trader, Complete, Runner
  <2> QED BY <2>2, <2>3, <2>4 DEF OnRecord
<1> QED BY <1>1, <1>2

LEMMA PlacedStep == IInv /\ [Next]_vars => PlacedAgainOnlyIfLost'
<1> SUFFICES ASSUME IInv, [Next]_vars, NEW i \in Ids', NEW j \in Ids', i < j,
                    SameTicket(i, j)'
             PROVE  i \in lost'
  BY DEF PlacedAgainOnlyIfLost
<1> USE DEF IInv
<1>1. Kept /\ lost \subseteq lost'
  BY OrdersStep, LostGrows
<1>2. orders \in Seq(OrderType) /\ orders' \in Seq(OrderType)
  BY OrdersStep DEF TypeOK
<1>3. CASE i \in Ids /\ j \in Ids
  BY <1>1, <1>3 DEF PlacedAgainOnlyIfLost, SameTicket, Kept
<1>4. CASE j \notin Ids
  <2>1. PICK l \in Legs : /\ PlaceAnswered(l) \/ PlaceUnanswered(l)
                          /\ j = Len(orders) + 1
                          /\ orders'[j].intent = Current /\ orders'[j].leg = l
    BY <1>4, NewOrder DEF SameTicket
  <2>2. MayPlace(l) /\ run[l].pc = "todo"
    BY <2>1 DEF PlaceAnswered, PlaceUnanswered, MayPlace, Leg
  <2>3. i \in Ids
    BY <1>2, <2>1 DEF Ids
  <2>4. orders[i].use = "leg" /\ orders[i].intent = Current /\ orders[i].leg = l
    BY <1>1, <2>1, <2>3 DEF SameTicket, Kept
  <2>5. Tickets(journal, Current, l) = {}
    BY <2>2, KnownTicket DEF MayPlace
  <2>6. i \in lost
    BY <2>2, <2>3, <2>4, <2>5 DEF HistoryOK, OnRecord
  <2> QED BY <1>1, <2>6
<1>5. CASE i \notin Ids /\ j \in Ids
  BY <1>2, <1>5 DEF Ids
<1> QED BY <1>3, <1>4, <1>5

-----------------------------------------------------------------------------
(* The theorems *)

LEMMA InitIInv == Init => IInv
<1> SUFFICES ASSUME Init
             PROVE  IInv
  OBVIOUS
<1>1. TypeOK
  BY LegsAssumption DEF Init, TypeOK, Flat, NoCall, FreshLeg, NoOrder, BookType, Done, Ids
<1>2. Ids = {} /\ op.phase = "idle" /\ op.act = "none" /\ journal = {}
      /\ \A l \in Legs : run[l] = FreshLeg
  BY DEF Init, Ids, NoCall
<1>3. CallOK
  BY <1>2 DEF Init, CallOK, NoCall
<1>4. LegsOK
  <2>1. FreshLeg.pc = "todo"
    BY DEF FreshLeg
  <2> QED BY <1>2, <2>1 DEF LegsOK
<1>5. ExecutedOK /\ TicketsOK /\ TurnsOK /\ HistoryOK
      /\ NoRollbackUnderUncertainty /\ PlacedAgainOnlyIfLost
  BY <1>2 DEF ExecutedOK, TicketsOK, TurnsOK, HistoryOK, NoRollbackUnderUncertainty,
     PlacedAgainOnlyIfLost
<1> QED BY <1>1, <1>3, <1>4, <1>5 DEF IInv

\* The inductive invariant holds in every reachable state.
THEOREM Inductive == Spec => []IInv
<1>1. IInv /\ [Next]_vars => IInv'
  <2> SUFFICES ASSUME IInv, [Next]_vars
               PROVE  IInv'
    OBVIOUS
  <2>1. ExecutedOK'
    BY OrdersStep DEF IInv
  <2> QED
    BY <2>1, TypeStep, CallStep, LegsStep, TicketsStep, TurnsStep, RollbackStep,
       HistoryStep, PlacedStep DEF IInv
<1> QED BY <1>1, InitIInv, PTL DEF Spec

\* Type correctness, for every structure and every switch of the runner.
THEOREM TypesHold == Spec => []TypeOK
<1>1. IInv => TypeOK
  BY DEF IInv
<1> QED BY <1>1, Inductive, PTL

\* The ticket order_id_for answers with is the only one of its leg, and a real
\* order of that leg and side: a crash-replay that settles it instead of
\* placing again can neither pick the wrong one nor one that does not exist.
THEOREM TicketsHold == Spec => []TicketsAreReal
<1>1. IInv => TicketsAreReal
  BY DEF IInv, TicketsOK, TicketsAreReal, Tickets
<1> QED BY <1>1, Inductive, PTL

\* The idempotency of _submit_leg: with any number of legs, threads, replays,
\* crashes and resumes, an order is placed twice for a leg of one decision
\* only when the first id was lost on the way.
THEOREM PlacementsHold == Spec => []PlacedAgainOnlyIfLost
<1>1. IInv => PlacedAgainOnlyIfLost
  BY DEF IInv
<1> QED BY <1>1, Inductive, PTL

\* The structure-level rule of execute_structure: a rollback never starts
\* while a leg's outcome is open, on one thread or on two.
THEOREM RollbacksHold == Spec => []NoRollbackUnderUncertainty
<1>1. IInv => NoRollbackUnderUncertainty
  BY DEF IInv
<1> QED BY <1>1, Inductive, PTL

-----------------------------------------------------------------------------
(* The trace an order leaves *)

\* The ticket written for leg l names the order it is written for, unless the
\* leg had one.
LEMMA TicketNames ==
    ASSUME NEW rows, NEW l, NEW i, Tickets(rows, Current, l) = {}
    PROVE  \E r \in Tickets(WithTicket(rows, l, i), Current, l) : r.order = i
<1> DEFINE row == Row(Current, "SUBMITTED", l, i)
<1>1. row.intent = Current /\ row.kind = "SUBMITTED" /\ row.leg = l /\ row.order = i
  BY DEF Row
<1>2. ~ \E r \in rows : SameKey(r, row)
  BY <1>1 DEF SameKey, Tickets
<1>3. row \in WithTicket(rows, l, i)
  BY <1>2 DEF WithTicket, Record
<1> QED BY <1>1, <1>3 DEF Tickets

\* A step of leg k writes tickets of leg k only.
LEMMA OtherTickets ==
    ASSUME IInv, NEW k \in Legs, Submit(k), NEW l \in Legs, l # k
    PROVE  Tickets(journal', Current, l) = Tickets(journal, Current, l)
<1>1. ASSUME NEW rows, NEW i
      PROVE  Tickets(WithTicket(rows, k, i), Current, l) = Tickets(rows, Current, l)
  BY DEF WithTicket, Record, Row, Tickets
<1>2. ASSUME NEW kind, kind # "SUBMITTED", NEW i
      PROVE  /\ \A rows : Tickets(Record(rows, Row(Current, kind, k, i)), Current, l)
                             = Tickets(rows, Current, l)
             /\ \A rows : Tickets(rows \cup {UnkeyedRow(Current, kind, k, i)}, Current, l)
                             = Tickets(rows, Current, l)
  BY <1>2 DEF Record, Row, UnkeyedRow, Tickets
<1>3. CASE JournalTicket(k)
  BY <1>1, <1>3 DEF JournalTicket
<1>4. CASE ReconcileFound(k)
  <2>1. PICK i \in Reconcilable(k) :
           journal' = WithTicket(journal \cup {UnkeyedRow(Current, "RECONCILED", k, i)}, k, i)
    BY <1>4 DEF ReconcileFound
  <2>2. Tickets(journal \cup {UnkeyedRow(Current, "RECONCILED", k, i)}, Current, l)
           = Tickets(journal, Current, l)
    BY <1>2
  <2> QED BY <1>1, <2>1, <2>2
<1>5. CASE PlaceUnanswered(k)
  <2>1. journal' = journal \cup {UnkeyedRow(Current, "UNCERTAIN", k, NoOrder)}
    BY <1>5 DEF PlaceUnanswered, MarkUncertain
  <2> QED BY <1>2, <2>1
<1>6. CASE PlaceRefused(k) \/ SettleFilled(k) \/ SettleRejected(k) \/ SettleTimeout(k)
  <2>1. PICK kind \in {"FILLED", "REJECTED", "UNCERTAIN"}, i \in {NoOrder, run[k].order} :
           journal' = Record(journal, Row(Current, kind, k, i))
    BY <1>6 DEF PlaceRefused, SettleFilled, SettleRejected, SettleTimeout, Settled
  <2> QED BY <1>2, <2>1
<1>7. CASE ReuseTicket(k) \/ PlaceAnswered(k) \/ ReconcileNothing(k) \/ ReadRaises(k)
  BY <1>7 DEF ReuseTicket, PlaceAnswered, ReconcileNothing, ReadRaises
<1> QED BY <1>3, <1>4, <1>5, <1>6, <1>7 DEF Submit

LEMMA FreshStep == IInv /\ FreshOK /\ [Next]_vars => FreshOK'
<1> SUFFICES ASSUME IInv, FreshOK, [Next]_vars
             PROVE  FreshOK'
  OBVIOUS
<1> USE DEF IInv
<1>1. CASE op'.act = op.act /\ op'.at = op.at /\ op'.legs = op.legs
           /\ UNCHANGED <<run, journal>>
  BY <1>1 DEF FreshOK, Current
<1>2. ASSUME NEW k \in Legs, Submit(k)
      PROVE  FreshOK'
  <2>1. /\ op' = op /\ k \in op.legs /\ op.legs \subseteq Legs
        /\ \A l \in Legs \ {k} : run'[l] = run[l]
    BY <1>2, SubmitFrame DEF TypeOK
  <2>2. run \in LegStates
    BY DEF TypeOK, LegStates
  <2> DEFINE Fresh == /\ run'[k].pc \in {"answered", "unanswered"}
                            => Tickets(journal', Current, k) = {}
                      /\ run'[k].pc \in {"todo", "unanswered"} => run'[k].order = NoOrder
  <2>3. ASSUME PlaceAnswered(k)  PROVE Fresh
    <3>1. Tickets(journal, Current, k) = {} /\ journal' = journal
      BY <2>3, KnownTicket DEF PlaceAnswered, MayPlace
    <3> QED BY <2>2, <2>3, <3>1 DEF PlaceAnswered, LegStates
  <2>4. ASSUME PlaceUnanswered(k)  PROVE Fresh
    <3>1. Tickets(journal, Current, k) = {} /\ run[k].pc = "todo"
      BY <2>4, KnownTicket DEF PlaceUnanswered, MayPlace, Leg
    <3>2. Tickets(journal', Current, k) = {}
      BY <2>4, <3>1 DEF PlaceUnanswered, MarkUncertain, UnkeyedRow, Row, Tickets
    <3>3. run'[k].order = NoOrder
      BY <2>1, <2>2, <2>4, <3>1 DEF PlaceUnanswered, Becomes, LegStates, FreshOK
    <3> QED BY <3>2, <3>3
  <2>5. ASSUME \/ ReuseTicket(k) \/ PlaceRefused(k) \/ JournalTicket(k) \/ SettleFilled(k)
               \/ SettleRejected(k) \/ SettleTimeout(k) \/ ReconcileNothing(k)
               \/ ReadRaises(k)
        PROVE  Fresh
    <3>1. CASE ReuseTicket(k)
      BY <2>2, <3>1 DEF ReuseTicket, LegStates
    <3>2. CASE SettleFilled(k)
      BY <2>2, <3>2 DEF SettleFilled, Settled, LegStates
    <3>3. CASE SettleRejected(k) \/ SettleTimeout(k)
      BY <2>2, <3>3 DEF SettleRejected, SettleTimeout, Settled, LegStates
    <3>4. CASE PlaceRefused(k) \/ JournalTicket(k) \/ ReconcileNothing(k) \/ ReadRaises(k)
      BY <2>2, <3>4 DEF PlaceRefused, JournalTicket, ReconcileNothing, ReadRaises, Becomes,
         LegStates
    <3> QED BY <2>5, <3>1, <3>2, <3>3, <3>4
  <2>6. ASSUME ReconcileFound(k)  PROVE Fresh
    <3>1. run'[k].pc \in Done
      BY <2>2, <2>6 DEF ReconcileFound, Reading, Done, LegStates
    <3> QED BY <3>1 DEF Done
  <2>7. Fresh
    BY <1>2, <2>3, <2>4, <2>5, <2>6 DEF Submit
  <2>8. ASSUME NEW l \in op.legs, l # k
        PROVE  /\ run'[l] = run[l]
               /\ Tickets(journal', Current, l) = Tickets(journal, Current, l)
    BY <1>2, <2>1, <2>8, OtherTickets
  <2> QED BY <2>1, <2>7, <2>8 DEF FreshOK, Current
<1>3. CASE op'.legs = {}
  BY <1>3 DEF FreshOK
<1>4. CASE StartOpen \/ StartClose
  <2>1. run' = [l \in Legs |-> FreshLeg] /\ op'.legs \subseteq Legs
    BY <1>4 DEF StartOpen, StartClose, Begin, TypeOK, BookType
  <2> QED BY <2>1 DEF FreshOK, FreshLeg
<1>5. CASE StartWithoutMargin
  BY <1>3, <1>5 DEF StartWithoutMargin, Busy, CallOK, NoCall, call
<1>6. CASE NoCallLeft
  BY <1>3, <1>6 DEF NoCallLeft, NoCall
<1>7. CASE StartRollback
  BY <1>1, <1>7 DEF StartRollback, TypeOK
<1>8. CASE \/ Venue \/ NextBar \/ Resume \/ SaveState \/ UNCHANGED vars
           \/ \E l \in Legs : Flatten(l)
  BY <1>1, <1>8 DEF Venue, VenueFill, VenueKill, NextBar, Resume, SaveState, vars, call,
     Flatten
<1> QED
  BY <1>2, <1>4, <1>5, <1>6, <1>7, <1>8, Ending DEF Next, Trader, Complete, Runner

\* A crash apart, no row is forgotten and no id either but that of the order a
\* step loses as it sends it.
LEMMA OnlyCrashForgets ==
    ASSUME IInv, [Next]_vars, ~Crash
    PROVE  /\ journal \subseteq journal' /\ crashes' = crashes
           /\ lost' \cap Ids = lost
<1> USE DEF IInv
<1>1. journal \subseteq journal'
  BY WhoWrites
<1>2. lost \subseteq Ids /\ orders \in Seq(OrderType)
  BY DEF TypeOK
<1>3. ASSUME NEW l \in Legs, Submit(l)
      PROVE  crashes' = crashes /\ lost' \cap Ids = lost
  <2>1. crashes' = crashes
    BY <1>3, SubmitType DEF count
  <2>2. CASE PlaceUnanswered(l)
    <3>1. Len(orders) + 1 \notin Ids
      BY <1>2, OrderFacts
    <3> QED BY <1>2, <2>1, <2>2, <3>1 DEF PlaceUnanswered, venue
  <2>3. CASE ~PlaceUnanswered(l)
    <3>1. lost' = lost
      BY <1>3, <2>3 DEF Submit, ReuseTicket, PlaceAnswered, PlaceRefused, JournalTicket,
         SettleFilled, SettleRejected, SettleTimeout, Settled, ReconcileFound,
         ReconcileNothing, ReadRaises, venue
    <3> QED BY <1>2, <2>1, <3>1
  <2> QED BY <2>2, <2>3
<1>4. ASSUME \/ Complete \/ Venue \/ UNCHANGED vars \/ \E l \in Legs : Flatten(l)
             \/ StartOpen \/ StartWithoutMargin \/ StartClose \/ NextBar \/ Resume \/ SaveState
      PROVE  crashes' = crashes /\ lost' = lost
  BY <1>4 DEF Complete, OpenFilled, OpenHalted, StartRollback, RolledBack, CloseFilled,
     CloseHalted, CallRaises, Venue, VenueFill, VenueKill, vars, Flatten, StartOpen,
     StartWithoutMargin, StartClose, Begin, NextBar, Resume, SaveState, venue, count
<1> QED BY <1>1, <1>2, <1>3, <1>4 DEF Next, Trader, Runner

LEMMA TraceStep == IInv /\ FreshOK /\ TraceOK /\ [Next]_vars => TraceOK'
<1> SUFFICES ASSUME IInv, FreshOK, TraceOK, [Next]_vars,
                    NEW j \in Ids', orders'[j].use = "leg"
             PROVE  IF j \in lost' THEN Durable => Noted(j)' ELSE Ticketed(j)'
  BY DEF TraceOK
<1> USE DEF IInv
<1>0. Kept /\ run \in LegStates /\ lost \subseteq lost' /\ lost \subseteq Ids /\ crashes \in Nat
  BY OrdersStep, LostGrows DEF TypeOK, LegStates
<1>1. CASE j \notin Ids
  <2>1. PICK l \in Legs : /\ PlaceAnswered(l) \/ PlaceUnanswered(l)
                          /\ j = Len(orders) + 1
                          /\ orders'[j].intent = Current /\ orders'[j].leg = l
    BY <1>1, NewOrder
  <2>2. CASE PlaceAnswered(l)
    <3>1. run'[l].pc = "answered" /\ run'[l].order = j /\ op' = op /\ j \notin lost'
      BY <1>0, <1>1, <2>1, <2>2 DEF PlaceAnswered, LegStates
    <3> QED BY <2>1, <3>1 DEF Ticketed, Current
  <2>3. CASE PlaceUnanswered(l)
    <3>1. j \in lost'
      BY <1>1, <2>1, <2>3 DEF PlaceUnanswered, venue, Ids
    <3>2. UnkeyedRow(Current, "UNCERTAIN", l, NoOrder) \in journal'
      BY <2>3 DEF PlaceUnanswered, MarkUncertain
    <3>3. Noted(j)'
      BY <2>1, <3>2 DEF Noted, UnkeyedRow, Row
    <3> QED BY <3>1, <3>3
  <2> QED BY <2>1, <2>2, <2>3
<1>2. CASE j \in Ids
  <2> DEFINE leg == orders[j].leg
  <2>1. /\ orders'[j].intent = orders[j].intent /\ orders'[j].leg = leg
        /\ orders[j].use = "leg" /\ leg \in Legs
    BY <1>0, <1>2, OrderFacts DEF Kept, TypeOK, OrderType
  <2>2. CASE Crash
    <3>1. crashes' > 0 /\ (Durable => journal' = journal)
      BY <1>0, <2>2 DEF Crash
    <3>2. CASE j \in lost'
      BY <3>1, <3>2 DEF Noted
    <3>3. CASE j \notin lost'
      <4>1. Durable /\ j \notin lost /\ journal' = journal
        BY <1>0, <1>2, <2>2, <3>1, <3>3 DEF Crash
      <4>2. ~(run[leg].pc = "answered" /\ run[leg].order = j)
        <5>1. run[leg].pc = "answered" => leg \in op.legs
          BY <2>1 DEF LegsOK, FreshLeg
        <5> QED BY <2>2, <3>3, <4>1, <5>1 DEF Crash, All
      <4>3. Ticketed(j)
        BY <1>2, <2>1, <4>1 DEF TraceOK
      <4> QED BY <2>1, <3>3, <4>1, <4>2, <4>3 DEF Ticketed
    <3> QED BY <3>2, <3>3
  <2>3. CASE ~Crash /\ j \in lost
    <3>1. journal \subseteq journal' /\ crashes' = crashes /\ j \in lost'
      BY <1>0, <2>3, OnlyCrashForgets
    <3>2. Durable => Noted(j)
      BY <1>2, <2>1, <2>3 DEF TraceOK
    <3> QED BY <2>1, <3>1, <3>2 DEF Noted
  <2>4. CASE ~Crash /\ j \notin lost
    <3>1. journal \subseteq journal' /\ j \notin lost'
      BY <1>2, <2>4, OnlyCrashForgets
    <3>2. Ticketed(j)
      BY <1>2, <2>1, <2>4 DEF TraceOK
    <3>3. CASE \E r \in Tickets(journal, orders[j].intent, leg) : r.order = j
      BY <2>1, <3>1, <3>3 DEF Ticketed, Tickets
    <3>4. CASE orders[j].intent = Current /\ run[leg].pc = "answered" /\ run[leg].order = j
      <4>1. leg \in op.legs
        BY <2>1, <3>4 DEF LegsOK, FreshLeg
      <4>2. CASE op'.act = op.act /\ op'.at = op.at /\ op'.legs = op.legs /\ run'[leg] = run[leg]
        BY <2>1, <3>1, <3>4, <4>2 DEF Ticketed, Current
      <4>3. ASSUME NEW l \in Legs, Submit(l)
            PROVE  Ticketed(j)'
        <5>1. CASE l # leg
          BY <2>1, <3>1, <4>2, <4>3, <5>1, SubmitFrame
        <5>2. CASE JournalTicket(l) /\ l = leg
          <6>1. Tickets(journal, Current, l) = {}
            BY <3>4, <4>1, <5>2 DEF FreshOK
          <6>2. \E r \in Tickets(journal', Current, l) : r.order = j
            BY <3>4, <5>2, <6>1, TicketNames DEF JournalTicket
          <6> QED BY <2>1, <3>4, <5>2, <6>2 DEF Ticketed
        <5> QED
          BY <3>4, <4>3, <5>1, <5>2
          DEF Submit, ReuseTicket, PlaceAnswered, PlaceRefused, PlaceUnanswered, MayPlace,
              SettleFilled, SettleRejected, SettleTimeout, ReconcileFound, ReconcileNothing,
              ReadRaises, Leg
      <4>4. CASE StartRollback
        BY <4>2, <4>4 DEF StartRollback, TypeOK
      <4>5. CASE Venue \/ StartWithoutMargin \/ NextBar \/ Resume \/ SaveState \/ UNCHANGED vars
                 \/ \E l \in Legs : Flatten(l)
        BY <4>2, <4>5 DEF Venue, VenueFill, VenueKill, StartWithoutMargin, NextBar, Resume,
           SaveState, vars, call, local, Flatten
      <4> QED
        BY <2>1, <2>4, <3>1, <3>4, <4>3, <4>4, <4>5, NoneAnswered
        DEF Next, Trader, Complete, Runner
    <3> QED BY <3>1, <3>2, <3>3, <3>4 DEF Ticketed
  <2> QED BY <2>2, <2>3, <2>4
<1> QED BY <1>1, <1>2

-----------------------------------------------------------------------------
(* How a leg ends *)

\* What a step keeps of an order that is over, or that filled in part.
Over(i) == /\ i \in Ids
           /\ orders[i].status = "open" =>
                 /\ orders[i].filled # 0
                 /\ i \in lost \/ orders[i].intent # Current \/ orders[i].use = "flat"

LEMMA OverStep ==
    ASSUME IInv, [Next]_vars, NEW i \in Ids, Over(i), Current' = Current
    PROVE  Over(i)'
<1> USE DEF IInv
<1>1. /\ Kept /\ lost \subseteq lost' /\ orders \in Seq(OrderType) /\ i \in Ids'
      /\ orders'[i].intent = orders[i].intent /\ orders'[i].use = orders[i].use
  BY OrdersStep, LostGrows DEF TypeOK, Kept
<1>2. CASE orders'[i] = orders[i]
  BY <1>1, <1>2 DEF Over
<1>3. ASSUME NEW k \in Ids, VenueFill(k) \/ VenueKill(k)
      PROVE  Over(i)'
  <2>1. CASE k = i
    BY <1>1, <1>3, <2>1, Updated DEF Over
  <2>2. CASE k # i
    BY <1>1, <1>2, <1>3, <2>2, Updated
  <2> QED BY <2>1, <2>2
<1>4. ASSUME NEW l \in Legs, PlaceAnswered(l) \/ PlaceUnanswered(l)
      PROVE  Over(i)'
  <2>1. op.act # "none"
    BY <1>4 DEF PlaceAnswered, PlaceUnanswered, MayPlace, Leg, CallOK
  <2>2. orders' = Append(orders, LegOrder(l)) \/ UNCHANGED orders
    BY <1>4 DEF PlaceAnswered, PlaceUnanswered, venue
  <2> QED BY <1>1, <1>2, <2>1, <2>2, LegOrderType, Appended
<1>5. ASSUME NEW l \in Legs, Flatten(l)
      PROVE  Over(i)'
  <2>1. (orders' = Append(orders, FlatOrder(l)) \/ UNCHANGED orders) /\ l \in flats
    BY <1>5 DEF Flatten
  <2> QED BY <1>1, <1>2, <2>1, FlatOrderType, Appended
<1>6. CASE UNCHANGED orders
  BY <1>2, <1>6
<1> QED BY <1>3, <1>4, <1>5, <1>6, WhoSends

LEMMA EndsByOver ==
    EndsOK <=> \A l \in op.legs :
                  run[l].pc \in {"filled", "rejected"} /\ run[l].order # NoOrder
                  => Over(run[l].order)
    BY DEF EndsOK, Over

LEMMA EndsStep == IInv /\ FreshOK /\ TraceOK /\ EndsOK /\ [Next]_vars => EndsOK'
<1> SUFFICES ASSUME IInv, FreshOK, TraceOK, EndsOK, [Next]_vars
             PROVE  EndsOK'
  OBVIOUS
<1> DEFINE Ends(l) == run[l].pc \in {"filled", "rejected"} /\ run[l].order # NoOrder
                      => Over(run[l].order)
<1> USE DEF IInv
<1>0. EndsOK' <=> \A l \in op'.legs : Ends(l)'
  BY DEF EndsOK, Over
<1>1. CASE /\ op'.act = op.act /\ op'.at = op.at /\ op'.legs = op.legs
           /\ UNCHANGED run
  <2>1. Current' = Current
    BY <1>1 DEF Current
  <2> QED BY <1>0, <1>1, <2>1, EndsByOver, OverStep DEF Over
<1>2. ASSUME NEW k \in Legs, Submit(k)
      PROVE  EndsOK'
  <2>1. /\ op' = op /\ k \in op.legs /\ op.legs \subseteq Legs
        /\ \A l \in Legs \ {k} : run'[l] = run[l]
    BY <1>2, SubmitFrame DEF TypeOK
  <2>2. run \in LegStates /\ Current' = Current
    BY <2>1 DEF TypeOK, LegStates, Current
  <2>3. ASSUME NEW l \in op.legs, l # k
        PROVE  Ends(l)'
    BY <2>1, <2>2, <2>3, EndsByOver, OverStep DEF Over
  <2>4. ASSUME SettleFilled(k) \/ SettleRejected(k)  PROVE Ends(k)'
    <3>1. run[k].order \in Ids /\ orders[run[k].order].status # "open"
      BY <2>4 DEF SettleFilled, SettleRejected, Leg, LegsOK
    <3>2. run'[k].order = run[k].order
      <4>1. PICK pc, qty, priced :
               run' = [run EXCEPT ![k].pc = pc, ![k].qty = qty, ![k].priced = priced]
        BY <2>4 DEF SettleFilled, SettleRejected, Settled
      <4> QED BY <2>2, <4>1 DEF LegStates
    <3>3. Over(run[k].order)
      BY <3>1 DEF Over
    <3> QED BY <2>2, <3>1, <3>3, <3>2, OverStep
  <2>5. ASSUME PlaceRefused(k)  PROVE Ends(k)'
    <3>1. run[k].order = NoOrder /\ run'[k].order = run[k].order
      BY <2>1, <2>2, <2>5 DEF PlaceRefused, MayPlace, Leg, Becomes, LegStates, FreshOK
    <3> QED BY <3>1
  <2>6. ASSUME \/ ReuseTicket(k) \/ PlaceAnswered(k) \/ PlaceUnanswered(k) \/ JournalTicket(k)
               \/ SettleTimeout(k) \/ ReconcileNothing(k) \/ ReadRaises(k)
        PROVE  Ends(k)'
    BY <2>2, <2>6 DEF ReuseTicket, PlaceAnswered, PlaceUnanswered, JournalTicket,
       SettleTimeout, Settled, ReconcileNothing, ReadRaises, Becomes, LegStates
  <2>7. ASSUME ReconcileFound(k)  PROVE Ends(k)'
    <3>1. PICK i \in Reconcilable(k) : run'[k].pc = Reading(orders[i]) /\ run'[k].order = i
      BY <2>2, <2>7 DEF ReconcileFound, LegStates
    <3>2. i \in Ids /\ orders[i].leg = k /\ orders[i].filled \in Nat
      BY OrderFacts DEF Reconcilable, SamePacket, LegOrder, Order, TypeOK, OrderType
    <3>3. run[k].pc = "unanswered" /\ Tickets(journal, Current, k) = {}
      BY <2>1, <2>7 DEF ReconcileFound, Leg, FreshOK
    <3>4. i \in lost \/ orders[i].intent # Current \/ orders[i].use = "flat"
      <4>1. orders[i].use = "leg" /\ i \notin lost => Ticketed(i)
        BY <3>2 DEF TraceOK
      <4>2. orders[i].use \in {"leg", "flat"}
        BY <3>2, OrderFacts DEF TypeOK, OrderType
      <4> QED BY <3>2, <3>3, <4>1, <4>2 DEF Ticketed
    <3>5. Reading(orders[i]) \in {"filled", "rejected"} => Over(i)
      BY <3>2, <3>4 DEF Reading, Over
    <3> QED BY <2>2, <3>1, <3>2, <3>5, OverStep
  <2>8. Ends(k)'
    BY <1>2, <2>4, <2>5, <2>6, <2>7 DEF Submit
  <2> QED BY <1>0, <2>1, <2>3, <2>8
<1>3. CASE op'.legs = {}
  BY <1>3 DEF EndsOK
<1>4. CASE StartOpen \/ StartClose
  <2>1. run' = [l \in Legs |-> FreshLeg] /\ op'.legs \subseteq Legs
    BY <1>4 DEF StartOpen, StartClose, Begin, TypeOK, BookType
  <2> QED BY <2>1 DEF EndsOK, FreshLeg
<1>5. CASE NoCallLeft
  BY <1>3, <1>5 DEF NoCallLeft, NoCall
<1>6. CASE StartRollback
  BY <1>1, <1>6 DEF StartRollback, TypeOK
<1>7. CASE \/ Venue \/ StartWithoutMargin \/ NextBar \/ Resume \/ SaveState \/ UNCHANGED vars
           \/ \E l \in Legs : Flatten(l)
  BY <1>1, <1>7 DEF Venue, VenueFill, VenueKill, StartWithoutMargin, NextBar, Resume,
     SaveState, vars, call, local, Flatten
<1> QED
  BY <1>2, <1>4, <1>5, <1>6, <1>7, Ending DEF Next, Trader, Complete, Runner

\* The strengthened invariant holds in every reachable state.
THEOREM Traces == Spec => []TraceInv
<1>1. Init => FreshOK /\ TraceOK /\ EndsOK
  BY DEF Init, NoCall, FreshOK, TraceOK, EndsOK, Ids
<1>2. TraceInv /\ [Next]_vars => FreshOK' /\ TraceOK' /\ EndsOK'
  BY FreshStep, TraceStep, EndsStep DEF TraceInv
<1> QED BY <1>1, <1>2, Inductive, PTL DEF Spec, TraceInv

\* Over a database journal, no order of a leg is ever without a trace: a
\* ticket that names it, the UNCERTAIN row of its leg, or the crash that lost
\* it.  _submit_leg, its two threads, reconciliation and restarts included.
THEOREM TracesHold == Spec => []NoInvisibleOrder
<1>1. TraceInv => NoInvisibleOrder
  <2> SUFFICES ASSUME TraceInv, Durable, NEW i \in Ids, orders[i].use = "leg"
               PROVE  \/ \E r \in Tickets(journal, orders[i].intent, orders[i].leg) : r.order = i
                      \/ \E r \in journal : /\ r.kind = "UNCERTAIN" /\ r.leg = orders[i].leg
                                            /\ r.intent = orders[i].intent
                      \/ Busy /\ run[orders[i].leg].order = i
                      \/ crashes > 0 /\ i \in lost
    BY DEF NoInvisibleOrder
  <2>1. CASE i \in lost
    BY <2>1 DEF TraceInv, TraceOK, Noted
  <2>2. CASE i \notin lost
    <3>1. Ticketed(i)
      BY <2>2 DEF TraceInv, TraceOK
    <3>2. run[orders[i].leg].pc = "answered" => Busy
      <4>1. orders[i].leg \in Legs
        BY OrderFacts DEF TraceInv, IInv, TypeOK, OrderType
      <4> QED BY <4>1 DEF TraceInv, IInv, LegsOK, CallOK, FreshLeg, NoCall, Busy
    <3> QED BY <3>1, <3>2 DEF Ticketed
  <2> QED BY <2>1, <2>2
<1> QED BY <1>1, Traces, PTL

\* An entry that returns while an order it follows still works has paused its
\* runner: on every structure, with any answer lost, late or dropped.
THEOREM UnknownsPause == Spec => ReturnedUnknownPauses
<1>1. ASSUME TraceInv, [Next]_vars, NEW i \in Ids,
             LeavesWorking(i), All({"raised"}) = {},
             run[orders[i].leg].order = i, i \in lost => orders[i].filled = 0
      PROVE  runner' = "paused"
  <2> USE <1>1 DEF TraceInv, IInv
  <2> DEFINE leg == orders[i].leg
  <2>1. /\ leg \in op.legs /\ i # NoOrder /\ op.act = "open" /\ op'.act = "none"
        /\ orders[i].use = "leg" /\ orders[i].intent = Current /\ orders[i].status = "open"
    BY OrderFacts DEF LeavesWorking, CallOK, TypeOK, OrderType, NoOrder
  <2>2. run[leg].pc \notin {"todo", "filled", "rejected"}
    BY <2>1 DEF FreshOK, EndsOK
  <2>3. ~OpenFilled
    BY <2>1, <2>2 DEF OpenFilled, AllFilled, All
  <2>4. ~RolledBack
    BY <2>1, <2>2 DEF RolledBack, NoRollbackUnderUncertainty
  <2>5. CASE OpenHalted \/ Crash
    BY <2>5 DEF OpenHalted, Halt, Crash
  <2>6. ~ \E l \in Legs : Submit(l)
    BY <2>1, SubmitFrame
  <2>7. ~(\/ Venue \/ NextBar \/ Resume \/ SaveState \/ UNCHANGED vars \/ StartRollback
          \/ StartWithoutMargin \/ \E l \in Legs : Flatten(l))
    BY <2>1 DEF Venue, VenueFill, VenueKill, NextBar, Resume, SaveState, vars, call,
       StartWithoutMargin, Flatten, StartRollback, TypeOK
  <2>8. ~(StartOpen \/ StartClose \/ CloseFilled \/ CloseHalted \/ CallRaises)
    BY <2>1 DEF StartOpen, StartClose, Begin, Busy, CloseFilled, CloseHalted, CallRaises
  <2> QED
    BY <2>3, <2>4, <2>5, <2>6, <2>7, <2>8 DEF Next, Trader, Complete, Runner
<1>2. TraceInv /\ [Next]_vars =>
        [\A i \in Ids : /\ LeavesWorking(i) /\ All({"raised"}) = {}
                        /\ run[orders[i].leg].order = i
                        /\ i \in lost => orders[i].filled = 0
                        => runner' = "paused"]_vars
  BY <1>1
<1> QED BY <1>2, Traces, PTL DEF Spec, ReturnedUnknownPauses

-----------------------------------------------------------------------------
(* Sums over the order book, by the least order at which they would fail *)

Smaller == {p \in Nat \X Nat : p[1] < p[2]}

\* A set of naturals that is not empty has a least element.
LEMMA Least ==
    ASSUME NEW T \in SUBSET Nat, T # {}
    PROVE  \E x \in T : \A y \in T : x <= y
<1>1. IsWellFoundedOn(Smaller, Nat)
  BY NatLessThanWellFounded DEF OpToRel, Smaller
<1>2. PICK x \in T : \A y \in T : <<y, x>> \notin Smaller
  BY <1>1, WFMin
<1>3. ASSUME NEW y \in T
      PROVE  x <= y
  <2>1. ~ (y < x) /\ x \in Nat /\ y \in Nat
    BY <1>2 DEF Smaller
  <2> QED BY <2>1
<1> QED BY <1>3

\* S holds the partial sums of f up to n.
Partial(f, n, S) == S = [k \in 0 .. n |-> IF k = 0 THEN 0 ELSE S[k - 1] + f[k]]

LEMMA PartialExists ==
    ASSUME NEW f, NEW n \in Nat
    PROVE  \E S : Partial(f, n, S)
<1> DEFINE Bad == {m \in Nat : ~ \E S : Partial(f, m, S)}
<1>1. 0 \notin Bad
  <2>1. Partial(f, 0, [k \in 0 .. 0 |-> 0])
    BY DEF Partial
  <2> QED BY <2>1
<1>2. ASSUME NEW m \in Nat, m + 1 \in Bad
      PROVE  m \in Bad
  <2>1. SUFFICES ASSUME NEW S, Partial(f, m, S)
                 PROVE  \E Z : Partial(f, m + 1, Z)
    BY <1>2
  <2> DEFINE Z == [k \in 0 .. m + 1 |-> IF k = m + 1 THEN S[m] + f[m + 1] ELSE S[k]]
  <2>2. \A k \in 0 .. m : S[k] = IF k = 0 THEN 0 ELSE S[k - 1] + f[k]
    BY <2>1 DEF Partial
  <2>3. ASSUME NEW k \in 0 .. m + 1
        PROVE  Z[k] = IF k = 0 THEN 0 ELSE Z[k - 1] + f[k]
    <3>1. CASE k = m + 1
      BY <3>1
    <3>2. CASE k # m + 1
      <4>1. k \in 0 .. m /\ Z[k] = S[k] /\ (k # 0 => Z[k - 1] = S[k - 1])
        BY <3>2
      <4> QED BY <2>2, <4>1
    <3> QED BY <3>1, <3>2
  <2>4. Partial(f, m + 1, Z)
    <3> DEFINE W == [k \in 0 .. m + 1 |-> IF k = 0 THEN 0 ELSE Z[k - 1] + f[k]]
    <3>1. \A k \in 0 .. m + 1 : Z[k] = W[k]
      BY <2>3
    <3>2. Z = W
      BY <3>1
    <3> HIDE DEF Z
    <3> QED BY <3>2 DEF Partial
  <2> QED BY <2>4
<1> HIDE DEF Bad
<1>3. Bad = {}
  <2> SUFFICES ASSUME Bad # {} PROVE FALSE
    OBVIOUS
  <2>1. Bad \in SUBSET Nat
    BY DEF Bad
  <2>2. PICK x \in Bad : \A y \in Bad : x <= y
    BY <2>1, Least
  <2>3. x # 0 /\ x - 1 \in Nat /\ (x - 1) + 1 = x
    BY <1>1, <2>1, <2>2
  <2>4. x - 1 \in Bad
    BY <1>2, <2>2, <2>3
  <2> QED BY <2>1, <2>2, <2>4
<1> QED BY <1>3 DEF Bad

LEMMA PartialUnique ==
    ASSUME NEW f, NEW m \in Nat, NEW n \in Nat, m <= n, NEW S, NEW Z,
           Partial(f, m, S), Partial(f, n, Z)
    PROVE  S[m] = Z[m]
<1> DEFINE Bad == {k \in 0 .. m : S[k] # Z[k]}
<1>1. /\ \A k \in 0 .. m : S[k] = IF k = 0 THEN 0 ELSE S[k - 1] + f[k]
      /\ \A k \in 0 .. m : Z[k] = IF k = 0 THEN 0 ELSE Z[k - 1] + f[k]
  BY DEF Partial
<1>2. Bad = {}
  <2> SUFFICES ASSUME Bad # {} PROVE FALSE
    OBVIOUS
  <2>1. Bad \in SUBSET Nat
    OBVIOUS
  <2>2. PICK x \in Bad : \A y \in Bad : x <= y
    <3> HIDE DEF Bad
    <3> QED BY <2>1, Least
  <2>3. x # 0
    BY <1>1
  <2>4. x - 1 \in 0 .. m /\ x - 1 \notin Bad
    BY <2>2, <2>3
  <2> QED BY <1>1, <2>3, <2>4
<1> QED BY <1>2

LEMMA TotalIs ==
    ASSUME NEW f, NEW n \in Nat, NEW S, Partial(f, n, S)
    PROVE  Total(f, n) = S[n]
<1> DEFINE C == CHOOSE Z : Partial(f, n, Z)
<1>1. Total(f, n) = C[n]
  BY DEF Total, Partial
<1>2. Partial(f, n, C)
  <2> HIDE DEF C
  <2>1. C = CHOOSE Z : Partial(f, n, Z)
    BY DEF C
  <2> QED BY <2>1, PartialExists
<1> HIDE DEF C
<1> QED BY <1>1, <1>2, PartialUnique

LEMMA TotalStep ==
    ASSUME NEW f, NEW n \in Nat
    PROVE  Total(f, 0) = 0 /\ Total(f, n + 1) = Total(f, n) + f[n + 1]
<1>1. PICK S : Partial(f, n + 1, S)
  BY PartialExists
<1>2. PICK Z : Partial(f, n, Z)
  BY PartialExists
<1>3. PICK O : Partial(f, 0, O)
  BY PartialExists
<1>4. Total(f, n + 1) = S[n + 1] /\ Total(f, n) = Z[n] /\ Total(f, 0) = O[0]
  BY <1>1, <1>2, <1>3, TotalIs
<1>5. Z[n] = S[n]
  BY <1>1, <1>2, PartialUnique
<1>6. O[0] = 0 /\ S[n + 1] = S[n] + f[n + 1]
  BY <1>1, <1>3 DEF Partial
<1> QED BY <1>4, <1>5, <1>6

LEMMA TotalType ==
    ASSUME NEW n \in Nat, NEW f, \A k \in 1 .. n : f[k] \in Int
    PROVE  Total(f, n) \in Int
<1> DEFINE Bad == {k \in 0 .. n : Total(f, k) \notin Int}
<1>2. Bad = {}
  <2> SUFFICES ASSUME Bad # {} PROVE FALSE
    OBVIOUS
  <2>1. Bad \in SUBSET Nat
    OBVIOUS
  <2>2. PICK x \in Bad : \A y \in Bad : x <= y
    <3> HIDE DEF Bad
    <3> QED BY <2>1, Least
  <2>3. x # 0
    BY TotalStep
  <2>4. x - 1 \in 0 .. n /\ x - 1 \notin Bad /\ x - 1 + 1 = x /\ x \in 1 .. n
    BY <2>2, <2>3
  <2>5. Total(f, x) = Total(f, x - 1) + f[x]
    BY <2>4, TotalStep
  <2> QED BY <2>4, <2>5
<1> QED BY <1>2

\* Functions that differ at i at most have sums that differ by as much.
LEMMA TotalChange ==
    ASSUME NEW n \in Nat, NEW f, NEW g, NEW i \in 1 .. n,
           \A k \in 1 .. n : f[k] \in Int /\ g[k] \in Int /\ (k # i => g[k] = f[k])
    PROVE  Total(g, n) = Total(f, n) + (g[i] - f[i])
<1> DEFINE Gap(k) == IF i \in 1 .. k THEN g[i] - f[i] ELSE 0
           Bad == {k \in 0 .. n : Total(g, k) # Total(f, k) + Gap(k)}
<1>2. Bad = {}
  <2> SUFFICES ASSUME Bad # {} PROVE FALSE
    OBVIOUS
  <2>1. Bad \in SUBSET Nat
    OBVIOUS
  <2>2. PICK x \in Bad : \A y \in Bad : x <= y
    <3> HIDE DEF Bad
    <3> QED BY <2>1, Least
  <2>3. x # 0
    BY TotalStep
  <2>4. x - 1 \in 0 .. n /\ x - 1 \notin Bad /\ x - 1 + 1 = x /\ x \in 1 .. n
    BY <2>2, <2>3
  <2>5. Total(f, x) = Total(f, x - 1) + f[x] /\ Total(g, x) = Total(g, x - 1) + g[x]
    BY <2>4, TotalStep
  <2>6. Total(f, x - 1) \in Int
    BY <2>4, TotalType
  <2> QED BY <2>4, <2>5, <2>6
<1> QED BY <1>2

LEMMA TotalLess ==
    ASSUME NEW n \in Nat, NEW f, NEW g,
           \A k \in 1 .. n : f[k] \in Int /\ g[k] \in Int /\ f[k] <= g[k]
    PROVE  Total(f, n) <= Total(g, n)
<1> DEFINE Bad == {k \in 0 .. n : ~ (Total(f, k) <= Total(g, k))}
<1>1. Bad = {}
  <2> SUFFICES ASSUME Bad # {} PROVE FALSE
    OBVIOUS
  <2>1. Bad \in SUBSET Nat
    OBVIOUS
  <2>2. PICK x \in Bad : \A y \in Bad : x <= y
    <3> HIDE DEF Bad
    <3> QED BY <2>1, Least
  <2>3. x # 0
    BY TotalStep
  <2>4. x - 1 \in 0 .. n /\ x - 1 \notin Bad /\ x - 1 + 1 = x /\ x \in 1 .. n
    BY <2>2, <2>3
  <2>5. Total(f, x) = Total(f, x - 1) + f[x] /\ Total(g, x) = Total(g, x - 1) + g[x]
    BY <2>4, TotalStep
  <2>6. Total(f, x - 1) \in Int /\ Total(g, x - 1) \in Int
    BY <2>4, TotalType
  <2> QED BY <2>4, <2>5, <2>6
<1> QED BY <1>1

LEMMA TotalSame ==
    ASSUME NEW n \in Nat, NEW f, NEW g, \A k \in 1 .. n : f[k] \in Int /\ g[k] = f[k]
    PROVE  Total(g, n) = Total(f, n)
<1>1. Total(f, n) <= Total(g, n) /\ Total(g, n) <= Total(f, n)
  BY TotalLess
<1>2. Total(f, n) \in Int /\ Total(g, n) \in Int
  BY TotalType
<1> QED BY <1>1, <1>2

\* What each order contributes to Committed(l).
Share(l) == [i \in Ids |-> IF orders[i].leg = l THEN Outcome(orders[i]) ELSE 0]

LEMMA OutcomeType ==
    ASSUME NEW o \in OrderType
    PROVE  Outcome(o) \in Int /\ Positions(o) \in Int
    BY DEF Outcome, Positions, OrderType

LEMMA CommittedIs ==
    ASSUME NEW l
    PROVE  Committed(l) = Total(Share(l), Len(orders))
    BY DEF Committed, Share

LEMMA ShareType ==
    ASSUME orders \in Seq(OrderType), NEW l
    PROVE  /\ \A i \in 1 .. Len(orders) : Share(l)[i] \in Int
           /\ Committed(l) \in Int
<1>1. \A i \in 1 .. Len(orders) : Share(l)[i] \in Int
  BY OrderFacts, OutcomeType DEF Share
<1> QED BY <1>1, OrderFacts, TotalType, CommittedIs

\* One more order adds its outcome.
LEMMA CommittedAppended ==
    ASSUME orders \in Seq(OrderType), NEW o \in OrderType, orders' = Append(orders, o), NEW l
    PROVE  Committed(l)' = Committed(l) + IF o.leg = l THEN Outcome(o) ELSE 0
<1> DEFINE n == Len(orders)
           f == Share(l)
           g == [i \in Ids' |-> IF orders'[i].leg = l THEN Outcome(orders'[i]) ELSE 0]
<1>1. /\ n \in Nat /\ Ids = 1 .. n /\ Ids' = 1 .. n + 1 /\ Len(orders') = n + 1
      /\ orders'[n + 1] = o /\ \A i \in 1 .. n : orders'[i] = orders[i]
  BY OrderFacts, Appended DEF Ids
<1>2. ASSUME NEW k \in 1 .. n
      PROVE  f[k] \in Int /\ g[k] = f[k]
  <2>1. f[k] \in Int /\ k \in Ids /\ k \in Ids' /\ orders'[k] = orders[k]
    BY <1>1, ShareType
  <2> QED BY <2>1 DEF Share
<1>3. g[n + 1] = IF o.leg = l THEN Outcome(o) ELSE 0
  BY <1>1
<1>4. Committed(l)' = Total(g, n + 1)
  BY <1>1 DEF Committed, Outcome, Positions
<1> HIDE DEF g, f
<1>5. Total(g, n) = Total(f, n)
  BY <1>1, <1>2, TotalSame
<1>6. Total(g, n + 1) = Total(g, n) + g[n + 1] /\ Total(f, n) \in Int
  BY <1>1, <1>2, TotalStep, TotalType
<1> QED BY <1>3, <1>4, <1>5, <1>6, CommittedIs DEF f

\* One order changed moves the sum as its outcome moves.
LEMMA CommittedMoved ==
    ASSUME orders \in Seq(OrderType), orders' \in Seq(OrderType), Ids' = Ids,
           NEW i \in Ids, orders'[i].leg = orders[i].leg,
           \A j \in Ids : j # i => orders'[j] = orders[j], NEW l
    PROVE  Committed(l)' = Committed(l) + IF orders[i].leg = l
                                          THEN Outcome(orders'[i]) - Outcome(orders[i]) ELSE 0
<1> DEFINE n == Len(orders)
           f == Share(l)
           g == [j \in Ids' |-> IF orders'[j].leg = l THEN Outcome(orders'[j]) ELSE 0]
<1>1. /\ n \in Nat /\ Ids = 1 .. n /\ Len(orders') = n /\ i \in 1 .. n
      /\ \A k \in Ids : orders[k] \in OrderType /\ orders'[k] \in OrderType
  <2>1. Len(orders') \in Nat /\ Ids' = 1 .. Len(orders')
        /\ \A k \in Ids' : orders'[k] \in OrderType
    BY DEF Ids
  <2> QED BY <2>1, OrderFacts
<1>2. ASSUME NEW k \in 1 .. n
      PROVE  /\ f[k] = IF orders[k].leg = l THEN Outcome(orders[k]) ELSE 0
             /\ g[k] = IF orders'[k].leg = l THEN Outcome(orders'[k]) ELSE 0
             /\ Outcome(orders[k]) \in Int /\ Outcome(orders'[k]) \in Int
  BY <1>1, OutcomeType DEF Share
<1>3. Committed(l)' = Total(g, n)
  BY <1>1 DEF Committed, Outcome, Positions
<1> HIDE DEF g, f
<1>4. ASSUME NEW k \in 1 .. n
      PROVE  f[k] \in Int /\ g[k] \in Int /\ (k # i => g[k] = f[k])
  BY <1>1, <1>2
<1>5. Total(g, n) = Total(f, n) + (g[i] - f[i])
  BY <1>1, <1>4, TotalChange
<1>6. g[i] - f[i] = IF orders[i].leg = l THEN Outcome(orders'[i]) - Outcome(orders[i]) ELSE 0
  BY <1>1, <1>2
<1> QED BY <1>3, <1>5, <1>6, CommittedIs DEF f

-----------------------------------------------------------------------------
(* Positions on a quiet day *)

\* An order that is over never changes again.
LEMMA OverForGood ==
    ASSUME IInv, [Next]_vars, NEW i \in Ids, orders[i].status # "open"
    PROVE  orders'[i] = orders[i]
<1> USE DEF IInv
<1>1. orders \in Seq(OrderType)
  BY DEF TypeOK
<1>2. ASSUME NEW k \in Ids, VenueFill(k) \/ VenueKill(k)
      PROVE  orders'[i] = orders[i]
  BY <1>1, <1>2, Updated
<1>3. ASSUME NEW l \in Legs, PlaceAnswered(l) \/ PlaceUnanswered(l)
      PROVE  orders'[i] = orders[i]
  <2>1. op.act # "none"
    BY <1>3 DEF PlaceAnswered, PlaceUnanswered, MayPlace, Leg, CallOK
  <2>2. orders' = Append(orders, LegOrder(l)) \/ UNCHANGED orders
    BY <1>3 DEF PlaceAnswered, PlaceUnanswered, venue
  <2> QED BY <1>1, <2>1, <2>2, LegOrderType, Appended
<1>4. ASSUME NEW l \in Legs, Flatten(l)
      PROVE  orders'[i] = orders[i]
  <2>1. (orders' = Append(orders, FlatOrder(l)) \/ UNCHANGED orders) /\ l \in flats
    BY <1>4 DEF Flatten
  <2> QED BY <1>1, <2>1, FlatOrderType, Appended
<1> QED BY <1>2, <1>3, <1>4, WhoSends

\* The steps a quiet day leaves.
QuietSubmit(l) == ReuseTicket(l) \/ PlaceAnswered(l) \/ PlaceRefused(l) \/ JournalTicket(l)
                  \/ SettleFilled(l) \/ SettleRejected(l)
QuietReturn == OpenFilled \/ RolledBack \/ CloseFilled \/ CloseHalted
QuietOther == NextBar \/ Resume \/ StartWithoutMargin \/ UNCHANGED vars

LEMMA QuietSubmits ==
    ASSUME Quiet, IInv, QuietLegs, NEW l \in Legs, Submit(l)
    PROVE  QuietSubmit(l)
    BY DEF Quiet, QuietLegs, Submit, QuietSubmit, PlaceUnanswered, SettleTimeout,
       ReadRaises, ReconcileFound, ReconcileNothing, Leg

LEMMA QuietSteps ==
    ASSUME Quiet, IInv, QuietLegs, [Next]_vars
    PROVE  \/ \E l \in Legs : Submit(l) /\ QuietSubmit(l)
           \/ \E l \in Legs : Flatten(l)
           \/ \E i \in Ids : VenueFill(i) \/ VenueKill(i)
           \/ StartRollback \/ QuietReturn
           \/ StartOpen \/ StartClose \/ QuietOther
<1>1. crashes \in Nat /\ MaxCrashes = 0 /\ op.legs \subseteq Legs
  BY DEF Quiet, IInv, TypeOK
<1>2. ~Crash /\ ~SaveState
  BY <1>1 DEF Crash, SaveState
<1>3. All({"uncertain"}) = {} /\ All({"raised"}) = {}
  BY <1>1 DEF QuietLegs, All
<1>4. ~OpenHalted /\ ~CallRaises
  BY <1>3 DEF OpenHalted, CallRaises
<1> QED
  BY <1>2, <1>4, QuietSubmits
  DEF Next, Trader, Complete, Venue, Runner, QuietReturn, QuietOther

\* A leg under way and its order, between calls and in one.
LEMMA IdleLeg ==
    ASSUME IInv, QuietLegs, NEW l \in Legs
    PROVE  /\ run[l].order # NoOrder => l \in op.legs /\ op.act # "none"
           /\ op.act = "none" => run[l] = FreshLeg
<1>1. run[l].order # NoOrder => l \in op.legs
  BY DEF IInv, LegsOK, FreshLeg
<1>2. op.act = "none" => op.legs = {}
  BY DEF IInv, CallOK, NoCall
<1> QED BY <1>1, <1>2 DEF IInv, LegsOK

\* An order known for a leg that was not sent was cancelled in an earlier try
\* of the same close.
LEMMA ReusedOver ==
    ASSUME Quiet, QuietInv, NEW l \in Legs, ReuseTicket(l)
    PROVE  /\ run[l].order = NoOrder
           /\ Known(l) \in Ids /\ Known(l) # NoOrder
           /\ LET o == orders[Known(l)]
              IN  /\ o.use = "leg" /\ o.leg = l /\ o.intent = Current
                  /\ o.status = "cancelled" /\ o.filled = 0
<1> USE DEF QuietInv, IInv
<1> DEFINE k == Known(l)
<1>1. /\ op.phase = "legs" /\ l \in op.legs /\ op.act # "none" /\ run[l].order = NoOrder
      /\ k # NoOrder
  BY DEF ReuseTicket, Leg, CallOK, FreshOK
<1>2. k \in Ids /\ orders[k].leg = l
  BY <1>1, KnownTicket
<1>3. orders[k].use = "leg" /\ orders[k].intent = Current
  <2>1. Tickets(journal, Current, l) # {}
    BY <1>1 DEF Known, OrderIdFor
  <2>2. PICK r \in Tickets(journal, Current, l) : k = r.order
    BY <2>1 DEF Known, OrderIdFor
  <2> QED BY <2>2 DEF TicketsName, Tickets
<1>4. QuietOrder(orders[k]) /\ Belongs(k) /\ run[l].order # k
  BY <1>1, <1>2 DEF QuietOrders
<1>5. op.act = "close"
  <2>1. op.act # "open"
    BY <1>2, <1>3, <1>4 DEF Belongs
  <2> QED BY <1>1, <2>1 DEF TypeOK
<1>6. orders[k].intent.act = "close" /\ orders[k].intent.at = clock
  BY <1>3, <1>5, <1>1 DEF Current, Intent, QuietBook
<1>7. orders[k].status = "cancelled"
  BY <1>1, <1>2, <1>3, <1>4, <1>5, <1>6 DEF Belongs, CallOK
<1> QED BY <1>1, <1>2, <1>3, <1>4, <1>7 DEF QuietOrder

\* The leg whose thread steps, with the rest of the state unmoved.
LEMMA QuietFrame ==
    ASSUME IInv, NEW l \in Legs, Submit(l)
    PROVE  /\ run \in LegStates /\ op' = op /\ flats' = flats /\ book' = book
           /\ clock' = clock /\ tried' = tried /\ Current' = Current
           /\ op.phase = "legs" /\ op.act # "none" /\ l \in op.legs /\ op.legs \subseteq Legs
           /\ \A k \in Legs \ {l} : run'[k] = run[k]
    BY SubmitFrame, SubmitType DEF IInv, TypeOK, LegStates, count, Current

LEMMA QuietLegsStep ==
    ASSUME Quiet, QuietInv, [Next]_vars
    PROVE  QuietLegs'
<1> USE DEF QuietInv
<1>1. Kept
  BY OrdersStep DEF IInv
<1>2. ASSUME NEW l \in Legs, run'[l] = run[l], Current' = Current
      PROVE  /\ run'[l].pc \in {"todo", "answered", "polling", "filled", "rejected"}
             /\ run'[l].order # NoOrder =>
                   /\ run'[l].order \in Ids'
                   /\ orders'[run'[l].order].use = "leg" /\ orders'[run'[l].order].leg = l
                   /\ orders'[run'[l].order].intent = Current'
             /\ run'[l].pc \in {"answered", "polling", "filled"} => run'[l].order # NoOrder
             /\ run'[l].pc = "filled" => /\ run'[l].qty = Qty[l] /\ run'[l].priced
                                         /\ orders'[run'[l].order].status = "executed"
             /\ run'[l].pc = "rejected" /\ run'[l].order # NoOrder =>
                   orders'[run'[l].order].status = "cancelled"
  BY <1>1, <1>2, OverForGood DEF QuietLegs, Kept
<1>3. CASE run' = run /\ Current' = Current
  BY <1>2, <1>3 DEF QuietLegs
<1>4. CASE run' = [l \in Legs |-> FreshLeg]
  BY <1>4 DEF QuietLegs, FreshLeg
<1>5. ASSUME NEW l \in Legs, Submit(l), QuietSubmit(l)
      PROVE  QuietLegs'
  <2>1. /\ run \in LegStates /\ Current' = Current /\ l \in op.legs /\ op.act # "none"
        /\ \A k \in Legs \ {l} : run'[k] = run[k]
    BY <1>5, QuietFrame
  <2> DEFINE Good ==
        /\ run'[l].pc \in {"todo", "answered", "polling", "filled", "rejected"}
        /\ run'[l].order # NoOrder =>
              /\ run'[l].order \in Ids'
              /\ orders'[run'[l].order].use = "leg" /\ orders'[run'[l].order].leg = l
              /\ orders'[run'[l].order].intent = Current
        /\ run'[l].pc \in {"answered", "polling", "filled"} => run'[l].order # NoOrder
        /\ run'[l].pc = "filled" => /\ run'[l].qty = Qty[l] /\ run'[l].priced
                                    /\ orders'[run'[l].order].status = "executed"
        /\ run'[l].pc = "rejected" /\ run'[l].order # NoOrder =>
              orders'[run'[l].order].status = "cancelled"
  <2>2. ASSUME ReuseTicket(l)  PROVE Good
    <3>1. run'[l].pc = "polling" /\ run'[l].order = Known(l)
      BY <2>1, <2>2 DEF ReuseTicket, LegStates
    <3> QED BY <1>1, <2>2, <3>1, ReusedOver DEF Kept
  <2>3. ASSUME PlaceAnswered(l)  PROVE Good
    <3>1. run'[l].pc = "answered" /\ run'[l].order = Len(orders) + 1
      BY <2>1, <2>3 DEF PlaceAnswered, LegStates
    <3>2. orders' = Append(orders, LegOrder(l)) /\ orders \in Seq(OrderType)
      BY <2>3 DEF PlaceAnswered, IInv, TypeOK
    <3>3. Len(orders) + 1 # NoOrder
      BY <3>2, OrderFacts DEF NoOrder
    <3> QED BY <2>1, <3>1, <3>2, <3>3, LegOrderType, Appended DEF IInv
  <2>4. ASSUME PlaceRefused(l)  PROVE Good
    <3>1. run'[l].pc = "rejected" /\ run'[l].order = NoOrder
      BY <2>1, <2>4 DEF PlaceRefused, MayPlace, Leg, Becomes, FreshOK, LegStates
    <3> QED BY <3>1
  <2>5. ASSUME JournalTicket(l)  PROVE Good
    <3>1. run'[l].pc = "polling" /\ run'[l].order = run[l].order /\ run[l].pc = "answered"
      BY <2>1, <2>5 DEF JournalTicket, Leg, Becomes, LegStates
    <3> QED BY <1>1, <3>1 DEF QuietLegs, Kept
  <2>6. ASSUME SettleFilled(l)  PROVE Good
    <3>1. run'[l] = [run[l] EXCEPT !.pc = "filled", !.qty = orders[run[l].order].filled,
                                   !.priced = TRUE]
      BY <2>1, <2>6 DEF SettleFilled, Settled, LegStates, Quiet
    <3>2. /\ run[l].pc = "polling" /\ run[l].order \in Ids
          /\ orders[run[l].order].status = "executed"
      BY <2>6 DEF SettleFilled, Leg, QuietLegs
    <3>3. orders[run[l].order].filled = Qty[l]
      BY <3>2 DEF QuietOrders, QuietOrder, QuietLegs
    <3>4. /\ run'[l].pc = "filled" /\ run'[l].qty = Qty[l] /\ run'[l].priced
          /\ run'[l].order = run[l].order
      BY <2>1, <3>1, <3>3 DEF LegStates
    <3> QED BY <1>1, <3>2, <3>4, OverForGood DEF QuietLegs, Kept
  <2>7. ASSUME SettleRejected(l)  PROVE Good
    <3>1. run'[l] = [run[l] EXCEPT !.pc = "rejected", !.qty = 0, !.priced = FALSE]
      BY <2>1, <2>7 DEF SettleRejected, Settled, LegStates
    <3>2. /\ run[l].pc = "polling" /\ run[l].order \in Ids
          /\ orders[run[l].order].status = "cancelled"
      BY <2>7 DEF SettleRejected, Leg, QuietLegs
    <3>3. run'[l].pc = "rejected" /\ run'[l].order = run[l].order
      BY <2>1, <3>1 DEF LegStates
    <3> QED BY <1>1, <3>2, <3>3, OverForGood DEF QuietLegs, Kept
  <2>8. Good
    BY <1>5, <2>2, <2>3, <2>4, <2>5, <2>6, <2>7 DEF QuietSubmit
  <2> HIDE DEF Good
  <2>9. \A k \in Legs \ {l} : run'[k] = run[k]
    BY <2>1
  <2> QED BY <1>2, <2>1, <2>8, <2>9 DEF QuietLegs, Good
<1>6. CASE QuietReturn \/ StartOpen \/ StartClose
  <2>1. QuietReturn => NoCallLeft
    BY Ending DEF QuietReturn
  <2> QED BY <1>4, <1>6, <2>1 DEF NoCallLeft, StartOpen, StartClose, Begin
<1>7. CASE StartRollback
  BY <1>3, <1>7 DEF StartRollback, Current, IInv, TypeOK
<1>8. CASE \/ QuietOther \/ \E l \in Legs : Flatten(l)
           \/ \E i \in Ids : VenueFill(i) \/ VenueKill(i)
  BY <1>3, <1>8 DEF QuietOther, NextBar, Resume, StartWithoutMargin, vars, call, Flatten,
     VenueFill, VenueKill, Current
<1> QED BY <1>5, <1>6, <1>7, <1>8, QuietSteps

LEMMA TicketsNameStep ==
    ASSUME Quiet, QuietInv, [Next]_vars
    PROVE  TicketsName'
<1> USE DEF QuietInv
<1>1. Kept /\ TicketsOK
  BY OrdersStep DEF IInv
<1>2. CASE Submitted(journal') \subseteq Submitted(journal)
  BY <1>1, <1>2 DEF TicketsName, TicketsOK, Kept, Submitted
<1>3. ASSUME NEW l \in Legs, JournalTicket(l)
      PROVE  TicketsName'
  <2> DEFINE row == Row(Current, "SUBMITTED", l, run[l].order)
  <2>1. /\ run[l].order \in Ids /\ orders[run[l].order].use = "leg"
        /\ orders[run[l].order].intent = Current
    BY <1>3 DEF JournalTicket, Leg, QuietLegs
  <2>2. journal' \subseteq journal \cup {row}
    BY <1>3 DEF JournalTicket, WithTicket, Record
  <2>3. row.order = run[l].order /\ row.intent = Current
    BY DEF Row
  <2> QED BY <1>1, <2>1, <2>2, <2>3 DEF TicketsName, TicketsOK, Kept
<1>4. ASSUME NEW l \in Legs
      PROVE  ~ReconcileFound(l)
  BY <1>4 DEF ReconcileFound, Leg, QuietLegs
<1> QED BY <1>2, <1>3, <1>4, WhoWrites

\* A halted close leaves a leg in the book: the one that did not fill.
LEMMA HaltLeavesOpen ==
    ASSUME IInv, CloseHalted
    PROVE  book.open \ ClosedLegs \in (SUBSET book.open) \ {{}}
<1> USE DEF IInv
<1>1. PICK f \in op.legs : run[f].pc \in {"rejected", "uncertain", "raised"}
  BY DEF CloseHalted, Returned, Joined, Failed, All
<1>2. f \in book.open /\ f \notin ClosedLegs
  BY <1>1 DEF CloseHalted, CallOK, ClosedLegs, All
<1> QED BY <1>2

\* What the venue did to the order it moved.
LEMMA VenueMoves ==
    ASSUME orders \in Seq(OrderType), NEW i \in Ids
    PROVE  /\ orders[i] \in OrderType
           /\ VenueFill(i) => /\ orders'[i].filled = orders[i].filled + 1
                              /\ orders'[i].qty = orders[i].qty
                              /\ orders'[i].status = IF orders[i].filled + 1 = orders[i].qty
                                                     THEN "executed" ELSE "open"
           /\ VenueKill(i) => /\ orders'[i].filled = orders[i].filled
                              /\ orders'[i].qty = orders[i].qty
                              /\ orders'[i].status = "cancelled"
<1> DEFINE o == orders[i]
           filled == [o EXCEPT !.filled = @ + 1,
                               !.status = IF o.filled + 1 = o.qty THEN "executed" ELSE "open"]
           killed == [o EXCEPT !.status = "cancelled"]
<1>1. o \in OrderType /\ i \in 1 .. Len(orders) /\ i \in DOMAIN orders
  BY OrderFacts DEF Ids
<1>2. ASSUME VenueFill(i)
      PROVE  /\ orders'[i].filled = o.filled + 1 /\ orders'[i].qty = o.qty
             /\ orders'[i].status = IF o.filled + 1 = o.qty THEN "executed" ELSE "open"
  <2>1. orders' = [orders EXCEPT ![i] = filled]
    BY <1>1, <1>2 DEF VenueFill
  <2>2. filled.filled = o.filled + 1 /\ filled.qty = o.qty
        /\ filled.status = IF o.filled + 1 = o.qty THEN "executed" ELSE "open"
    BY <1>1 DEF OrderType
  <2> HIDE DEF filled
  <2>3. orders'[i] = filled
    BY <1>1, <2>1, ExceptSeq
  <2> QED BY <2>2, <2>3
<1>3. ASSUME VenueKill(i)
      PROVE  /\ orders'[i].filled = o.filled /\ orders'[i].qty = o.qty
             /\ orders'[i].status = "cancelled"
  <2>1. orders' = [orders EXCEPT ![i] = killed]
    BY <1>1, <1>3 DEF VenueKill
  <2>2. killed.filled = o.filled /\ killed.qty = o.qty /\ killed.status = "cancelled"
    BY <1>1 DEF OrderType
  <2> HIDE DEF killed
  <2>3. orders'[i] = killed
    BY <1>1, <2>1, ExceptSeq
  <2> QED BY <2>2, <2>3
<1> QED BY <1>1, <1>2, <1>3

\* The two orders a quiet step adds.
LEMMA QuietAppends ==
    ASSUME QuietInv, NEW l \in Legs
    PROVE  /\ PlaceAnswered(l) =>
                 /\ orders' = Append(orders, LegOrder(l)) /\ LegOrder(l) \in OrderType
                 /\ LegOrder(l).leg = l /\ LegOrder(l).use = "leg"
                 /\ LegOrder(l).intent = Current /\ QuietOrder(LegOrder(l))
                 /\ LegOrder(l).filled = 0 /\ LegOrder(l).status = "open"
           /\ Quiet /\ Flatten(l) =>
                 /\ orders' = Append(orders, FlatOrder(l)) /\ FlatOrder(l) \in OrderType
                 /\ FlatOrder(l).leg = l /\ FlatOrder(l).use = "flat"
                 /\ FlatOrder(l).intent = Current /\ QuietOrder(FlatOrder(l))
                 /\ FlatOrder(l).filled = 0 /\ FlatOrder(l).status = "open"
                 /\ l \in flats /\ op.act = "open" /\ run[l].pc = "filled"
<1> USE DEF QuietInv, IInv
<1>0. Qty[l] \in Nat \ {0}
  BY LegsAssumption
<1>1. ASSUME PlaceAnswered(l)
      PROVE  /\ orders' = Append(orders, LegOrder(l)) /\ LegOrder(l) \in OrderType
             /\ LegOrder(l).leg = l /\ LegOrder(l).use = "leg"
             /\ LegOrder(l).intent = Current /\ QuietOrder(LegOrder(l))
             /\ LegOrder(l).filled = 0 /\ LegOrder(l).status = "open"
  <2>1. op.act # "none" /\ orders' = Append(orders, LegOrder(l))
    BY <1>1 DEF PlaceAnswered, MayPlace, Leg, CallOK
  <2>2. LegOrder(l).filled = 0 /\ LegOrder(l).qty = Qty[l]
    BY DEF LegOrder, Order
  <2> QED BY <1>0, <2>1, <2>2, LegOrderType DEF QuietOrder, Current, Intent
<1>2. ASSUME Quiet, Flatten(l)
      PROVE  /\ orders' = Append(orders, FlatOrder(l)) /\ FlatOrder(l) \in OrderType
             /\ FlatOrder(l).leg = l /\ FlatOrder(l).use = "flat"
             /\ FlatOrder(l).intent = Current /\ QuietOrder(FlatOrder(l))
             /\ FlatOrder(l).filled = 0 /\ FlatOrder(l).status = "open"
             /\ l \in flats /\ op.act = "open" /\ run[l].pc = "filled"
  <2>1. orders' = Append(orders, FlatOrder(l)) /\ l \in flats /\ op.act = "open"
    BY <1>2 DEF Flatten, Quiet, NoRollbackUnderUncertainty
  <2>2. run[l].pc = "filled" /\ run[l].qty = Qty[l]
    BY <2>1 DEF CallOK, All, QuietLegs
  <2>3. /\ FlatOrder(l).filled = 0 /\ FlatOrder(l).qty = Qty[l] /\ FlatOrder(l).leg = l
        /\ FlatOrder(l).intent = Current /\ FlatOrder(l).side = Opposite(Side[l])
    BY <2>1, <2>2 DEF FlatOrder, Order, SideOf
  <2> QED BY <1>0, <2>1, <2>2, <2>3, FlatOrderType DEF QuietOrder, Current, Intent
<1> QED BY <1>1, <1>2

\* Only the two of them add orders.
LEMMA QuietNew ==
    ASSUME Quiet, QuietInv, [Next]_vars, NEW i \in Ids' \ Ids
    PROVE  /\ i = Len(orders) + 1
           /\ \E l \in Legs : \/ PlaceAnswered(l) /\ orders'[i] = LegOrder(l)
                              \/ Flatten(l) /\ orders'[i] = FlatOrder(l)
<1> USE DEF QuietInv, IInv
<1>1. orders \in Seq(OrderType)
  BY DEF TypeOK
<1>2. ~UNCHANGED orders
  BY DEF Ids
<1>3. \A k \in Ids : ~VenueFill(k) /\ ~VenueKill(k)
  BY <1>1, Updated
<1>4. \A l \in Legs : ~PlaceUnanswered(l)
  BY DEF Quiet, PlaceUnanswered
<1>5. PICK l \in Legs : PlaceAnswered(l) \/ Flatten(l)
  BY <1>2, <1>3, <1>4, WhoSends
<1> QED BY <1>1, <1>5, QuietAppends, Appended

\* Every order keeps its shape and ends whole or not at all.
LEMMA QuietOrderStep ==
    ASSUME Quiet, QuietInv, [Next]_vars, NEW i \in Ids'
    PROVE  QuietOrder(orders'[i])
<1> USE DEF QuietInv, IInv
<1>1. orders \in Seq(OrderType) /\ Kept
  BY OrdersStep DEF TypeOK
<1>2. CASE i \notin Ids
  BY <1>2, QuietNew, QuietAppends
<1>3. CASE i \in Ids /\ orders'[i] = orders[i]
  BY <1>3 DEF QuietOrders
<1>4. CASE i \in Ids /\ (VenueFill(i) \/ VenueKill(i))
  <2>1. orders[i] \in OrderType /\ orders[i].status = "open" /\ QuietOrder(orders[i])
    BY <1>1, <1>4, OrderFacts DEF VenueFill, VenueKill, QuietOrders
  <2>2. CASE VenueFill(i)
    <3>1. /\ orders'[i].filled = orders[i].filled + 1 /\ orders'[i].qty = orders[i].qty
          /\ orders'[i].status = IF orders[i].filled + 1 = orders[i].qty
                                 THEN "executed" ELSE "open"
      BY <1>1, <1>4, <2>2, VenueMoves
    <3>2. orders[i].filled \in Nat /\ orders[i].qty \in Nat
      BY <2>1 DEF OrderType
    <3> QED BY <1>1, <1>4, <2>1, <3>1, <3>2 DEF Kept, QuietOrder
  <2>3. CASE VenueKill(i)
    <3>1. /\ orders'[i].filled = orders[i].filled /\ orders'[i].qty = orders[i].qty
          /\ orders'[i].status = "cancelled"
      BY <1>1, <1>4, <2>3, VenueMoves
    <3>2. orders[i].filled = 0 /\ orders[i].use # "flat"
      BY <2>1, <2>3 DEF VenueKill, Quiet, OrderType
    <3> QED BY <1>1, <1>4, <2>1, <3>1, <3>2 DEF Kept, QuietOrder
  <2> QED BY <1>4, <2>2, <2>3
<1>5. ASSUME i \in Ids
      PROVE  orders'[i] = orders[i] \/ VenueFill(i) \/ VenueKill(i)
  <2>1. ASSUME NEW l \in Legs, PlaceAnswered(l) \/ Flatten(l)
        PROVE  orders'[i] = orders[i]
    BY <1>1, <1>5, <2>1, QuietAppends, Appended
  <2>2. ASSUME NEW k \in Ids, VenueFill(k) \/ VenueKill(k)
        PROVE  orders'[i] = orders[i] \/ VenueFill(i) \/ VenueKill(i)
    BY <1>1, <1>5, <2>2, Updated
  <2>3. \A l \in Legs : ~PlaceUnanswered(l)
    BY DEF Quiet, PlaceUnanswered
  <2> QED BY <2>1, <2>2, <2>3, WhoSends
<1> QED BY <1>2, <1>3, <1>4, <1>5

\* Which call an order belongs to, for the orders there were before the step.
LEMMA BelongsKept ==
    ASSUME Quiet, QuietInv, [Next]_vars, NEW i \in Ids
    PROVE  Belongs(i)'
<1> USE DEF QuietInv, IInv
<1> DEFINE o == orders[i]
           p == orders'[i]
           mine == run[o.leg].order = i
           mineNext == run'[o.leg].order = i
<1>1. /\ orders \in Seq(OrderType) /\ o \in OrderType /\ o.leg \in Legs
      /\ p.intent = o.intent /\ p.use = o.use /\ p.leg = o.leg
      /\ o.intent.at \in Nat /\ i # NoOrder
  BY OrdersStep, OrderFacts DEF TypeOK, Kept, OrderType, NoOrder
<1>2. o.status # "open" => p = o
  BY OverForGood
<1>3. p.status # "cancelled" => o.status # "cancelled"
  BY <1>2
<1>4. /\ o.intent.at <= clock
      /\ o.intent.act = "open" => o.intent.at <= tried
      /\ o.use = "leg" /\ o.status = "open" => mine /\ run[o.leg].pc \in {"answered", "polling"}
      /\ o.use = "leg" /\ op.act = "open" /\ o.intent = Current => mine
      /\ o.use = "leg" /\ o.intent.act = "close" /\ o.intent.at = clock
            /\ o.status # "cancelled" =>
                /\ mine \/ o.leg \notin book.open
                /\ book.open # {} \/ book.spent = clock
  BY DEF QuietOrders, Belongs
<1>5. ASSUME clock' = clock, tried' = tried, Current' = Current, op'.act = op.act, book' = book,
             mine => mineNext,
             mine /\ p.status = "open" /\ run[o.leg].pc \in {"answered", "polling"} =>
                run'[o.leg].pc \in {"answered", "polling"}
      PROVE  Belongs(i)'
  BY <1>1, <1>2, <1>3, <1>4, <1>5 DEF Belongs
<1>6. ASSUME NEW l \in Legs, Submit(l), QuietSubmit(l)
      PROVE  Belongs(i)'
  <2>1. /\ run \in LegStates /\ op' = op /\ book' = book /\ clock' = clock /\ tried' = tried
        /\ Current' = Current /\ l \in op.legs /\ \A k \in Legs \ {l} : run'[k] = run[k]
    BY <1>6, QuietFrame
  <2>2. CASE o.leg # l
    BY <1>1, <1>5, <2>1, <2>2
  <2>3. CASE o.leg = l
    <3>1. ASSUME ReuseTicket(l) \/ PlaceAnswered(l) \/ PlaceRefused(l)
          PROVE  ~mine
      BY <1>1, <2>1, <2>3, <3>1
         DEF ReuseTicket, PlaceAnswered, PlaceRefused, MayPlace, Leg, FreshOK
    <3>2. ASSUME JournalTicket(l)
          PROVE  run'[l].order = run[l].order /\ run'[l].pc = "polling"
      BY <2>1, <3>2 DEF JournalTicket, Becomes, LegStates
    <3>3. ASSUME SettleFilled(l) \/ SettleRejected(l)
          PROVE  /\ run'[l].order = run[l].order
                 /\ mine => o.status # "open"
      <4>1. PICK pc, qty, priced : run' = [run EXCEPT ![l].pc = pc, ![l].qty = qty,
                                                      ![l].priced = priced]
        BY <3>3 DEF SettleFilled, SettleRejected, Settled
      <4>2. run'[l].order = run[l].order
        BY <2>1, <4>1 DEF LegStates
      <4>3. orders[run[l].order].status # "open"
        BY <3>3 DEF SettleFilled, SettleRejected
      <4> QED BY <2>3, <4>2, <4>3
    <3>4. mine => mineNext
      BY <1>6, <2>3, <3>1, <3>2, <3>3 DEF QuietSubmit
    <3>5. mine /\ p.status = "open" => run'[l].pc \in {"answered", "polling"}
      BY <1>2, <1>6, <2>3, <3>1, <3>2, <3>3 DEF QuietSubmit
    <3> QED BY <1>5, <2>1, <2>3, <3>4, <3>5
  <2> QED BY <2>2, <2>3
<1>7. CASE \/ \E l \in Legs : Flatten(l)
           \/ \E k \in Ids : VenueFill(k) \/ VenueKill(k)
  BY <1>5, <1>7 DEF Flatten, VenueFill, VenueKill, call, local, count, Current
<1>8. CASE StartRollback
  BY <1>5, <1>8 DEF StartRollback, local, count, Current, TypeOK
<1>9. ASSUME QuietReturn
      PROVE  /\ ~mineNext /\ op'.act = "none" /\ clock' = clock /\ tried' = tried
             /\ o.use = "leg" => o.status # "open"
             /\ op.act # "none" /\ op.at = clock
  <2>1. NoCallLeft /\ clock' = clock /\ tried' = tried /\ op.act # "none"
    BY <1>9, Ending DEF QuietReturn, OpenFilled, RolledBack, CloseFilled, CloseHalted, count,
       NoRollbackUnderUncertainty
  <2>2. ~mineNext /\ op'.act = "none"
    BY <1>1, <2>1 DEF NoCallLeft, FreshLeg, NoCall
  <2>3. run[o.leg].pc \notin {"answered", "polling"}
    BY <1>1, <1>9, NoneWaits DEF QuietReturn
  <2> QED BY <1>4, <2>1, <2>2, <2>3 DEF QuietBook
<1>10. ASSUME QuietReturn, o.use = "leg", o.intent.act = "close", o.intent.at = clock,
              o.status # "cancelled"
       PROVE  o.leg \notin book'.open /\ (book'.open # {} \/ book'.spent = clock)
  <2>1. op.act # "open"
    BY <1>4, <1>10 DEF QuietBook, CallOK
  <2>2. ~OpenFilled /\ ~RolledBack
    BY <2>1 DEF OpenFilled, RolledBack, NoRollbackUnderUncertainty
  <2>3. CASE CloseFilled
    <3>1. book'.open = {} /\ book'.spent = op.at
      BY <2>3 DEF CloseFilled, Quiet
    <3> QED BY <1>9, <1>10, <3>1
  <2>4. CASE CloseHalted
    <3>1. book'.open = book.open \ ClosedLegs /\ book'.open # {}
      BY <2>4, HaltLeavesOpen DEF CloseHalted, TypeOK, BookType
    <3>2. CASE o.leg \notin book.open
      BY <3>1, <3>2
    <3>3. CASE mine
      <4>1. /\ o.leg \in op.legs /\ run[o.leg].order # NoOrder
            /\ run[o.leg].pc \in {"todo", "answered", "polling", "filled", "rejected"}
        BY <1>1, <3>3, IdleLeg DEF QuietLegs
      <4>2. run[o.leg].pc \notin {"todo", "answered", "polling", "rejected"}
        BY <1>1, <1>10, <2>4, <3>3, <4>1, NoneWaits DEF FreshOK, QuietLegs
      <4>3. o.leg \in ClosedLegs
        BY <1>1, <4>1, <4>2 DEF ClosedLegs, All, QuietLegs
      <4> QED BY <3>1, <4>3
    <3> QED BY <1>4, <1>10, <3>2, <3>3
  <2> QED BY <1>10, <2>2, <2>3, <2>4 DEF QuietReturn
<1>11. CASE QuietReturn
  BY <1>1, <1>2, <1>3, <1>4, <1>9, <1>10, <1>11 DEF Belongs
<1>12. ASSUME StartOpen \/ StartClose
       PROVE  /\ ~mine /\ ~mineNext /\ clock' = clock /\ book' = book
              /\ o.use = "leg" => o.status # "open"
  <2>1. op.act = "none" /\ run' = [l \in Legs |-> FreshLeg] /\ clock' = clock /\ book' = book
    BY <1>12 DEF StartOpen, StartClose, Begin, Busy, local
  <2>2. ~mine /\ ~mineNext
    BY <1>1, <2>1, IdleLeg DEF FreshLeg
  <2> QED BY <1>4, <2>1, <2>2
<1>13. CASE StartOpen
  <2>1. /\ op'.act = "open" /\ tried' = clock /\ Current' = Intent("open", clock, Legs)
        /\ tried # clock /\ book.open = {} /\ book.spent # clock
    BY <1>13 DEF StartOpen, Begin, MayEnter, Quiet, Current
  <2>2. o.intent # Current'
    BY <1>1, <1>4, <2>1 DEF Intent, QuietBook, TypeOK
  <2> QED BY <1>1, <1>2, <1>3, <1>4, <1>12, <1>13, <2>1, <2>2 DEF Belongs
<1>14. CASE StartClose
  <2>1. op'.act = "close" /\ tried' = tried
    BY <1>14 DEF StartClose, Begin
  <2> QED BY <1>1, <1>2, <1>3, <1>4, <1>12, <1>14, <2>1 DEF Belongs
<1>15. CASE NextBar
  <2>1. /\ op' = op /\ run' = run /\ op.act = "none" /\ tried' = tried /\ clock' = clock + 1
        /\ p = o /\ clock \in Nat
    BY <1>15 DEF NextBar, Busy, call, venue, TypeOK
  <2> QED BY <1>1, <1>4, <2>1 DEF Belongs
<1>16. CASE StartWithoutMargin
  <2>1. /\ op' = op /\ run' = run /\ op.act = "none" /\ tried' = clock /\ clock' = clock
        /\ p = o /\ book' = book
    BY <1>16 DEF StartWithoutMargin, Busy, call, venue
  <2> QED BY <1>1, <1>4, <2>1 DEF Belongs
<1>17. CASE Resume \/ UNCHANGED vars
  BY <1>5, <1>17 DEF Resume, vars, call, local, count, Current
<1> QED
  BY <1>6, <1>7, <1>8, <1>11, <1>13, <1>14, <1>15, <1>16, <1>17, QuietSteps DEF QuietOther

\* The same for an order the step adds.
LEMMA BelongsNew ==
    ASSUME Quiet, QuietInv, [Next]_vars, NEW i \in Ids' \ Ids
    PROVE  Belongs(i)'
<1> USE DEF QuietInv, IInv
<1>1. PICK l \in Legs : \/ PlaceAnswered(l) /\ orders'[i] = LegOrder(l)
                        \/ Flatten(l) /\ orders'[i] = FlatOrder(l)
  BY QuietNew
<1>2. /\ i = Len(orders) + 1 /\ orders'[i].intent = Current
      /\ clock' = clock /\ tried' = tried /\ op.act # "none" /\ book' = book
      /\ op'.act = op.act /\ Current' = Current /\ Current.at = clock /\ Current.act = op.act
      /\ clock \in Nat
      /\ op.act = "open" => clock = tried
  <2>1. i = Len(orders) + 1 /\ orders'[i].intent = Current
    BY <1>1, QuietNew, QuietAppends
  <2>2. clock' = clock /\ tried' = tried /\ book' = book /\ op.act # "none"
    BY <1>1 DEF PlaceAnswered, Flatten, MayPlace, Leg, CallOK, count, local
  <2>3. op'.act = op.act /\ op'.at = op.at /\ op'.legs = op.legs
    BY <1>1 DEF PlaceAnswered, Flatten
  <2> QED BY <2>1, <2>2, <2>3 DEF Current, Intent, QuietBook, TypeOK
<1>3. CASE PlaceAnswered(l) /\ orders'[i] = LegOrder(l)
  <2>1. orders'[i].leg = l /\ run'[l].order = i /\ run'[l].pc = "answered"
    <3>1. run \in LegStates
      BY DEF TypeOK, LegStates
    <3>2. orders'[i].leg = l
      BY <1>3, QuietAppends
    <3>3. run' = [run EXCEPT ![l].pc = "answered", ![l].order = i]
      BY <1>2, <1>3 DEF PlaceAnswered
    <3> QED BY <3>1, <3>2, <3>3 DEF LegStates
  <2>2. op.act = "close" => book.open # {}
    BY DEF CallOK
  <2>3. orders'[i].intent.at = clock /\ orders'[i].intent.act = op.act
    BY <1>2
  <2>4. clock <= clock'
    BY <1>2
  <2>5. op.act = "open" => clock <= tried'
    BY <1>2
  <2> QED BY <1>2, <2>1, <2>2, <2>3, <2>4, <2>5 DEF Belongs
<1>4. CASE Flatten(l) /\ orders'[i] = FlatOrder(l)
  BY <1>2, <1>4, QuietAppends DEF Belongs, TypeOK
<1> QED BY <1>1, <1>3, <1>4

LEMMA QuietOrdersStep ==
    ASSUME Quiet, QuietInv, [Next]_vars
    PROVE  QuietOrders'
    BY BelongsKept, BelongsNew, QuietOrderStep DEF QuietOrders

\* The adapter's book holds each leg of the open structure whole.
LEMMA QuietBookStep ==
    ASSUME Quiet, QuietInv, [Next]_vars
    PROVE  QuietBook'
<1> USE DEF QuietInv, IInv
<1> DEFINE Whole(b) == b.held = [l \in Legs |-> IF l \in b.open THEN Qty[l] ELSE 0]
<1>1. /\ clock \in Nat /\ tried \in Nat /\ tried <= clock /\ Whole(book)
      /\ \A l \in Legs : Qty[l] \in Nat \ {0}
  BY LegsAssumption DEF TypeOK, QuietBook
<1>2. CASE /\ book' = book /\ clock' = clock /\ tried' = tried /\ op'.act = op.act
           /\ op'.at = op.at
  BY <1>2 DEF QuietBook
<1>3. CASE \E l \in Legs : Submit(l)
  BY <1>2, <1>3, QuietFrame
<1>4. CASE \/ \E l \in Legs : Flatten(l)
           \/ \E i \in Ids : VenueFill(i) \/ VenueKill(i)
           \/ Resume \/ UNCHANGED vars
  BY <1>2, <1>4 DEF Flatten, VenueFill, VenueKill, Resume, vars, call, local, count
<1>5. CASE StartRollback
  BY <1>2, <1>5 DEF StartRollback, local, count, TypeOK
<1>6. ASSUME QuietReturn
      PROVE  Whole(book')
  <2>1. CASE OpenFilled
    <3>1. \A l \in Legs : run[l].pc = "filled" /\ run[l].priced
      BY <2>1 DEF OpenFilled, AllFilled, All, CallOK, QuietLegs
    <3>2. op.legs = Legs /\ book.open = {}
      BY <2>1 DEF OpenFilled, CallOK
    <3>3. Bookable = Legs
      BY <3>1, <3>2 DEF Bookable
    <3>4. book'.held = [l \in Legs |-> book.held[l] + Qty[l]] /\ book'.open = Legs
      BY <2>1, <3>2, <3>3 DEF OpenFilled
    <3>5. \A l \in Legs : book.held[l] + Qty[l] = Qty[l]
      BY <1>1, <3>2
    <3> QED BY <3>4, <3>5
  <2>2. CASE RolledBack
    BY <1>1, <2>2 DEF RolledBack
  <2>3. CASE CloseFilled \/ CloseHalted
    <3>1. ClosedLegs \subseteq book.open /\ op.legs = book.open
      BY <2>3 DEF CloseFilled, CloseHalted, CallOK, ClosedLegs, All
    <3>2. book'.held = Unheld /\ book'.open = book.open \ ClosedLegs
      <4>1. CASE CloseFilled
        <5>1. ClosedLegs = book.open
          BY <3>1, <4>1 DEF CloseFilled, AllFilled, ClosedLegs, All, QuietLegs, TypeOK
        <5> QED BY <4>1, <5>1 DEF CloseFilled
      <4>2. CASE CloseHalted
        BY <4>2 DEF CloseHalted, TypeOK, BookType
      <4> QED BY <2>3, <4>1, <4>2
    <3>3. \A l \in Legs : Unheld[l] = IF l \in book'.open THEN Qty[l] ELSE 0
      BY <1>1, <3>1, <3>2 DEF Unheld
    <3> QED BY <3>2, <3>3 DEF Unheld
  <2> QED BY <1>6, <2>1, <2>2, <2>3 DEF QuietReturn
<1>7. CASE QuietReturn
  <2>1. op'.act = "none" /\ clock' = clock /\ tried' = tried
    BY <1>7, Ending DEF QuietReturn, NoCallLeft, NoCall, OpenFilled, RolledBack, CloseFilled,
       CloseHalted, count
  <2> QED BY <1>1, <1>6, <1>7, <2>1 DEF QuietBook
<1>8. CASE StartOpen \/ StartClose
  BY <1>1, <1>8 DEF StartOpen, StartClose, MayEnter, Begin, local, QuietBook
<1>9. CASE NextBar \/ StartWithoutMargin
  <2>1. /\ op.act = "none" /\ op' = op /\ book' = book
        /\ tried' <= clock'
    BY <1>1, <1>9 DEF NextBar, StartWithoutMargin, Busy, call, local
  <2> QED BY <1>1, <2>1 DEF QuietBook
<1> QED
  BY <1>3, <1>4, <1>5, <1>7, <1>8, <1>9, QuietSteps DEF QuietOther

\* The sum moves with the order book alone.
LEMMA CommittedSame ==
    ASSUME orders' = orders, NEW l
    PROVE  Committed(l)' = Committed(l)
<1> DEFINE F(os) == Total([i \in DOMAIN os |-> IF os[i].leg = l THEN Outcome(os[i]) ELSE 0],
                          Len(os))
<1>1. Committed(l) = F(orders) /\ Committed(l)' = F(orders')
  BY DEF Committed, Ids, Outcome, Positions
<1> HIDE DEF F
<1> QED BY <1>1

\* What a leg that waits for nothing has done to its position.
LEMMA PendingSettled ==
    ASSUME QuietInv, NEW l \in Legs, op.phase # "rollback",
           run[l].pc \in {"todo", "filled", "rejected"}
    PROVE  /\ l \in All({"filled"}) =>
                /\ run[l].priced
                /\ Pending(l) = IF op.act = "close" THEN 0 - Qty[l] ELSE Qty[l]
           /\ l \notin All({"filled"}) => Pending(l) = 0
<1> USE DEF QuietInv, IInv
<1>1. CASE l \in All({"filled"})
  <2>1. /\ run[l].pc = "filled" /\ run[l].order # NoOrder /\ run[l].priced
        /\ run[l].order \in Ids /\ orders[run[l].order].leg = l
        /\ orders[run[l].order].status = "executed"
    BY <1>1 DEF All, QuietLegs
  <2>2. orders[run[l].order].filled = Qty[l]
    BY <2>1 DEF QuietOrders, QuietOrder
  <2>3. Qty[l] \in Nat
    BY LegsAssumption
  <2> QED BY <1>1, <2>1, <2>2, <2>3 DEF Pending
<1>2. CASE l \notin All({"filled"})
  <2>1. CASE run[l].order = NoOrder
    BY <1>2, <2>1 DEF Pending
  <2>2. CASE run[l].order # NoOrder
    <3>1. l \in op.legs
      BY <2>2, IdleLeg
    <3>2. run[l].pc = "rejected"
      BY <1>2, <2>2, <3>1 DEF All, FreshOK
    <3>3. run[l].order \in Ids /\ orders[run[l].order].status = "cancelled"
      BY <2>2, <3>2 DEF QuietLegs
    <3>4. orders[run[l].order].filled = 0
      BY <3>3 DEF QuietOrders, QuietOrder
    <3> QED BY <1>2, <2>2, <3>4 DEF Pending
  <2> QED BY <2>1, <2>2
<1> QED BY <1>1, <1>2

\* A step that leaves the orders a leg follows leaves its position.
LEMMA PendingSame ==
    ASSUME NEW l, run'[l].order = run[l].order, op'.phase = op.phase, op'.act = op.act,
           flats' = flats,
           run[l].order # NoOrder => orders'[run[l].order].filled = orders[run[l].order].filled
    PROVE  Pending(l)' = Pending(l)
    BY DEF Pending

\* Accounts through the step of a leg.
LEMMA AccountsSubmit ==
    ASSUME Quiet, QuietInv, [Next]_vars, NEW m \in Legs, Submit(m), QuietSubmit(m), NEW l \in Legs
    PROVE  Committed(l)' = Committed(l) /\ Pending(l)' = Pending(l)
<1> USE DEF QuietInv, IInv
<1>1. /\ run \in LegStates /\ op' = op /\ flats' = flats /\ op.phase = "legs" /\ m \in op.legs
      /\ orders \in Seq(OrderType)
      /\ \A k \in Legs \ {m} : run'[k] = run[k]
  BY QuietFrame DEF TypeOK
<1>2. run[l].order # NoOrder => run[l].order \in Ids
  BY DEF QuietLegs
<1>3. CASE PlaceAnswered(m)
  <2>1. /\ orders' = Append(orders, LegOrder(m)) /\ LegOrder(m) \in OrderType
        /\ LegOrder(m).leg = m /\ LegOrder(m).use = "leg" /\ LegOrder(m).filled = 0
    BY <1>3, QuietAppends
  <2>2. Outcome(LegOrder(m)) = 0
    BY <2>1 DEF Outcome, Positions
  <2>3. Committed(l)' = Committed(l)
    BY <1>1, <2>1, <2>2, CommittedAppended, ShareType
  <2>4. /\ \A i \in Ids : orders'[i] = orders[i]
        /\ orders'[Len(orders) + 1] = LegOrder(m)
    BY <1>1, <2>1, Appended
  <2>5. CASE l # m
    BY <1>1, <1>2, <2>3, <2>4, <2>5, PendingSame
  <2>6. CASE l = m
    <3>1. run[l].order = NoOrder
      BY <1>1, <1>3, <2>6 DEF PlaceAnswered, MayPlace, Leg, FreshOK
    <3>2. run'[l].order = Len(orders) + 1
      BY <1>1, <1>3, <2>6 DEF PlaceAnswered, LegStates
    <3> QED BY <1>1, <2>1, <2>3, <2>4, <3>1, <3>2 DEF Pending
  <2> QED BY <2>5, <2>6
<1>4. CASE ReuseTicket(m)
  <2>1. orders' = orders
    BY <1>4 DEF ReuseTicket, venue
  <2>2. CASE l # m
    BY <1>1, <2>1, <2>2, CommittedSame, PendingSame
  <2>3. CASE l = m
    <3>1. run[l].order = NoOrder /\ Known(l) # NoOrder /\ orders[Known(l)].filled = 0
      BY <1>4, <2>3, ReusedOver
    <3>2. run'[l].order = Known(l)
      BY <1>1, <1>4, <2>3 DEF ReuseTicket, LegStates
    <3>3. Pending(l) = 0 /\ Pending(l)' = 0
      BY <1>1, <2>1, <3>1, <3>2 DEF Pending
    <3> QED BY <2>1, <3>3, CommittedSame
  <2> QED BY <2>2, <2>3
<1>5. CASE PlaceRefused(m) \/ JournalTicket(m) \/ SettleFilled(m) \/ SettleRejected(m)
  <2>1. orders' = orders
    BY <1>5 DEF PlaceRefused, JournalTicket, SettleFilled, SettleRejected, Settled, venue
  <2>2. run'[l].order = run[l].order
    <3>1. \/ \E pc : run' = [run EXCEPT ![m].pc = pc]
          \/ \E pc, qty, priced :
                run' = [run EXCEPT ![m].pc = pc, ![m].qty = qty, ![m].priced = priced]
      BY <1>5 DEF PlaceRefused, JournalTicket, SettleFilled, SettleRejected, Settled, Becomes
    <3>2. run'[m].order = run[m].order
      BY <1>1, <3>1 DEF LegStates
    <3> QED BY <1>1, <3>2
  <2> QED BY <1>1, <2>1, <2>2, CommittedSame, PendingSame
<1> QED BY <1>3, <1>4, <1>5 DEF QuietSubmit

\* A rollback order counts whole from the start, a leg's order by its fills.
LEMMA OutcomeIs ==
    ASSUME NEW o \in OrderType, QuietOrder(o)
    PROVE  Outcome(o) = IF o.use = "flat" THEN 0 - Qty[o.leg]
                        ELSE IF o.intent.act = "close" THEN 0 - o.filled ELSE o.filled
<1>1. /\ o.leg \in Legs /\ Side[o.leg] \in {"BUY", "SELL"} /\ o.use \in {"leg", "flat"}
      /\ o.intent.act \in {"open", "close"} /\ o.status \in {"open", "executed", "cancelled"}
      /\ Opposite(Side[o.leg]) # Side[o.leg]
  BY LegsAssumption DEF OrderType, Opposite
<1>2. CASE o.use = "flat"
  <2>1. o.side # Side[o.leg] /\ o.qty = Qty[o.leg] /\ o.status \in {"open", "executed"}
    BY <1>1, <1>2 DEF QuietOrder
  <2>2. CASE o.status = "open"
    <3>1. LET p == [o EXCEPT !.filled = o.qty]
          IN  p.side = o.side /\ p.leg = o.leg /\ p.filled = o.qty
      BY DEF OrderType
    <3> QED BY <1>2, <2>1, <2>2, <3>1 DEF Outcome, Positions
  <2>3. CASE o.status = "executed"
    BY <1>2, <2>1, <2>3 DEF Outcome, Positions, QuietOrder
  <2> QED BY <2>1, <2>2, <2>3
<1>3. CASE o.use = "leg"
  BY <1>1, <1>3 DEF Outcome, Positions, QuietOrder, SideOf
<1> QED BY <1>1, <1>2, <1>3

\* The order a leg follows, and its leg, while it works.
LEMMA Working ==
    ASSUME QuietInv, NEW i \in Ids, orders[i].status = "open", orders[i].use = "leg"
    PROVE  LET f == orders[i].leg
           IN  /\ f \in Legs /\ run[f].order = i /\ i # NoOrder
               /\ op.phase = "legs" /\ op.act \in {"open", "close"}
               /\ orders[i].intent.act = op.act
<1> USE DEF QuietInv, IInv
<1> DEFINE f == orders[i].leg
<1>1. f \in Legs /\ i # NoOrder /\ run[f].order = i /\ run[f].pc \in {"answered", "polling"}
  BY OrderFacts DEF QuietOrders, Belongs, TypeOK, OrderType, NoOrder
<1>2. f \in op.legs /\ op.act # "none"
  BY <1>1, IdleLeg
<1>3. op.phase = "legs"
  BY <1>1, <1>2 DEF NoRollbackUnderUncertainty, CallOK, TypeOK
<1>4. orders[i].intent = Current
  BY <1>1 DEF QuietLegs
<1> QED BY <1>1, <1>2, <1>3, <1>4 DEF Current, Intent, TypeOK

\* Accounts through a fill or a cancellation.
LEMMA AccountsVenue ==
    ASSUME Quiet, QuietInv, [Next]_vars, NEW i \in Ids, VenueFill(i) \/ VenueKill(i),
           NEW l \in Legs
    PROVE  Committed(l)' = book.held[l] + Pending(l)' /\ book' = book
<1> USE DEF QuietInv, IInv
<1> DEFINE o == orders[i]
           p == orders'[i]
<1>1. /\ orders \in Seq(OrderType) /\ orders' \in Seq(OrderType) /\ Ids' = Ids
      /\ \A j \in Ids : j # i => orders'[j] = orders[j]
      /\ p.leg = o.leg /\ p.use = o.use /\ p.intent = o.intent
      /\ o \in OrderType /\ p \in OrderType /\ o.status = "open"
  <2>1. orders \in Seq(OrderType) /\ orders' \in Seq(OrderType) /\ i \in Ids'
    BY Updated DEF TypeOK
  <2>2. p \in OrderType
    BY <2>1 DEF Ids
  <2> QED BY <2>1, <2>2, Updated, OrderFacts DEF Kept
<1>2. QuietOrder(o) /\ QuietOrder(p)
  BY <1>1, QuietOrderStep DEF QuietOrders
<1>3. /\ Outcome(o) = IF o.use = "flat" THEN 0 - Qty[o.leg]
                      ELSE IF o.intent.act = "close" THEN 0 - o.filled ELSE o.filled
      /\ Outcome(p) = IF o.use = "flat" THEN 0 - Qty[o.leg]
                      ELSE IF o.intent.act = "close" THEN 0 - p.filled ELSE p.filled
  BY <1>1, <1>2, OutcomeIs
<1>4. /\ Committed(l) \in Int
      /\ Committed(l)' = Committed(l) + IF o.leg = l THEN Outcome(p) - Outcome(o) ELSE 0
  BY <1>1, CommittedMoved, ShareType
<1>5. /\ run' = run /\ op' = op /\ flats' = flats /\ book' = book
      /\ Qty[l] \in Nat /\ o.filled \in Nat /\ p.filled \in Nat
  BY <1>1, LegsAssumption DEF VenueFill, VenueKill, call, local, OrderType
<1>6. Committed(l) = book.held[l] + Pending(l) /\ book.held[l] \in Int
  BY DEF Accounts, TypeOK, BookType
<1>7. CASE o.use = "leg" /\ o.leg = l
  <2>1. run[l].order = i /\ i # NoOrder /\ op.phase = "legs" /\ o.intent.act = op.act
    BY <1>1, <1>7, Working
  <2>2. /\ Pending(l) = IF op.act = "close" THEN 0 - o.filled ELSE o.filled
        /\ Pending(l)' = IF op.act = "close" THEN 0 - p.filled ELSE p.filled
    BY <1>5, <2>1 DEF Pending
  <2> QED BY <1>3, <1>4, <1>5, <1>6, <1>7, <2>1, <2>2
<1>8. CASE o.use = "flat" \/ o.leg # l
  <2>1. run[l].order # NoOrder => run[l].order \in Ids /\ run[l].order # i
    BY <1>1, <1>8 DEF QuietLegs
  <2>2. Pending(l)' = Pending(l)
    BY <1>1, <1>5, <2>1, PendingSame
  <2>3. Outcome(p) \in Int /\ (o.use = "flat" => Outcome(p) = Outcome(o))
    BY <1>1, <1>3, OutcomeType
  <2>4. Committed(l)' = Committed(l)
    BY <1>1, <1>4, <1>8, <2>3
  <2> QED BY <1>5, <1>6, <2>2, <2>4
<1> QED BY <1>1, <1>7, <1>8 DEF OrderType

\* Accounts through a rollback order.
LEMMA AccountsFlatten ==
    ASSUME Quiet, QuietInv, NEW m \in Legs, Flatten(m), NEW l \in Legs
    PROVE  Committed(l)' = book.held[l] + Pending(l)' /\ book' = book
<1> USE DEF QuietInv, IInv
<1>1. /\ orders' = Append(orders, FlatOrder(m)) /\ FlatOrder(m) \in OrderType
      /\ FlatOrder(m).leg = m /\ FlatOrder(m).use = "flat" /\ QuietOrder(FlatOrder(m))
      /\ m \in flats /\ flats' = flats \ {m} /\ op' = op /\ op.phase = "rollback" /\ book' = book
  BY QuietAppends DEF Flatten, local
<1>2. Outcome(FlatOrder(m)) = 0 - Qty[m]
  BY <1>1, OutcomeIs
<1>3. /\ Committed(l) \in Int
      /\ Committed(l)' = Committed(l) + IF m = l THEN 0 - Qty[m] ELSE 0
  BY <1>1, <1>2, CommittedAppended, ShareType DEF TypeOK
<1>4. Committed(l) = book.held[l] + Pending(l) /\ book.held[l] \in Int /\ Qty[m] \in Nat
  BY LegsAssumption DEF Accounts, TypeOK, BookType
<1>5. Pending(l)' = IF l = m THEN 0 ELSE Pending(l)
  BY <1>1 DEF Pending
<1>6. l = m => Pending(l) = Qty[m]
  BY <1>1 DEF Pending
<1>7. Pending(l) \in Int /\ l # m => Committed(l)' = book.held[l] + Pending(l)'
  BY <1>3, <1>4, <1>5
<1> QED BY <1>1, <1>3, <1>4, <1>5, <1>6

\* Accounts through the end of a call: what was pending is booked.
LEMMA AccountsReturn ==
    ASSUME Quiet, QuietInv, [Next]_vars, QuietReturn, NEW l \in Legs
    PROVE  orders' = orders /\ book'.held[l] = book.held[l] + Pending(l) /\ Pending(l)' = 0
<1> USE DEF QuietInv, IInv
<1>1. orders' = orders /\ NoCallLeft
  BY Ending DEF QuietReturn, OpenFilled, RolledBack, CloseFilled, CloseHalted, venue
<1>2. Pending(l)' = 0
  BY <1>1 DEF NoCallLeft, NoCall, FreshLeg, Pending
<1>3. /\ book.held[l] = IF l \in book.open THEN Qty[l] ELSE 0
      /\ Qty[l] \in Nat
      /\ run[l].pc \in {"todo", "answered", "polling", "filled", "rejected"}
  BY LegsAssumption DEF QuietBook, QuietLegs
<1>4. CASE RolledBack
  BY <1>1, <1>2, <1>3, <1>4 DEF RolledBack, Pending
<1>5. ASSUME OpenFilled \/ CloseFilled \/ CloseHalted
      PROVE  op.phase # "rollback" /\ run[l].pc \in {"todo", "filled", "rejected"}
  BY <1>3, <1>5, NoneWaits
     DEF OpenFilled, CloseFilled, CloseHalted, Returned, Joined, CallOK
<1>6. CASE OpenFilled
  <2>1. op.legs = Legs /\ l \in All({"filled"}) /\ op.act = "open"
    BY <1>6 DEF OpenFilled, AllFilled, CallOK
  <2>2. Pending(l) = Qty[l]
    BY <1>5, <1>6, <2>1, PendingSettled
  <2>3. l \in Bookable
    BY <1>6, <2>1 DEF OpenFilled, AllFilled, All, Bookable, QuietLegs
  <2>4. book'.held[l] = book.held[l] + Qty[l]
    BY <1>6, <2>3 DEF OpenFilled
  <2> QED BY <1>1, <1>2, <2>2, <2>4
<1>7. CASE CloseFilled \/ CloseHalted
  <2>1. op.act = "close" /\ book'.held = Unheld
    <3>1. CASE CloseFilled
      BY <3>1 DEF CloseFilled
    <3>2. CASE CloseHalted
      BY <3>2 DEF CloseHalted, TypeOK, BookType
    <3> QED BY <1>7, <3>1, <3>2
  <2>2. l \in ClosedLegs <=> l \in All({"filled"})
    BY DEF ClosedLegs, All, QuietLegs
  <2>3. book'.held[l] = book.held[l] - IF l \in All({"filled"}) THEN Qty[l] ELSE 0
    BY <2>1, <2>2 DEF Unheld
  <2>4. Pending(l) = IF l \in All({"filled"}) THEN 0 - Qty[l] ELSE 0
    BY <1>5, <1>7, <2>1, PendingSettled
  <2> QED BY <1>1, <1>2, <1>3, <2>3, <2>4
<1> QED BY <1>4, <1>6, <1>7 DEF QuietReturn

\* The positions the venue holds, or is about to, are the book and what the
\* call in progress has done to it.
LEMMA AccountsStep ==
    ASSUME Quiet, QuietInv, [Next]_vars
    PROVE  Accounts'
<1> USE DEF QuietInv, IInv
<1> SUFFICES ASSUME NEW l \in Legs
             PROVE  Committed(l)' = book'.held[l] + Pending(l)'
  BY DEF Accounts
<1>1. Committed(l) = book.held[l] + Pending(l)
  BY DEF Accounts
<1>2. book.held[l] \in Int /\ Committed(l) \in Int
  BY ShareType DEF TypeOK, BookType
<1>3. ASSUME NEW m \in Legs, Submit(m), QuietSubmit(m)
      PROVE  Committed(l)' = book'.held[l] + Pending(l)'
  BY <1>1, <1>3, AccountsSubmit, QuietFrame
<1>4. ASSUME NEW m \in Legs, Flatten(m)
      PROVE  Committed(l)' = book'.held[l] + Pending(l)'
  BY <1>4, AccountsFlatten
<1>5. ASSUME NEW i \in Ids, VenueFill(i) \/ VenueKill(i)
      PROVE  Committed(l)' = book'.held[l] + Pending(l)'
  BY <1>5, AccountsVenue
<1>6. CASE QuietReturn
  <2>1. orders' = orders /\ book'.held[l] = book.held[l] + Pending(l) /\ Pending(l)' = 0
    BY <1>6, AccountsReturn
  <2> QED BY <1>1, <1>2, <2>1, CommittedSame
<1>7. CASE StartRollback
  <2>1. /\ orders' = orders /\ run' = run /\ book' = book /\ op.act = "open" /\ op.legs = Legs
        /\ op.phase = "legs" /\ op'.phase = "rollback" /\ op'.legs = Legs
        /\ flats' = All({"filled"})
    BY <1>7 DEF StartRollback, Returned, Joined, ToFlatten, venue, local, CallOK, TypeOK
  <2>2. run[l].pc \in {"todo", "filled", "rejected"}
    BY <2>1, RollbackStep DEF NoRollbackUnderUncertainty
  <2>3. Pending(l) = IF l \in All({"filled"}) THEN Qty[l] ELSE 0
    BY <2>1, <2>2, PendingSettled
  <2>4. Pending(l)' = IF l \in All({"filled"}) THEN Qty[l] ELSE 0
    BY <2>1 DEF Pending
  <2> QED BY <1>1, <2>1, <2>3, <2>4, CommittedSame
<1>8. CASE StartOpen \/ StartClose
  <2>1. /\ orders' = orders /\ book' = book /\ op.act = "none" /\ op'.phase = "legs"
        /\ run' = [k \in Legs |-> FreshLeg]
    BY <1>8 DEF StartOpen, StartClose, Begin, Busy, venue, local
  <2>2. Pending(l) = 0 /\ Pending(l)' = 0
    BY <2>1, IdleLeg DEF Pending, FreshLeg, CallOK
  <2> QED BY <1>1, <1>2, <2>1, <2>2, CommittedSame
<1>9. CASE QuietOther
  <2>1. orders' = orders /\ book' = book /\ run' = run /\ op' = op /\ flats' = flats
    BY <1>9 DEF QuietOther, NextBar, Resume, StartWithoutMargin, vars, venue, call, local
  <2> QED BY <1>1, <2>1, CommittedSame, PendingSame
<1> QED BY <1>3, <1>4, <1>5, <1>6, <1>7, <1>8, <1>9, QuietSteps

\* The invariant of a quiet day.
LEMMA QuietStep ==
    ASSUME Quiet, QuietInv, [Next]_vars
    PROVE  QuietInv'
<1>1. IInv'
  BY TypeStep, CallStep, LegsStep, OrdersStep, TicketsStep, TurnsStep, HistoryStep,
     RollbackStep, PlacedStep DEF QuietInv, IInv
<1>2. FreshOK'
  BY FreshStep DEF QuietInv
<1> QED
  BY <1>1, <1>2, QuietLegsStep, QuietOrdersStep, TicketsNameStep, QuietBookStep, AccountsStep
  DEF QuietInv

LEMMA QuietInit ==
    ASSUME Init
    PROVE  QuietInv
<1>1. IInv
  BY InitIInv
<1>2. Len(orders) = 0 /\ Ids = {} /\ journal = {} /\ op = NoCall
      /\ run = [l \in Legs |-> FreshLeg] /\ book = Flat /\ tried = 0 /\ clock = 1
  BY DEF Init, Ids
<1>3. FreshOK /\ QuietLegs /\ QuietOrders /\ TicketsName
  BY <1>2 DEF FreshOK, QuietLegs, QuietOrders, TicketsName, NoCall, FreshLeg
<1>4. QuietBook
  BY <1>2 DEF QuietBook, Flat, NoCall
<1>5. ASSUME NEW l \in Legs
      PROVE  Committed(l) = book.held[l] + Pending(l)
  <2>1. Committed(l) = 0
    BY <1>2, CommittedIs, TotalStep
  <2>2. Pending(l) = 0 /\ book.held[l] = 0
    BY <1>2 DEF Pending, NoCall, FreshLeg, Flat
  <2> QED BY <2>1, <2>2
<1> QED BY <1>1, <1>3, <1>4, <1>5 DEF QuietInv, Accounts

THEOREM QuietDays ==
    ASSUME Quiet
    PROVE  Spec => []QuietInv
<1>1. QuietInv /\ [Next]_vars => QuietInv'
  BY QuietStep
<1> QED BY <1>1, QuietInit, PTL DEF Spec

\* What a leg's order filled is between nothing and the whole leg.
LEMMA PendingBounds ==
    ASSUME QuietInv, NEW l \in Legs
    PROVE  /\ book.held[l] = IF l \in book.open THEN Qty[l] ELSE 0
           /\ Qty[l] \in Nat
           /\ run[l].order # NoOrder => orders[run[l].order].filled \in 0 .. Qty[l]
<1> USE DEF QuietInv, IInv
<1>1. ASSUME run[l].order # NoOrder
      PROVE  orders[run[l].order].filled \in 0 .. Qty[l]
  <2> DEFINE o == orders[run[l].order]
  <2>1. o \in OrderType /\ QuietOrder(o) /\ o.leg = l
    BY <1>1, OrderFacts DEF QuietLegs, QuietOrders, TypeOK
  <2> QED BY <2>1 DEF QuietOrder, OrderType
<1> QED BY <1>1, LegsAssumption DEF QuietBook

LEMMA NothingReversed ==
    ASSUME QuietInv, NEW l \in Legs
    PROVE  Committed(l) \in 0 .. Qty[l]
<1> USE DEF QuietInv, IInv
<1>1. /\ Committed(l) = book.held[l] + Pending(l)
      /\ book.held[l] = IF l \in book.open THEN Qty[l] ELSE 0
      /\ Qty[l] \in Nat
      /\ run[l].order # NoOrder => orders[run[l].order].filled \in 0 .. Qty[l]
  BY PendingBounds DEF Accounts
<1>2. CASE op.phase = "rollback"
  BY <1>1, <1>2 DEF Pending, NoRollbackUnderUncertainty, CallOK
<1>3. CASE op.phase # "rollback" /\ run[l].order = NoOrder
  BY <1>1, <1>3 DEF Pending
<1>4. CASE op.phase # "rollback" /\ run[l].order # NoOrder
  <2>1. l \in op.legs /\ op.act \in {"open", "close"}
    BY <1>4, IdleLeg DEF TypeOK
  <2>2. IF op.act = "close" THEN l \in book.open ELSE book.open = {}
    BY <2>1 DEF CallOK
  <2> QED BY <1>1, <1>4, <2>1, <2>2 DEF Pending
<1> QED BY <1>2, <1>3, <1>4

\* While the venue answers and no process restarts, no leg is ever held twice
\* over, nor sold through zero: through every interleaving of entries, two leg
\* threads, rollbacks, halted and repeated closes.
THEOREM PositionsHold ==
    ASSUME Quiet
    PROVE  Spec => []NoReversal
<1>1. QuietInv => NoReversal
  BY NothingReversed DEF NoReversal
<1> QED BY <1>1, QuietDays, PTL

\* An order counts at least what it is heading for, and exactly that but for
\* a rollback order at work.
LEMMA PositionsIs ==
    ASSUME NEW o \in OrderType, QuietOrder(o)
    PROVE  /\ Positions(o) \in Int /\ Outcome(o) \in Int
           /\ Outcome(o) <= Positions(o)
           /\ o.use = "leg" \/ o.status # "open" => Positions(o) = Outcome(o)
<1>1. Positions(o) \in Int /\ Outcome(o) \in Int
  BY OutcomeType
<1>2. CASE o.use = "leg" \/ o.status # "open"
  BY <1>1, <1>2 DEF Outcome
<1>3. CASE o.use = "flat" /\ o.status = "open"
  <2>1. /\ Outcome(o) = 0 - Qty[o.leg] /\ o.qty = Qty[o.leg] /\ o.filled < o.qty
        /\ o.side # Side[o.leg] /\ o.qty \in Nat /\ o.filled \in Nat
    BY <1>3, OutcomeIs, LegsAssumption DEF QuietOrder, OrderType, Opposite
  <2> QED BY <1>3, <2>1 DEF Positions
<1> QED BY <1>1, <1>2, <1>3 DEF OrderType

\* The lots of a leg at the venue and the lots it is heading for.
LEMMA ExposureIs ==
    ASSUME QuietInv, NEW l \in Legs
    PROVE  /\ Exposure(l) \in Int /\ Committed(l) <= Exposure(l)
           /\ (\A i \in Ids : orders[i].leg = l =>
                   orders[i].use = "leg" \/ orders[i].status # "open")
                 => Exposure(l) = Committed(l)
<1> USE DEF QuietInv, IInv
<1> DEFINE n == Len(orders)
           f == [i \in Ids |-> IF orders[i].leg = l THEN Positions(orders[i]) ELSE 0]
<1>1. n \in Nat /\ Ids = 1 .. n /\ Exposure(l) = Total(f, n) /\ Committed(l) = Total(Share(l), n)
  BY OrderFacts, CommittedIs DEF TypeOK, Exposure
<1>2. ASSUME NEW k \in 1 .. n
      PROVE  /\ f[k] \in Int /\ Share(l)[k] \in Int /\ Share(l)[k] <= f[k]
             /\ (orders[k].leg = l => orders[k].use = "leg" \/ orders[k].status # "open")
                   => f[k] = Share(l)[k]
  <2>1. k \in Ids /\ orders[k] \in OrderType /\ QuietOrder(orders[k])
    BY <1>1, OrderFacts DEF TypeOK, QuietOrders
  <2> QED BY <2>1, PositionsIs DEF Share
<1> HIDE DEF f
<1>3. Exposure(l) \in Int
  BY <1>1, <1>2, TotalType
<1>4. Committed(l) <= Exposure(l)
  BY <1>1, <1>2, TotalLess
<1>5. ASSUME \A i \in Ids : orders[i].leg = l =>
                orders[i].use = "leg" \/ orders[i].status # "open"
      PROVE  Exposure(l) = Committed(l)
  BY <1>1, <1>2, <1>5, TotalSame
<1> QED BY <1>3, <1>4, <1>5

\* Between calls, once nothing works at the venue, the adapter's book is the
\* venue's position: entries, exits, halts and rollbacks leave no difference.
THEOREM BooksHold ==
    ASSUME Quiet
    PROVE  Spec => []BookMatchesVenue
<1>1. ASSUME QuietInv, ~Busy, \A i \in Ids : orders[i].status # "open", NEW l \in Legs
      PROVE  book.held[l] = Exposure(l)
  <2> USE DEF QuietInv, IInv
  <2>1. Exposure(l) = Committed(l)
    BY <1>1, ExposureIs
  <2>2. run[l] = FreshLeg /\ op.phase # "rollback"
    BY <1>1, IdleLeg DEF Busy, CallOK
  <2>3. Pending(l) = 0
    BY <2>2 DEF Pending, FreshLeg
  <2> QED BY <1>1, <2>1, <2>3 DEF Accounts, TypeOK, BookType
<1>2. QuietInv => BookMatchesVenue
  BY <1>1 DEF BookMatchesVenue
<1> QED BY <1>2, QuietDays, PTL

-----------------------------------------------------------------------------
(* A short leg and its wing *)

\* A two-leg spread whose long leg is at least as large as its short one.
Spread(s, b) == /\ s \in Legs /\ b \in Legs /\ Legs = {s, b}
                /\ Side[s] = "SELL" /\ Side[b] = "BUY" /\ Qty[s] <= Qty[b]

\* The wing goes in first and comes out last.
LEMMA SpreadTurns ==
    ASSUME QuietInv, NEW s, NEW b, Spread(s, b), op.phase = "legs"
    PROVE  /\ op.act = "open" /\ run[s].pc # "todo" => run[b].pc = "filled"
           /\ op.act = "close" /\ s \in op.legs /\ b \in op.legs /\ run[b].pc # "todo" =>
                 run[s].pc = "filled"
<1> USE DEF QuietInv, IInv
<1>1. ASSUME s \in op.legs, b \in op.legs
      PROVE  ~Paired
  BY <1>1 DEF Paired, SideOf, Opposite, Spread
<1>2. ASSUME op.act = "open", run[s].pc # "todo"
      PROVE  run[b].pc = "filled"
  <2>1. s \in op.legs /\ b \in op.legs /\ Before(b, s)
    BY <1>2 DEF CallOK, Before, SideOf, Spread
  <2> QED BY <1>1, <1>2, <2>1 DEF TurnsOK
<1>3. ASSUME op.act = "close", s \in op.legs, b \in op.legs, run[b].pc # "todo"
      PROVE  run[s].pc = "filled"
  <2>1. Before(s, b)
    BY <1>3 DEF Before, SideOf, Opposite, Spread
  <2> QED BY <1>1, <1>3, <2>1 DEF TurnsOK
<1> QED BY <1>2, <1>3

LEMMA HedgeStep ==
    ASSUME Quiet, QuietInv, HedgeOK, NEW s, NEW b, Spread(s, b), [Next]_vars
    PROVE  HedgeOK'
<1> USE DEF QuietInv, IInv
<1>1. /\ s \in Legs /\ b \in Legs /\ Legs = {s, b} /\ s # b
      /\ \A x, y \in Legs : Side[x] = "SELL" /\ Side[y] = "BUY" <=> x = s /\ y = b
  BY DEF Spread
<1>2. /\ s \in book.open => b \in book.open
      /\ s \notin flats
      /\ \A i \in Ids : orders[i].use = "flat" => orders[i].leg # s
  BY DEF HedgeOK, Spread
<1>3. \A i \in Ids' : orders'[i].use = "flat" => orders'[i].leg # s
  <2> SUFFICES ASSUME NEW i \in Ids', orders'[i].use = "flat"
               PROVE  orders'[i].leg # s
    OBVIOUS
  <2>1. CASE i \in Ids
    BY <1>2, <2>1, OrdersStep DEF Kept
  <2>2. CASE i \notin Ids
    <3>1. PICK l \in Legs : \/ PlaceAnswered(l) /\ orders'[i] = LegOrder(l)
                            \/ Flatten(l) /\ orders'[i] = FlatOrder(l)
      BY <2>2, QuietNew
    <3>2. Flatten(l) /\ orders'[i] = FlatOrder(l)
      BY <3>1, QuietAppends
    <3> QED BY <1>2, <3>2, QuietAppends
  <2> QED BY <2>1, <2>2
<1>4. s \notin flats'
  <2>1. CASE StartRollback
    <3>1. PICK f \in op.legs : run[f].pc \in {"rejected", "uncertain", "raised"}
      BY <2>1 DEF StartRollback, Returned, Joined, Failed, All
    <3>2. op.act = "open" /\ op.phase = "legs" /\ f \in Legs
      BY <2>1, <3>1 DEF StartRollback, Returned, Joined, CallOK
    <3>3. run[s].pc # "filled"
      BY <1>1, <3>1, <3>2, SpreadTurns
    <3> QED BY <2>1, <3>3 DEF StartRollback, ToFlatten, All
  <2>2. CASE \/ \E l \in Legs : Submit(l) \/ Flatten(l)
             \/ \E i \in Ids : VenueFill(i) \/ VenueKill(i)
             \/ StartOpen \/ StartClose \/ QuietOther
    BY <1>2, <2>2, QuietFrame DEF Flatten, VenueFill, VenueKill, StartOpen, StartClose,
       QuietOther, NextBar, Resume, StartWithoutMargin, vars, call
  <2>3. CASE QuietReturn
    BY <2>3, Ending DEF QuietReturn, NoCallLeft
  <2> QED BY <2>1, <2>2, <2>3, QuietSteps
<1>5. s \in book'.open => b \in book'.open
  <2>1. CASE OpenFilled \/ CloseFilled
    <3>1. book'.open \in {Legs, {}}
      BY <2>1 DEF OpenFilled, CloseFilled, CallOK
    <3> QED BY <1>1, <3>1
  <2>2. CASE CloseHalted
    <3>1. /\ book'.open = book.open \ ClosedLegs /\ op.act = "close" /\ op.legs = book.open
          /\ op.phase = "legs"
      BY <2>2 DEF CloseHalted, TypeOK, BookType, CallOK
    <3> SUFFICES ASSUME s \in book'.open
                 PROVE  b \in book'.open
      OBVIOUS
    <3>2. s \in op.legs /\ b \in op.legs /\ run[s].pc # "filled"
      BY <1>1, <1>2, <3>1 DEF ClosedLegs, All, QuietLegs
    <3>3. run[b].pc = "todo"
      BY <3>1, <3>2, SpreadTurns
    <3> QED BY <3>1, <3>2, <3>3 DEF ClosedLegs, All
  <2>3. CASE \/ \E l \in Legs : Submit(l) \/ Flatten(l)
             \/ \E i \in Ids : VenueFill(i) \/ VenueKill(i)
             \/ StartRollback \/ RolledBack \/ StartOpen \/ StartClose \/ QuietOther
    BY <1>2, <2>3, QuietFrame DEF Flatten, VenueFill, VenueKill, StartRollback, RolledBack,
       StartOpen, StartClose, QuietOther, NextBar, Resume, StartWithoutMargin, vars, local
  <2> QED BY <2>1, <2>2, <2>3, QuietSteps DEF QuietReturn
<1> QED BY <1>1, <1>3, <1>4, <1>5 DEF HedgeOK

\* The short leg stands on a long one at least as large.
LEMMA Hedged ==
    ASSUME QuietInv, HedgeOK, NEW s, NEW b, Spread(s, b)
    PROVE  Committed(s) <= Committed(b)
<1> USE DEF QuietInv, IInv
<1>1. /\ s \in Legs /\ b \in Legs /\ Qty[s] <= Qty[b] /\ Qty[s] \in Nat /\ Qty[b] \in Nat
      /\ s \in book.open => b \in book.open
      /\ s \notin flats
  BY PendingBounds DEF Spread, HedgeOK
<1>2. /\ Committed(s) = book.held[s] + Pending(s)
      /\ Committed(b) = book.held[b] + Pending(b)
      /\ Committed(s) \in 0 .. Qty[s] /\ Committed(b) \in 0 .. Qty[b]
      /\ book.held[s] = IF s \in book.open THEN Qty[s] ELSE 0
      /\ book.held[b] = IF b \in book.open THEN Qty[b] ELSE 0
  BY <1>1, NothingReversed, PendingBounds DEF Accounts
<1>3. ASSUME NEW l \in Legs, op.phase = "legs", run[l].pc = "filled"
      PROVE  Pending(l) = IF op.act = "close" THEN 0 - Qty[l] ELSE Qty[l]
  <2>1. l \in All({"filled"})
    BY <1>3, IdleLeg DEF All, QuietLegs
  <2> QED BY <1>3, <2>1, PendingSettled
<1>4. ASSUME NEW l \in Legs, op.phase # "rollback", run[l].order = NoOrder
      PROVE  Pending(l) = 0
  BY <1>4 DEF Pending
<1>5. CASE op.phase = "rollback"
  <2>1. Committed(s) = 0
    BY <1>1, <1>2, <1>5 DEF Pending, NoRollbackUnderUncertainty, CallOK
  <2> QED BY <1>2, <2>1
<1>6. CASE op.act = "none"
  <2>1. Pending(s) = 0 /\ Pending(b) = 0
    BY <1>1, <1>4, <1>6, IdleLeg DEF CallOK, FreshLeg
  <2> QED BY <1>1, <1>2, <2>1
<1>7. CASE op.act = "open" /\ op.phase = "legs"
  <2>1. CASE run[s].order = NoOrder
    <3>1. Committed(s) = 0
      BY <1>1, <1>2, <1>4, <1>7, <2>1 DEF CallOK
    <3> QED BY <1>2, <3>1
  <2>2. CASE run[s].order # NoOrder
    <3>1. run[s].pc # "todo"
      BY <1>1, <2>2, IdleLeg DEF FreshOK
    <3>2. run[b].pc = "filled"
      BY <1>7, <3>1, SpreadTurns
    <3>3. Pending(b) = Qty[b]
      BY <1>1, <1>3, <1>7, <3>2
    <3>4. Committed(b) = Qty[b]
      BY <1>1, <1>2, <1>7, <3>3 DEF CallOK
    <3> QED BY <1>1, <1>2, <3>4
  <2> QED BY <2>1, <2>2
<1>8. CASE op.act = "close" /\ op.phase = "legs"
  <2>1. op.legs = book.open
    BY <1>8 DEF CallOK
  <2>2. CASE s \notin book.open
    <3>1. run[s].order = NoOrder
      BY <1>1, <2>1, <2>2, IdleLeg
    <3>2. Committed(s) = 0
      BY <1>1, <1>2, <1>4, <1>8, <2>2, <3>1
    <3> QED BY <1>2, <3>2
  <2>3. CASE s \in book.open /\ run[b].order = NoOrder
    <3>1. Committed(b) = Qty[b]
      BY <1>1, <1>2, <1>4, <1>8, <2>3
    <3> QED BY <1>1, <1>2, <3>1
  <2>4. CASE s \in book.open /\ run[b].order # NoOrder
    <3>1. run[b].pc # "todo"
      BY <1>1, <2>4, IdleLeg DEF FreshOK
    <3>2. run[s].pc = "filled"
      BY <1>1, <1>8, <2>1, <2>4, <3>1, SpreadTurns
    <3>3. Pending(s) = 0 - Qty[s]
      BY <1>1, <1>3, <1>8, <3>2
    <3>4. Committed(s) = 0
      BY <1>1, <1>2, <2>4, <3>3
    <3> QED BY <1>2, <3>4
  <2> QED BY <2>2, <2>3, <2>4
<1> QED BY <1>5, <1>6, <1>7, <1>8 DEF CallOK, TypeOK

\* The lots of one side of a spread are the lots of its one leg.
LEMMA HeldIs ==
    ASSUME QuietInv, NEW s, NEW b, Spread(s, b)
    PROVE  Held("SELL") = Exposure(s) /\ Held("BUY") = Exposure(b)
<1> USE DEF QuietInv, IInv
<1> SUFFICES ASSUME NEW l \in Legs, NEW side,
                    \A k \in Legs : Side[k] = side <=> k = l
             PROVE  Held(side) = Exposure(l)
  BY DEF Spread
<1> DEFINE n == Len(orders)
           f == [i \in Ids |-> IF orders[i].leg = l THEN Positions(orders[i]) ELSE 0]
           g == [i \in Ids |-> IF Side[orders[i].leg] = side THEN Positions(orders[i]) ELSE 0]
<1>1. n \in Nat /\ Ids = 1 .. n /\ Exposure(l) = Total(f, n) /\ Held(side) = Total(g, n)
  BY OrderFacts DEF TypeOK, Exposure, Held
<1>2. ASSUME NEW k \in 1 .. n
      PROVE  f[k] \in Int /\ g[k] = f[k]
  <2>1. k \in Ids /\ orders[k] \in OrderType /\ orders[k].leg \in Legs
    BY <1>1, OrderFacts DEF TypeOK, OrderType
  <2> QED BY <2>1, OutcomeType
<1> HIDE DEF f, g
<1> QED BY <1>1, <1>2, TotalSame

\* A spread is never short more than its long wing: the BUY leg goes in first
\* and comes out last, through every fill, refusal, rollback and halt.
THEOREM WingsHold ==
    ASSUME Quiet, NEW s, NEW b, Spread(s, b)
    PROVE  Spec => []NeverNakedShort
<1>1. Init => HedgeOK
  BY DEF Init, HedgeOK, Flat, Ids
<1>2. QuietInv /\ HedgeOK /\ [Next]_vars => HedgeOK'
  BY HedgeStep
<1>3. ASSUME QuietInv, HedgeOK
      PROVE  Held("SELL") <= Held("BUY")
  <2> USE <1>3 DEF QuietInv, IInv
  <2>1. s \in Legs /\ b \in Legs /\ \A i \in Ids : orders[i].leg = s => orders[i].use # "flat"
    BY DEF HedgeOK, Spread
  <2>2. \A i \in Ids : orders[i].use \in {"leg", "flat"}
    BY OrderFacts DEF TypeOK, OrderType
  <2>3. Exposure(s) = Committed(s)
    BY <2>1, <2>2, ExposureIs
  <2>4. /\ Committed(b) <= Exposure(b) /\ Exposure(b) \in Int
        /\ Committed(b) \in Int /\ Committed(s) \in Int
    BY <2>1, ExposureIs, ShareType DEF TypeOK
  <2> QED BY <2>3, <2>4, Hedged, HeldIs
<1>4. QuietInv /\ HedgeOK => NeverNakedShort
  BY <1>3 DEF NeverNakedShort
<1> QED BY <1>1, <1>2, <1>4, QuietDays, PTL DEF Spec

-----------------------------------------------------------------------------
(* The trader and its adapter implement what the bridge relies on *)

LEMMA SeamStep == IInv /\ [Next]_vars => [Seam!Next]_(Seam!vars)
<1> SUFFICES ASSUME IInv, [Next]_vars
             PROVE  Seam!Next \/ UNCHANGED Seam!vars
  OBVIOUS
<1> USE DEF IInv
<1>1. CASE op'.act = op.act /\ book'.open = book.open /\ saved'.open = saved.open
           /\ runner' = runner
  BY <1>1 DEF Seam!vars
<1>2. CASE StartOpen
  BY <1>2 DEF StartOpen, MayEnter, Begin, Busy, local, Seam!Next, Seam!Enter, Seam!Begin
<1>3. CASE StartClose
  BY <1>3 DEF StartClose, Begin, Busy, local, Seam!Next, Seam!Exit, Seam!Begin
<1>4. CASE NoCallLeft /\ op.act # "none" /\ UNCHANGED <<book, saved, runner>>
  BY <1>4 DEF NoCallLeft, NoCall, Seam!Next, Seam!Refused, Seam!Return
<1>5. CASE RolledBack \/ CallRaises
  <2>1. op.act # "none" /\ UNCHANGED <<book, saved, runner>>
    BY <1>5 DEF RolledBack, CallRaises, Joined, CallOK
  <2> QED BY <1>4, <1>5, <2>1, Ending
<1>6. CASE OpenFilled
  <2>1. op.act = "open" /\ op'.act = "none" /\ saved' = saved
        /\ op.legs = Legs /\ book.open = {}
    BY <1>6, Ending DEF OpenFilled, NoCallLeft, NoCall, CallOK
  <2>2. CASE Bookable = op.legs
    <3>1. book'.open = Legs /\ runner' = runner
      BY <1>6, <2>1, <2>2 DEF OpenFilled
    <3> QED BY <2>1, <3>1 DEF Seam!Next, Seam!Opened, Seam!Return
  <2>3. CASE Bookable # op.legs
    <3>1. book'.open = {} /\ runner' = "paused"
      BY <1>6, <2>3 DEF OpenFilled
    <3> QED BY <2>1, <3>1 DEF Seam!Next, Seam!EntryHalted, Seam!Return
  <2> QED BY <2>2, <2>3
<1>7. CASE OpenHalted
  <2>1. op.act = "open" /\ op'.act = "none" /\ saved' = saved /\ book' = book
        /\ runner' = "paused"
    BY <1>7, Ending DEF OpenHalted, Halt, NoCallLeft, NoCall
  <2> QED BY <2>1 DEF Seam!Next, Seam!EntryHalted, Seam!Return
<1>8. CASE CloseFilled
  <2>1. op.act = "close" /\ op'.act = "none" /\ saved' = saved /\ book'.open = {}
        /\ runner' = runner
    BY <1>8, Ending DEF CloseFilled, NoCallLeft, NoCall
  <2> QED BY <2>1 DEF Seam!Next, Seam!Closed, Seam!Return
<1>9. CASE CloseHalted
  <2>1. op.act = "close" /\ op'.act = "none" /\ saved' = saved /\ runner' = "paused"
        /\ book'.open = book.open \ ClosedLegs
    BY <1>9, Ending DEF CloseHalted, Halt, NoCallLeft, NoCall, TypeOK, BookType
  <2>2. book'.open \in (SUBSET book.open) \ {{}}
    BY <1>9, <2>1, HaltLeavesOpen
  <2> QED BY <2>1, <2>2 DEF Seam!Next, Seam!ExitHalted, Seam!Return
<1>10. CASE Resume
  BY <1>10 DEF Resume, call, Seam!Next, Seam!Resume
<1>11. CASE SaveState
  BY <1>11 DEF SaveState, Busy, call, Seam!Next, Seam!Save
<1>12. CASE Crash
  <2>1. op'.act = "none" /\ saved' = saved /\ runner' = "paused" /\ book'.open = saved.open
    BY <1>12, Ending DEF Crash, NoCallLeft, NoCall, TypeOK, BookType
  <2> QED BY <2>1 DEF Seam!Next, Seam!Restart, Seam!Return
<1>13. ASSUME NEW l \in Legs, Submit(l)
       PROVE  op'.act = op.act /\ UNCHANGED <<book, saved, runner>>
  BY <1>13, SubmitFrame
<1>14. CASE StartRollback
  BY <1>1, <1>14 DEF StartRollback, local, TypeOK
<1>15. ASSUME Venue \/ StartWithoutMargin \/ NextBar \/ UNCHANGED vars
              \/ \E l \in Legs : Flatten(l)
       PROVE  op'.act = op.act /\ UNCHANGED <<book, saved, runner>>
  BY <1>15 DEF Venue, VenueFill, VenueKill, StartWithoutMargin, NextBar, vars, call, local,
     Flatten
<1> QED
  BY <1>1, <1>2, <1>3, <1>5, <1>6, <1>7, <1>8, <1>9, <1>10, <1>11, <1>12, <1>13, <1>14, <1>15
  DEF Next, Trader, Complete, Runner

\* The live trader keeps the promise of the seam: whatever the venue does, the
\* bridge sees whole entries, whole or halted exits, and a pause on every halt.
THEOREM SeamImplemented == Spec => ImplementsSeam
<1>1. Init => Seam!Init
  BY DEF Init, Flat, NoCall, Seam!Init
<1> QED BY <1>1, SeamStep, Inductive, PTL DEF Spec, ImplementsSeam, Seam!Spec
=============================================================================
