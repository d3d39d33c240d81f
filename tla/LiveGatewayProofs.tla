--------------------------- MODULE LiveGatewayProofs ---------------------------
(* The gateway never books more of an order than the venue filled, for every *)
(* number of orders, every size, amendment and price, and every fault but    *)
(* one: snapshots must not be taken in the middle of a poll.  While orders   *)
(* fill whole and requests are answered, every fill reaches the book.        *)
EXTENDS LiveGateway, TLAPS

-----------------------------------------------------------------------------
(* The inductive invariant *)

\* What the poll has in hand of an order, and what of it is booked already.
InHand(c) == IF poll.at = c THEN poll.delta ELSE 0
Pending(c) == IF poll.at = c /\ poll.done THEN poll.delta ELSE 0

\* The book runs ahead of the applied quantity by the fill being booked, and
\* the venue has filled all that is applied or in hand.
Accounted ==
    \A c \in Orders :
        /\ book.booked[c] <= book.applied[c] + Pending(c)
        /\ book.applied[c] + InHand(c) <= venue[c].filled

\* The snapshot on disk, and the half of one an operator's request holds.
SavedAccounted ==
    \A c \in Orders :
        /\ saved.booked[c] <= saved.applied[c]
        /\ saved.applied[c] <= venue[c].filled
        /\ api.kind = "write" => api.booked[c] <= book.applied[c]

\* No poll and no book knows an order before it is registered.
Unregistered ==
    \A c \in Orders :
        /\ c \in sending \/ c >= next =>
              /\ c \notin book.working \cup poll.todo \cup {poll.at}
              /\ book.applied[c] = 0
        /\ c >= next => c \notin sending \cup saved.working /\ venue[c] = Unsent

IInv == TypeOK /\ Accounted /\ SavedAccounted /\ Unregistered

-----------------------------------------------------------------------------
(* Types *)

\* Quantities and prices are natural numbers, and so are what is made of them.
LEMMA Product == ASSUME NEW a \in Nat, NEW b \in Nat PROVE a * b \in Nat
  BY SMT

LEMMA Quotient == ASSUME NEW a \in Nat, NEW b \in Nat \ {0} PROVE a \div b \in Nat
<1>1. a \div b \in Int /\ a \div b >= 0
  BY SMT
<1> QED BY <1>1

LEMMA InitTypes == Init => TypeOK
<1> SUFFICES ASSUME Init PROVE TypeOK
  OBVIOUS
<1>1. Zeros \in [Orders -> Nat]
  BY DEF Zeros
<1>2. EmptyBook \in BookType
  BY <1>1 DEF EmptyBook, BookType
<1>3. NoPoll \in PollType /\ NoRecon \in ReconType /\ NoApi \in ApiType
  BY <1>1 DEF NoPoll, NoRecon, NoApi, PollType, ReconType, ApiType
<1>4. venue \in [Orders -> OrderType] /\ row \in [Orders -> RowType]
  BY DEF Init, Unsent, OrderType, RowType
<1>5. sending \subseteq Orders /\ next \in Nat \ {0} /\ crashes \in Nat
  BY DEF Init
<1>6. removed \in BOOLEAN
  BY Zenon DEF Init
<1> QED BY <1>2, <1>3, <1>4, <1>5, <1>6 DEF Init, TypeOK

LEMMA AverageType == ASSUME TypeOK, NEW c \in Orders PROVE Average(c) \in Nat
<1>1. venue[c].filled \in Nat /\ venue[c].value \in Nat
  BY DEF TypeOK, OrderType
<1> QED BY <1>1, Quotient DEF Average

LEMMA FilledType ==
    ASSUME NEW r \in OrderType, NEW n \in Nat, NEW v \in Nat, NEW st \in {"open", "executed"},
           NEW e, e = [r EXCEPT !.filled = @ + n, !.value = @ + v, !.status = st]
    PROVE  e \in OrderType /\ e.filled = r.filled + n
<1>1. r.filled + n \in Nat /\ r.value + v \in Nat
  BY DEF OrderType
<1> QED BY <1>1 DEF OrderType

LEMMA TradedType ==
    ASSUME TypeOK, NEW c \in Orders, NEW p \in Prices
    PROVE  Traded(c, p) \in OrderType /\ Traded(c, p).filled >= venue[c].filled
<1> DEFINE n == IF "partial" \in Faults THEN 1 ELSE venue[c].qty
           st == IF venue[c].filled + n >= venue[c].qty THEN "executed" ELSE "open"
<1>1. venue[c] \in OrderType
  BY DEF TypeOK
<1>2. n \in Nat /\ n * p \in Nat
  BY <1>1, SizeAssumption, Product DEF OrderType
<1>3. Traded(c, p) = [venue[c] EXCEPT !.filled = @ + n, !.value = @ + n * p, !.status = st]
  BY DEF Traded
<1>4. st \in {"open", "executed"}
  OBVIOUS
<1> DEFINE v == n * p
<1>5. Traded(c, p) = [venue[c] EXCEPT !.filled = @ + n, !.value = @ + v, !.status = st]
  BY <1>3
<1>6. v \in Nat
  BY <1>2
<1> HIDE DEF n, st, v
<1> DEFINE r == venue[c]
           e == Traded(c, p)
<1>7. e \in OrderType /\ e.filled = r.filled + n
  <2>1. r \in OrderType /\ e = [r EXCEPT !.filled = @ + n, !.value = @ + v, !.status = st]
    BY <1>1, <1>5
  <2> HIDE DEF r, e
  <2> QED BY <1>2, <1>4, <1>6, <2>1, FilledType
<1>8. venue[c].filled \in Nat
  BY <1>1 DEF OrderType
<1> QED BY <1>2, <1>7, <1>8

LEMMA VenueTypes == ASSUME TypeOK, NEW c \in Orders, VenueFill(c) \/ VenueKill(c) PROVE TypeOK'
<1>1. CASE VenueFill(c)
  <2>1. PICK p \in Prices : venue' = [venue EXCEPT ![c] = Traded(c, p)]
    BY <1>1 DEF VenueFill
  <2>2. venue' \in [Orders -> OrderType]
    BY <2>1, TradedType DEF TypeOK
  <2> QED BY <1>1, <2>2 DEF VenueFill, TypeOK, Threads, Elsewhere
<1>2. CASE VenueKill(c)
  <2>1. [venue[c] EXCEPT !.status = "cancelled"] \in OrderType
    BY DEF TypeOK, OrderType
  <2>2. venue' \in [Orders -> OrderType]
    BY <1>2, <2>1 DEF VenueKill, TypeOK
  <2> QED BY <1>2, <2>2 DEF VenueKill, TypeOK, Threads, Elsewhere
<1> QED BY <1>1, <1>2
LEMMA SubmitTypes == ASSUME TypeOK, Submit PROVE TypeOK'
<1> USE DEF Threads, Elsewhere
<1>1. Sent \in OrderType
  BY SizeAssumption DEF Sent, OrderType
<1>2. CASE Place
  BY <1>1, <1>2 DEF Place, MaySubmit, TypeOK, RowType
<1>3. CASE PlaceFails
  BY <1>1, <1>3 DEF PlaceFails, MaySubmit, TypeOK, RowType
<1>4. ASSUME NEW c \in Orders, Register(c) PROVE TypeOK'
  <2>1. book' \in BookType
    BY <1>4, SizeAssumption DEF Register, TypeOK, BookType
  <2> QED BY <1>4, <2>1 DEF Register, TypeOK
<1> QED BY <1>2, <1>3, <1>4 DEF Submit

LEMMA PumpTypes == ASSUME TypeOK, Pump PROVE TypeOK'
<1> USE DEF Elsewhere
<1>1. CASE StartPoll
  <2>1. poll' \in PollType
    BY <1>1 DEF StartPoll, NoPoll, TypeOK, PollType, BookType
  <2> QED BY <1>1, <2>1 DEF StartPoll, TypeOK
<1>2. CASE BookFill
  <2> DEFINE c == poll.at
  <2>1. c \in Orders /\ poll.delta \in Nat /\ poll.price \in Nat
    BY <1>2 DEF BookFill, TypeOK, PollType
  <2>2. poll.delta * poll.price \in Nat
    BY <2>1, Product
  <2>3. poll' \in PollType
    BY <1>2 DEF BookFill, TypeOK, PollType
  <2>4. row' \in [Orders -> RowType]
    BY <1>2, <2>1 DEF BookFill, TypeOK, RowType
  <2>5. book' \in BookType
    <3> DEFINE v == poll.delta * poll.price
               b == book.booked[c] + poll.delta
               k == book.cost[c] + v
    <3>1. b \in Nat /\ k \in Nat
      BY <2>1, <2>2 DEF TypeOK, BookType
    <3>2. book' = book \/ book' = [book EXCEPT !.booked[c] = b, !.cost[c] = k]
      BY <1>2 DEF BookFill, BookDelta
    <3> HIDE DEF v, b, k, c
    <3>3. [book EXCEPT !.booked[c] = b, !.cost[c] = k] \in BookType
      BY <2>1, <3>1 DEF TypeOK, BookType
    <3> QED BY <3>2, <3>3 DEF TypeOK
  <2> QED BY <1>2, <2>3, <2>4, <2>5 DEF BookFill, TypeOK
<1>3. CASE AdvanceApplied
  <2>1. poll.at \in Orders /\ Advance(poll.at) \in Nat
    BY <1>3 DEF AdvanceApplied, Advance, TypeOK, PollType, BookType
  <2>2. poll' \in PollType
    BY <1>3 DEF AdvanceApplied, NoPoll, TypeOK, PollType
  <2>3. book' \in BookType
    BY <1>3, <2>1 DEF AdvanceApplied, TypeOK, BookType
  <2> QED BY <1>3, <2>2, <2>3 DEF AdvanceApplied, TypeOK
<1>4. ASSUME NEW c \in Orders, PollOne(c) PROVE TypeOK'
  <2>1. Average(c) \in Nat /\ Delta(c) \in Int
    BY AverageType DEF Delta, TypeOK, OrderType, BookType
  <2>2. poll' \in PollType
    <3>1. CASE poll' = [poll EXCEPT !.todo = @ \ {c}]
      BY <3>1 DEF TypeOK, PollType
    <3>2. CASE /\ Delta(c) > 0
               /\ poll' = [todo |-> poll.todo \ {c}, at |-> c, delta |-> Delta(c),
                           price |-> Average(c), done |-> FALSE]
      BY <2>1, <3>2 DEF TypeOK, PollType
    <3> QED BY <1>4, <3>1, <3>2 DEF PollOne, PollSees, PollNothing
  <2> QED BY <1>4, <2>2 DEF PollOne, PollSees, PollNothing, TypeOK
<1> QED BY <1>1, <1>2, <1>3, <1>4 DEF Pump

LEMMA ReconcileTypes == ASSUME TypeOK, Reconcile PROVE TypeOK'
<1> USE DEF Elsewhere
<1>1. CASE ReconRead
  <2>1. recon' \in ReconType
    BY <1>1 DEF ReconRead, TypeOK, ReconType, OrderType
  <2> QED BY <1>1, <2>1 DEF ReconRead, TypeOK
<1>2. NoRecon \in ReconType
  BY DEF NoRecon, ReconType
<1>3. CASE ReconList
  <2>1. recon' \in ReconType
    BY <1>2, <1>3 DEF ReconList, TypeOK, ReconType, BookType
  <2> QED BY <1>3, <2>1 DEF ReconList, TypeOK
<1>4. ASSUME NEW c \in Orders, ReconRow(c) PROVE TypeOK'
  <2>1. recon' \in ReconType
    BY <1>2, <1>4 DEF ReconRow, TypeOK, ReconType
  <2>2. row' \in [Orders -> RowType]
    BY <1>4 DEF ReconRow, Cancelled, TypeOK, RowType
  <2>3. book' \in BookType
    BY <1>4 DEF ReconRow, Popped, TypeOK, BookType
  <2> QED BY <1>4, <2>1, <2>2, <2>3 DEF ReconRow, TypeOK
<1> QED BY <1>1, <1>3, <1>4 DEF Reconcile

LEMMA OperatorTypes == ASSUME TypeOK, Operator PROVE TypeOK'
<1> USE DEF Elsewhere
<1>1. NoApi \in ApiType
  BY DEF NoApi, Zeros, ApiType
<1>2. [NoApi EXCEPT !.kind = "save"] \in ApiType
  BY <1>1 DEF ApiType
<1>3. CASE CancelLocally
  <2>1. row' \in [Orders -> RowType] /\ api' \in ApiType
    BY <1>1, <1>2, <1>3 DEF CancelLocally, Cancelled, TypeOK, RowType
  <2>2. book' \in BookType
    BY <1>3 DEF CancelLocally, Popped, TypeOK, BookType
  <2> QED BY <1>3, <2>1, <2>2 DEF CancelLocally, TypeOK
<1>4. CASE AmendLocally
  <2>1. api' \in ApiType
    BY <1>1, <1>2, <1>4 DEF AmendLocally
  <2>2. book' \in BookType
    BY <1>4 DEF AmendLocally, TypeOK, BookType, ApiType
  <2> QED BY <1>4, <2>1, <2>2 DEF AmendLocally, TypeOK
<1>5. CASE CapturePortfolio
  <2>1. api' \in ApiType
    BY <1>1, <1>5 DEF CapturePortfolio, TypeOK, ApiType, BookType
  <2> QED BY <1>5, <2>1 DEF CapturePortfolio, TypeOK
<1>6. CASE CaptureGateway
  <2>1. saved' \in BookType
    BY <1>6 DEF CaptureGateway, TypeOK, ApiType, BookType
  <2> QED BY <1>1, <1>6, <2>1 DEF CaptureGateway, TypeOK
<1>7. ASSUME NEW c \in Orders, CancelAtVenue(c) PROVE TypeOK'
  <2>1. venue' \in [Orders -> OrderType]
    BY <1>7 DEF CancelAtVenue, TypeOK, OrderType
  <2>2. api' \in ApiType
    BY <1>1, <1>7 DEF CancelAtVenue, TypeOK, ApiType
  <2> QED BY <1>7, <2>1, <2>2 DEF CancelAtVenue, TypeOK
<1>8. ASSUME NEW c \in Orders, AmendAtVenue(c) PROVE TypeOK'
  <2>1. venue' \in [Orders -> OrderType]
    BY <1>8, SizeAssumption DEF AmendAtVenue, TypeOK, OrderType
  <2>2. api' \in ApiType
    BY <1>1, <1>8, SizeAssumption DEF AmendAtVenue, TypeOK, ApiType
  <2> QED BY <1>8, <2>1, <2>2 DEF AmendAtVenue, TypeOK
<1> QED BY <1>3, <1>4, <1>5, <1>6, <1>7, <1>8 DEF Operator, Answer

LEMMA ProcessTypes == ASSUME TypeOK, Process PROVE TypeOK'
<1> USE DEF Threads
<1>1. CASE SaveState
  BY <1>1 DEF SaveState, TypeOK, Elsewhere
<1>2. CASE RemoveRunner
  <2>1. removed' \in BOOLEAN
    BY <1>2, Zenon DEF RemoveRunner
  <2> QED BY <1>2, <2>1 DEF RemoveRunner, TypeOK
<1>3. CASE Restart
  <2>1. NoPoll \in PollType /\ NoRecon \in ReconType /\ NoApi \in ApiType
    BY DEF NoPoll, NoRecon, NoApi, Zeros, PollType, ReconType, ApiType
  <2>2. row' \in [Orders -> RowType]
    BY <1>3 DEF Restart, RowType
  <2> QED BY <1>3, <2>1, <2>2 DEF Restart, TypeOK
<1> QED BY <1>1, <1>2, <1>3 DEF Process
LEMMA TypeStep == ASSUME TypeOK, [Next]_vars PROVE TypeOK'
<1>1. CASE UNCHANGED vars
  BY <1>1 DEF vars, TypeOK
<1>2. CASE Venue
  BY <1>2, VenueTypes DEF Venue
<1> QED
  BY <1>1, <1>2, SubmitTypes, PumpTypes, ReconcileTypes, OperatorTypes, ProcessTypes DEF Next

-----------------------------------------------------------------------------
(* The invariant *)

\* The numbers the invariant compares.
LEMMA Numbers ==
    ASSUME TypeOK, NEW c \in Orders
    PROVE  /\ c \in Nat \ {0} /\ next \in Nat
           /\ venue[c].filled \in Nat /\ venue[c] \in OrderType
           /\ book.booked[c] \in Nat /\ book.applied[c] \in Nat
           /\ saved.booked[c] \in Nat /\ saved.applied[c] \in Nat
           /\ api.booked[c] \in Nat /\ poll.delta \in Nat
           /\ InHand(c) \in Nat /\ Pending(c) \in Nat
<1>1. c \in Nat \ {0} /\ next \in Nat /\ venue[c].filled \in Nat /\ venue[c] \in OrderType
  BY SizeAssumption DEF TypeOK, OrderType, Orders
<1>2. /\ book.booked[c] \in Nat /\ book.applied[c] \in Nat
      /\ saved.booked[c] \in Nat /\ saved.applied[c] \in Nat
      /\ api.booked[c] \in Nat /\ poll.delta \in Nat
  BY DEF TypeOK, BookType, PollType, ApiType
<1>3. InHand(c) \in Nat /\ Pending(c) \in Nat
  BY <1>2 DEF InHand, Pending
<1> QED BY <1>1, <1>2, <1>3

LEMMA InitInv == Init => IInv
<1> SUFFICES ASSUME Init PROVE IInv
  OBVIOUS
<1>1. TypeOK
  BY InitTypes
<1>2. Accounted /\ SavedAccounted /\ Unregistered
  BY DEF Init, Accounted, SavedAccounted, Unregistered, EmptyBook, Zeros, NoPoll, NoApi,
         Unsent, InHand, Pending, Orders
<1> QED BY <1>1, <1>2 DEF IInv

\* A step that leaves the books and the poll alone, loses no fill of the venue
\* and only ever registers the next order keeps what is accounted for.
LEMMA VenueGrows ==
    ASSUME IInv, TypeOK', UNCHANGED <<book, poll, saved>>,
           api'.kind = "write" => api' = api,
           \A c \in Orders : venue'[c].filled >= venue[c].filled
    PROVE  Accounted' /\ SavedAccounted'
<1>1. \A c \in Orders : venue[c].filled \in Nat /\ venue'[c].filled \in Nat
  BY DEF IInv, TypeOK, OrderType
<1>2. ASSUME NEW c \in Orders
      PROVE  /\ book.booked[c] <= book.applied[c] + Pending(c)
             /\ book.applied[c] + InHand(c) <= venue'[c].filled
             /\ saved.applied[c] <= venue'[c].filled
  BY <1>1, Numbers DEF IInv, Accounted, SavedAccounted
<1> QED BY <1>2 DEF IInv, Accounted, SavedAccounted, InHand, Pending

LEMMA VenueInv == ASSUME IInv, TypeOK', Venue PROVE IInv'
<1>1. PICK c \in Orders : VenueFill(c) \/ VenueKill(c)
  BY DEF Venue
<1>2. UNCHANGED <<sending, book, poll, api, saved, next>>
  BY <1>1 DEF VenueFill, VenueKill, Threads, Elsewhere
<1>3. /\ \A d \in Orders : venue'[d].filled >= venue[d].filled
      /\ \A d \in Orders : d # c => venue'[d] = venue[d]
      /\ venue[c].status = "open"
  <2>1. CASE VenueFill(c)
    <3>1. PICK p \in Prices : venue' = [venue EXCEPT ![c] = Traded(c, p)]
      BY <2>1 DEF VenueFill
    <3> QED BY <2>1, <3>1, TradedType, Numbers DEF VenueFill, IInv, TypeOK
  <2>2. CASE VenueKill(c)
    BY <2>2, Numbers DEF VenueKill, IInv, TypeOK, OrderType
  <2> QED BY <1>1, <2>1, <2>2
<1>4. Accounted' /\ SavedAccounted'
  BY <1>2, <1>3, VenueGrows
<1>5. ~(c >= next)
  BY <1>3 DEF IInv, Unregistered, Unsent
<1>6. Unregistered'
  BY <1>2, <1>3, <1>5 DEF IInv, Unregistered
<1> QED BY <1>4, <1>6 DEF IInv

LEMMA SubmitInv == ASSUME IInv, TypeOK', Submit PROVE IInv'
<1> USE DEF Threads
<1>1. CASE Place \/ PlaceFails
  <2>1. /\ next \in Orders /\ next' = next + 1
        /\ UNCHANGED <<book, poll, api, saved>>
        /\ sending' \subseteq sending \cup {next}
        /\ venue' = venue \/ venue' = [venue EXCEPT ![next] = Sent]
    BY <1>1 DEF Place, PlaceFails, MaySubmit
  <2>2. venue[next] = Unsent /\ Sent.filled = 0 /\ Unsent.filled = 0
    BY <2>1, Numbers DEF IInv, Unregistered, Sent, Unsent
  <2>3. \A c \in Orders : venue'[c].filled >= venue[c].filled
    BY <2>1, <2>2, Numbers DEF IInv, TypeOK
  <2>4. Accounted' /\ SavedAccounted'
    BY <2>1, <2>3, VenueGrows
  <2>5. Unregistered'
    BY <2>1, Numbers DEF IInv, Unregistered, TypeOK
  <2> QED BY <2>4, <2>5 DEF IInv
<1>2. ASSUME NEW c \in Orders, Register(c) PROVE IInv'
  <2>1. /\ c \in sending /\ sending' = sending \ {c}
        /\ UNCHANGED <<venue, poll, api, saved, next>>
        /\ book'.booked = book.booked /\ book'.working = book.working \cup {c}
        /\ book'.applied = [book.applied EXCEPT ![c] = 0]
    BY <1>2 DEF Register, Elsewhere, IInv, TypeOK, BookType
  <2>2. book.applied[c] = 0 /\ ~(c >= next)
    BY <2>1 DEF IInv, Unregistered
  <2>3. book'.applied = book.applied
    BY <2>1, <2>2 DEF IInv, TypeOK, BookType
  <2>4. Accounted' /\ SavedAccounted'
    BY <2>1, <2>3 DEF IInv, Accounted, SavedAccounted, InHand, Pending
  <2>5. Unregistered'
    BY <2>1, <2>2, <2>3 DEF IInv, Unregistered
  <2> QED BY <2>4, <2>5 DEF IInv
<1> QED BY <1>1, <1>2 DEF Submit

LEMMA PumpInv == ASSUME IInv, TypeOK', Pump PROVE IInv'
<1> USE DEF Elsewhere
<1>1. CASE StartPoll
  <2>1. /\ poll.at = 0 /\ poll'.at = 0 /\ poll'.todo = book.working
        /\ UNCHANGED <<venue, sending, book, api, saved, next>>
    BY <1>1 DEF StartPoll, Polling, NoPoll
  <2>2. Accounted' /\ SavedAccounted'
    BY <2>1, Numbers DEF IInv, Accounted, SavedAccounted, InHand, Pending
  <2>3. Unregistered'
    BY <2>1, Numbers DEF IInv, Unregistered
  <2> QED BY <2>2, <2>3 DEF IInv
<1>2. CASE BookFill
  <2> DEFINE c == poll.at
  <2>1. /\ c \in Orders /\ ~poll.done /\ poll'.done
        /\ poll'.at = c /\ poll'.delta = poll.delta /\ poll'.todo = poll.todo
        /\ UNCHANGED <<venue, sending, api, saved, next>>
    BY <1>2 DEF BookFill, IInv, TypeOK, PollType
  <2>2. /\ book'.applied = book.applied /\ book'.working = book.working
        /\ \A d \in Orders : d # c => book'.booked[d] = book.booked[d]
        /\ book'.booked[c] \in {book.booked[c], book.booked[c] + poll.delta}
    BY <1>2, <2>1 DEF BookFill, BookDelta, IInv, TypeOK, BookType
  <2>3. ASSUME NEW d \in Orders
        PROVE  book'.booked[d] <= book'.applied[d] + Pending(d)'
    BY <2>1, <2>2, Numbers DEF IInv, Accounted, Pending
  <2>4. Accounted' /\ SavedAccounted'
    BY <2>1, <2>2, <2>3 DEF IInv, Accounted, SavedAccounted, InHand
  <2>5. Unregistered'
    BY <2>1, <2>2 DEF IInv, Unregistered
  <2> QED BY <2>4, <2>5 DEF IInv
<1>3. CASE AdvanceApplied
  <2> DEFINE c == poll.at
  <2>1. /\ c \in Orders /\ poll.done /\ poll'.at = 0 /\ poll'.todo = poll.todo
        /\ UNCHANGED <<venue, sending, api, saved, next>>
    BY <1>3 DEF AdvanceApplied, NoPoll, IInv, TypeOK, PollType
  <2>2. /\ book'.applied = [book.applied EXCEPT ![c] = @ + poll.delta]
        /\ book'.working \subseteq book.working /\ book'.booked = book.booked
    BY <1>3, <2>1 DEF AdvanceApplied, Advance, IInv, TypeOK, BookType
  <2>3. ASSUME NEW d \in Orders
        PROVE  /\ book'.booked[d] <= book'.applied[d] + Pending(d)'
               /\ book'.applied[d] + InHand(d)' <= venue'[d].filled
               /\ api'.kind = "write" => api'.booked[d] <= book'.applied[d]
    BY <2>1, <2>2, Numbers DEF IInv, Accounted, SavedAccounted, Pending, InHand, TypeOK, BookType
  <2>4. Accounted' /\ SavedAccounted'
    BY <2>1, <2>3 DEF IInv, Accounted, SavedAccounted
  <2>5. Unregistered'
    BY <2>1, <2>2, Numbers DEF IInv, Unregistered, TypeOK, BookType
  <2> QED BY <2>4, <2>5 DEF IInv
<1>4. ASSUME NEW c \in Orders, PollOne(c) PROVE IInv'
  <2>1. /\ poll.at = 0 /\ c \in poll.todo
        /\ poll'.todo = poll.todo \ {c}
        /\ \/ poll'.at = c /\ poll'.delta = Delta(c) /\ ~poll'.done
           \/ poll'.at = 0
        /\ UNCHANGED <<venue, sending, book, api, saved, next>>
    BY <1>4 DEF PollOne, PollSees, PollNothing, IInv, TypeOK, PollType
  <2>2. ASSUME NEW d \in Orders
        PROVE  /\ book'.booked[d] <= book'.applied[d] + Pending(d)'
               /\ book'.applied[d] + InHand(d)' <= venue'[d].filled
    BY <2>1, Numbers DEF IInv, Accounted, Pending, InHand, Delta
  <2>3. Accounted' /\ SavedAccounted'
    BY <2>1, <2>2 DEF IInv, Accounted, SavedAccounted
  <2>4. Unregistered'
    BY <2>1, Numbers DEF IInv, Unregistered
  <2> QED BY <2>3, <2>4 DEF IInv
<1> QED BY <1>1, <1>2, <1>3, <1>4 DEF Pump
LEMMA ReconcileInv == ASSUME IInv, TypeOK', Reconcile PROVE IInv'
<1>1. /\ UNCHANGED <<venue, sending, poll, api, saved, next>>
      /\ book'.booked = book.booked /\ book'.applied = book.applied
      /\ book'.working \subseteq book.working
  BY DEF Reconcile, ReconRead, ReconList, ReconRow, Popped, Elsewhere, IInv, TypeOK, BookType
<1>2. Accounted' /\ SavedAccounted'
  BY <1>1 DEF IInv, Accounted, SavedAccounted, InHand, Pending
<1>3. Unregistered'
  BY <1>1 DEF IInv, Unregistered
<1> QED BY <1>2, <1>3 DEF IInv

LEMMA OperatorInv == ASSUME IInv, TypeOK', Operator, "save" \notin Faults PROVE IInv'
<1> USE DEF Elsewhere
<1>1. CASE CancelLocally \/ AmendLocally
  <2>1. /\ UNCHANGED <<venue, sending, poll, saved, next>>
        /\ book'.booked = book.booked /\ book'.applied = book.applied
        /\ book'.working \subseteq book.working
        /\ api'.kind # "write"
    BY <1>1 DEF CancelLocally, AmendLocally, Popped, NoApi, IInv, TypeOK, BookType
  <2>2. Accounted' /\ SavedAccounted'
    BY <2>1 DEF IInv, Accounted, SavedAccounted, InHand, Pending
  <2>3. Unregistered'
    BY <2>1 DEF IInv, Unregistered
  <2> QED BY <2>2, <2>3 DEF IInv
<1>2. CASE CapturePortfolio
  <2>1. /\ UNCHANGED <<venue, sending, book, poll, saved, next>>
        /\ poll.at = 0 /\ api'.booked = book.booked
    BY <1>2 DEF CapturePortfolio, NoApi
  <2>2. Accounted' /\ SavedAccounted'
    BY <2>1, Numbers DEF IInv, Accounted, SavedAccounted, InHand, Pending
  <2>3. Unregistered'
    BY <2>1 DEF IInv, Unregistered
  <2> QED BY <2>2, <2>3 DEF IInv
<1>3. CASE CaptureGateway
  <2>1. /\ UNCHANGED <<venue, sending, book, poll, next>>
        /\ api.kind = "write" /\ api'.kind = "none"
        /\ saved'.booked = api.booked /\ saved'.applied = book.applied
        /\ saved'.working = book.working
    BY <1>3 DEF CaptureGateway, NoApi, IInv, TypeOK, BookType
  <2>2. Accounted' /\ SavedAccounted'
    BY <2>1, Numbers DEF IInv, Accounted, SavedAccounted, InHand, Pending
  <2>3. Unregistered'
    BY <2>1 DEF IInv, Unregistered
  <2> QED BY <2>2, <2>3 DEF IInv
<1>4. ASSUME NEW c \in Orders, CancelAtVenue(c) \/ AmendAtVenue(c) PROVE IInv'
  <2>1. /\ UNCHANGED <<sending, book, poll, saved, next>>
        /\ venue[c].status = "open"
        /\ api'.kind = "write" => api' = api
        /\ \A d \in Orders : venue'[d].filled = venue[d].filled
        /\ \A d \in Orders : d # c => venue'[d] = venue[d]
    <3>1. /\ UNCHANGED <<sending, book, poll, saved, next>>
          /\ venue[c].status = "open"
          /\ api'.kind = "write" => api' = api
      BY <1>4 DEF CancelAtVenue, AmendAtVenue, NoApi
    <3>2. PICK e : venue' = [venue EXCEPT ![c] = e] /\ e.filled = venue[c].filled
      <4>1. CASE CancelAtVenue(c)
        <5> DEFINE e == [venue[c] EXCEPT !.status = "cancelled"]
        <5>1. e.filled = venue[c].filled
          BY DEF IInv, TypeOK, OrderType
        <5>2. venue' = [venue EXCEPT ![c] = e]
          BY <4>1 DEF CancelAtVenue
        <5> QED BY <5>1, <5>2
      <4>2. CASE AmendAtVenue(c)
        <5>1. PICK q \in Amends : venue' = [venue EXCEPT ![c].qty = q]
          BY <4>2 DEF AmendAtVenue
        <5> DEFINE e == [venue[c] EXCEPT !.qty = q]
        <5>2. e.filled = venue[c].filled
          BY DEF IInv, TypeOK, OrderType
        <5>3. venue' = [venue EXCEPT ![c] = e]
          BY <5>1
        <5> QED BY <5>2, <5>3
      <4> QED BY <1>4, <4>1, <4>2
    <3>3. venue \in [Orders -> OrderType]
      BY DEF IInv, TypeOK
    <3> QED BY <3>1, <3>2, <3>3
  <2>2. Accounted' /\ SavedAccounted'
    BY <2>1, VenueGrows, Numbers DEF IInv
  <2>3. ~(c >= next)
    BY <2>1 DEF IInv, Unregistered, Unsent
  <2>4. Unregistered'
    BY <2>1, <2>3 DEF IInv, Unregistered
  <2> QED BY <2>2, <2>4 DEF IInv
<1> QED BY <1>1, <1>2, <1>3, <1>4 DEF Operator, Answer

LEMMA ProcessInv == ASSUME IInv, TypeOK', Process PROVE IInv'
<1> USE DEF Threads, Elsewhere
<1>1. CASE SaveState
  <2>1. /\ UNCHANGED <<venue, sending, book, poll, api, next>>
        /\ saved' = book /\ poll.at = 0
    BY <1>1 DEF SaveState, Polling
  <2>2. Accounted' /\ SavedAccounted'
    BY <2>1, Numbers DEF IInv, Accounted, SavedAccounted, InHand, Pending
  <2>3. Unregistered'
    BY <2>1 DEF IInv, Unregistered
  <2> QED BY <2>2, <2>3 DEF IInv
<1>2. CASE RemoveRunner
  BY <1>2 DEF RemoveRunner, IInv, Accounted, SavedAccounted, Unregistered, InHand, Pending
<1>3. CASE Restart
  <2>1. /\ UNCHANGED <<venue, saved, next>>
        /\ book' = saved /\ sending' = {}
        /\ poll'.at = 0 /\ poll'.todo = {} /\ api'.kind = "none"
    BY <1>3 DEF Restart, NoPoll, NoApi
  <2>2. Accounted' /\ SavedAccounted'
    BY <2>1, Numbers DEF IInv, Accounted, SavedAccounted, InHand, Pending
  <2>3. ASSUME NEW c \in Orders, c >= next PROVE saved.applied[c] = 0
    BY <2>3, Numbers DEF IInv, SavedAccounted, Unregistered, Unsent
  <2>4. Unregistered'
    BY <2>1, <2>3, Numbers DEF IInv, Unregistered
  <2> QED BY <2>2, <2>4 DEF IInv
<1> QED BY <1>1, <1>2, <1>3 DEF Process

LEMMA InvStep == ASSUME IInv, [Next]_vars, "save" \notin Faults PROVE IInv'
<1>1. TypeOK'
  BY TypeStep DEF IInv
<1>2. CASE UNCHANGED vars
  BY <1>1, <1>2 DEF vars, IInv, Accounted, SavedAccounted, Unregistered, InHand, Pending
<1> QED
  BY <1>1, <1>2, VenueInv, SubmitInv, PumpInv, ReconcileInv, OperatorInv, ProcessInv DEF Next

-----------------------------------------------------------------------------
(* Theorems *)

\* Every variable of the gateway, its venue, its ledger rows and its snapshots
\* keeps its type.
THEOREM TypesHold == Spec => []TypeOK
  BY InitTypes, TypeStep, PTL DEF Spec

\* The accounting behind the polls is inductive while snapshots do not overlap
\* a poll (snapshot_state taken on the thread that polls, or between polls).
THEOREM Inductive == ASSUME "save" \notin Faults PROVE Spec => []IInv
  BY InitInv, InvStep, PTL DEF Spec

\* "a repeated poll can never double-count": however polls, failing polls,
\* partial fills, cancels, amendments, reconciliations and restarts from older
\* snapshots interleave, the book holds no more of an order than was filled.
THEOREM NothingBookedTwice == ASSUME "save" \notin Faults PROVE Spec => []NeverOverBooked
<1>1. IInv => NeverOverBooked
  <2> SUFFICES ASSUME IInv, NEW c \in Orders PROVE book.booked[c] <= venue[c].filled
    BY DEF NeverOverBooked
  <2>1. Pending(c) <= InHand(c)
    BY Numbers DEF IInv, Pending, InHand
  <2> QED BY <2>1, Numbers DEF IInv, Accounted
<1> QED BY <1>1, Inductive, PTL

-----------------------------------------------------------------------------
(* Every fill reaches the book *)

\* What the fill of an order needs to reach the book: the venue fills whole,
\* an answer is not lost, and neither a reconciliation nor a snapshot runs
\* beside the polls.
Whole == Faults \subseteq {"drop", "remove"}

\* An order fills at once or never.
AllOrNone == \A c \in Orders : venue[c].filled # 0 => venue[c].status = "executed"

\* An order in hand fills no further, and has a row to turn FILLED.
PollOK ==
    \A c \in Orders :
        /\ c \in sending \cup book.working \cup poll.todo \cup {poll.at} => row[c] # "none"
        /\ c = poll.at => /\ venue[c].status = "executed"
                          /\ venue[c].filled = book.applied[c] + poll.delta

\* What the reconciliation read as dead, or as unknown, still is.
ReconOK ==
    recon.pc # "idle" =>
        \A c \in Orders : recon.seen[c] \in {"none", "cancelled"} =>
                              venue[c].status = recon.seen[c]

\* A cancel has the venue's word; half a snapshot is of a book no poll moves.
ApiOK ==
    /\ \A c \in Orders : api.kind = "cancel" /\ c = api.order => venue[c].status = "cancelled"
    /\ api.kind = "write" => poll.at = 0 /\ api.booked = book.booked

\* While the runner is there, book and applied quantities go together.
Exact ==
    ~removed => \A c \in Orders : /\ book.booked[c] = book.applied[c] + Pending(c)
                                  /\ saved.booked[c] = saved.applied[c]

\* An order that has left the working set is over, and booked.
Over(c) ==
    row[c] # "none" /\ c \notin sending \cup book.working \cup {poll.at} =>
        /\ venue[c].status # "open"
        /\ ~removed => book.booked[c] = venue[c].filled
OverOK == \A c \in Orders : Over(c)

Parts == AllOrNone /\ PollOK /\ ReconOK /\ ApiOK /\ Exact /\ OverOK
WholeInv == IInv /\ Parts

LEMMA InitWhole == Init => WholeInv
<1> SUFFICES ASSUME Init PROVE WholeInv
  OBVIOUS
<1>1. AllOrNone /\ PollOK /\ Exact /\ OverOK
  BY DEF Init, AllOrNone, PollOK, Exact, OverOK, Over, EmptyBook, Zeros, NoPoll, Unsent,
         Pending, Orders
<1>2. ReconOK /\ ApiOK
  BY DEF Init, ReconOK, ApiOK, NoRecon, NoApi
<1> QED BY <1>1, <1>2, InitInv DEF WholeInv, Parts

\* An order no venue has filled is not booked, nor in hand.
LEMMA NothingBooked ==
    ASSUME IInv, NEW c \in Orders, venue[c].filled = 0
    PROVE  book.booked[c] = 0 /\ book.applied[c] = 0
<1>1. Pending(c) <= InHand(c)
  BY Numbers DEF IInv, Pending, InHand
<1> QED BY <1>1, Numbers DEF IInv, Accounted

\* The venue moves an order only while it is open, and fills it whole; no other
\* variable of the parts moves.
LEMMA OpenMoves ==
    ASSUME WholeInv, TypeOK', NEW c \in Orders, venue[c].status = "open",
           \A d \in Orders : d # c => venue'[d] = venue[d],
           venue'[c].filled # 0 => venue'[c].status = "executed",
           UNCHANGED <<row, sending, book, poll, recon, saved, removed>>,
           \/ UNCHANGED api
           \/ /\ api'.kind \in {"cancel", "modify"}
              /\ api'.order = c
              /\ api'.kind = "cancel" => venue'[c].status = "cancelled"
    PROVE  Parts'
<1> USE DEF WholeInv, Parts
<1>1. AllOrNone' /\ PollOK'
  BY DEF AllOrNone, PollOK
<1>2. ReconOK'
  BY DEF ReconOK
<1>3. ApiOK'
  BY DEF ApiOK
<1>4. Exact'
  BY DEF Exact, Pending
<1>5. OverOK'
  BY DEF OverOK, Over
<1> QED BY <1>1, <1>2, <1>3, <1>4, <1>5

LEMMA WholeVenue == ASSUME Whole, WholeInv, TypeOK', Venue PROVE Parts'
<1>1. PICK c \in Orders : VenueFill(c) \/ VenueKill(c)
  BY DEF Venue
<1>2. /\ venue[c].status = "open"
      /\ UNCHANGED <<row, sending, book, poll, recon, api, saved, removed>>
  BY <1>1 DEF VenueFill, VenueKill, Threads, Elsewhere
<1>3. venue[c].filled = 0 /\ venue[c].qty \in Nat /\ venue \in [Orders -> OrderType]
  BY <1>2 DEF WholeInv, Parts, IInv, AllOrNone, TypeOK, OrderType
<1>4. /\ \A d \in Orders : d # c => venue'[d] = venue[d]
      /\ venue'[c].filled # 0 => venue'[c].status = "executed"
  <2>1. CASE VenueFill(c)
    <3>1. PICK p \in Prices : venue' = [venue EXCEPT ![c] = Traded(c, p)]
      BY <2>1 DEF VenueFill
    <3>2. "partial" \notin Faults
      BY DEF Whole
    <3>3. venue[c].filled + venue[c].qty >= venue[c].qty
      BY <1>3
    <3>4. Traded(c, p).status = "executed"
      BY <1>3, <3>2, <3>3 DEF Traded, OrderType
    <3> QED BY <1>3, <3>1, <3>4
  <2>2. CASE VenueKill(c)
    <3>1. [venue[c] EXCEPT !.status = "cancelled"].filled = 0
      BY <1>3 DEF OrderType
    <3> QED BY <1>3, <2>2, <3>1 DEF VenueKill
  <2> QED BY <1>1, <2>1, <2>2
<1> QED BY <1>2, <1>4, OpenMoves

LEMMA WholeSubmit == ASSUME Whole, WholeInv, TypeOK', Submit PROVE Parts'
<1> USE DEF WholeInv, Parts, Threads, Elsewhere
<1>1. CASE Place \/ PlaceFails
  <2> DEFINE n == next
  <2>1. /\ n \in Orders /\ ~removed /\ recon.pc = "idle"
        /\ UNCHANGED <<book, poll, recon, api, saved, removed>>
        /\ \A d \in Orders : d # n => venue'[d] = venue[d] /\ row'[d] = row[d]
        /\ row'[n] # "none"
        /\ \/ sending' = sending \cup {n} /\ venue'[n] = Sent
           \/ sending' = sending /\ venue'[n] = Unsent
    BY <1>1, Numbers
    DEF Place, PlaceFails, MaySubmit, Alone, Whole, IInv, Unregistered, TypeOK
  <2>2. /\ n \notin book.working \cup poll.todo \cup {poll.at}
        /\ book.applied[n] = 0 /\ venue[n] = Unsent /\ venue[n].filled = 0
    BY <2>1, Numbers DEF IInv, Unregistered, Unsent
  <2>3. book.booked[n] = 0
    BY <2>1, <2>2, NothingBooked
  <2>4. /\ venue'[n].filled = 0 /\ venue'[n].status \in {"none", "open"}
        /\ venue'[n].status = "open" => n \in sending'
    BY <2>1, <2>2 DEF Sent, Unsent
  <2> HIDE DEF n
  <2>5. AllOrNone' /\ PollOK'
    BY <2>1, <2>2, <2>4 DEF AllOrNone, PollOK
  <2>6. ReconOK'
    BY <2>1 DEF ReconOK
  <2>7. ApiOK'
    BY <2>1, <2>2 DEF ApiOK, Unsent
  <2>8. Exact'
    BY <2>1 DEF Exact, Pending
  <2>9. OverOK'
    BY <2>1, <2>3, <2>4 DEF OverOK, Over
  <2> QED BY <2>5, <2>6, <2>7, <2>8, <2>9
<1>2. ASSUME NEW c \in Orders, Register(c) PROVE Parts'
  <2>1. /\ c \in sending /\ sending' = sending \ {c}
        /\ UNCHANGED <<venue, row, poll, recon, api, saved, removed>>
        /\ book'.booked = book.booked /\ book'.working = book.working \cup {c}
        /\ book'.applied = [book.applied EXCEPT ![c] = 0]
    BY <1>2 DEF Register, IInv, TypeOK, BookType
  <2>2. book'.applied = book.applied
    BY <2>1 DEF IInv, Unregistered, TypeOK, BookType
  <2>3. AllOrNone' /\ PollOK'
    BY <2>1, <2>2 DEF AllOrNone, PollOK
  <2>4. ReconOK' /\ ApiOK'
    BY <2>1, <2>2 DEF ReconOK, ApiOK
  <2>5. Exact'
    BY <2>1, <2>2 DEF Exact, Pending
  <2>6. OverOK'
    BY <2>1, <2>2 DEF OverOK, Over
  <2> QED BY <2>3, <2>4, <2>5, <2>6
<1> QED BY <1>1, <1>2 DEF Submit

LEMMA WholePump == ASSUME Whole, WholeInv, TypeOK', Pump PROVE Parts'
<1> USE DEF WholeInv, Parts, Elsewhere
<1>1. CASE StartPoll
  <2>1. /\ poll.at = 0 /\ poll'.at = 0 /\ poll'.todo = book.working
        /\ UNCHANGED <<venue, row, sending, book, recon, api, saved, removed>>
    BY <1>1 DEF StartPoll, Polling, NoPoll
  <2>2. AllOrNone' /\ PollOK' /\ ReconOK' /\ ApiOK'
    BY <2>1, Numbers DEF IInv, AllOrNone, PollOK, ReconOK, ApiOK
  <2>3. Exact' /\ OverOK'
    BY <2>1, Numbers DEF IInv, Exact, Pending, OverOK, Over
  <2> QED BY <2>2, <2>3
<1>2. CASE BookFill
  <2> DEFINE c == poll.at
  <2>1. /\ c \in Orders /\ ~poll.done /\ poll'.done
        /\ poll'.at = c /\ poll'.delta = poll.delta /\ poll'.todo = poll.todo
        /\ UNCHANGED <<venue, sending, recon, api, saved, removed>>
    BY <1>2 DEF BookFill, IInv, TypeOK, PollType
  <2>2. /\ row[c] # "none" /\ row'[c] # "none"
        /\ \A d \in Orders : d # c => row'[d] = row[d]
    BY <1>2, <2>1 DEF BookFill, PollOK, IInv, TypeOK
  <2>3. /\ book'.applied = book.applied /\ book'.working = book.working
        /\ \A d \in Orders : d # c => book'.booked[d] = book.booked[d]
        /\ ~removed => book'.booked[c] = book.booked[c] + poll.delta
    BY <1>2, <2>1, <2>2 DEF BookFill, BookDelta, IInv, TypeOK, BookType
  <2>4. c # 0
    BY <1>2 DEF BookFill
  <2> HIDE DEF c
  <2>5. AllOrNone' /\ PollOK'
    BY <2>1, <2>2, <2>3 DEF AllOrNone, PollOK, c
  <2>6. ReconOK' /\ ApiOK'
    BY <2>1, <2>4 DEF ReconOK, ApiOK, c
  <2>7. Exact'
    <3> SUFFICES ASSUME ~removed, NEW d \in Orders
                 PROVE  /\ book'.booked[d] = book'.applied[d] + Pending(d)'
                        /\ saved'.booked[d] = saved'.applied[d]
      BY <2>1 DEF Exact
    <3>1. CASE d = c
      BY <2>1, <2>3, <3>1, Numbers DEF IInv, Exact, Pending, c
    <3>2. CASE d # c
      BY <2>1, <2>3, <3>2, Numbers DEF IInv, Exact, Pending, c
    <3> QED BY <3>1, <3>2
  <2>8. OverOK'
    BY <2>1, <2>2, <2>3 DEF OverOK, Over, c
  <2> QED BY <2>5, <2>6, <2>7, <2>8
<1>3. CASE AdvanceApplied
  <2> DEFINE c == poll.at
  <2>1. /\ c \in Orders /\ poll.done /\ poll'.at = 0 /\ poll'.todo = poll.todo
        /\ UNCHANGED <<venue, row, sending, recon, api, saved, removed>>
    BY <1>3 DEF AdvanceApplied, NoPoll, IInv, TypeOK, PollType
  <2>2. /\ book'.applied = [book.applied EXCEPT ![c] = @ + poll.delta]
        /\ book'.booked = book.booked
        /\ \A d \in Orders : d # c => (d \in book'.working <=> d \in book.working)
        /\ book'.working \subseteq book.working
    BY <1>3, <2>1 DEF AdvanceApplied, Advance, IInv, TypeOK, BookType
  <2>3. c # 0
    BY <1>3 DEF AdvanceApplied
  <2>4. /\ book'.applied[c] = book.applied[c] + poll.delta
        /\ \A d \in Orders : d # c => book'.applied[d] = book.applied[d]
    BY <2>1, <2>2 DEF IInv, TypeOK, BookType
  <2>5. /\ venue[c].status = "executed"
        /\ ~removed => book.booked[c] = venue[c].filled
    BY <2>1, Numbers DEF IInv, PollOK, Exact, Pending
  <2> HIDE DEF c
  <2>6. AllOrNone' /\ PollOK'
    BY <2>1, <2>2, <2>3, Numbers DEF IInv, AllOrNone, PollOK
  <2>7. ReconOK' /\ ApiOK'
    BY <2>1, <2>3 DEF ReconOK, ApiOK, c
  <2>8. Exact'
    BY <2>1, <2>2, <2>3, <2>4, Numbers DEF IInv, Exact, Pending, c
  <2>9. OverOK'
    BY <2>1, <2>2, <2>5 DEF OverOK, Over, c
  <2> QED BY <2>6, <2>7, <2>8, <2>9
<1>4. ASSUME NEW c \in Orders, PollOne(c) PROVE Parts'
  <2>1. /\ poll.at = 0 /\ c \in poll.todo /\ poll'.todo \subseteq poll.todo
        /\ \/ /\ poll'.at = c /\ poll'.delta = Delta(c) /\ ~poll'.done
              /\ Delta(c) > 0 /\ api.kind # "write"
           \/ poll'.at = 0
        /\ UNCHANGED <<venue, row, sending, book, recon, api, saved, removed>>
    BY <1>4 DEF PollOne, PollSees, PollNothing, Whole, IInv, TypeOK, PollType
  <2>2. PollOK'
    BY <2>1, Numbers DEF IInv, AllOrNone, PollOK, Delta
  <2>3. AllOrNone' /\ ReconOK' /\ ApiOK'
    BY <2>1 DEF AllOrNone, ReconOK, ApiOK
  <2>4. Exact'
    BY <2>1, Numbers DEF IInv, Exact, Pending
  <2>5. OverOK'
    BY <2>1, Numbers DEF IInv, OverOK, Over
  <2> QED BY <2>2, <2>3, <2>4, <2>5
<1> QED BY <1>1, <1>2, <1>3, <1>4 DEF Pump

\* An order dead or unknown at the venue may leave the working set.
LEMMA DeadLeaves ==
    ASSUME WholeInv, NEW c \in Orders, venue[c].status \in {"none", "cancelled"},
           row' = Cancelled(c), book' = Popped(c) \/ book' = book,
           UNCHANGED <<venue, sending, poll, saved, removed>>
    PROVE  AllOrNone' /\ PollOK' /\ Exact' /\ OverOK'
<1> USE DEF WholeInv, Parts
<1>1. /\ book'.booked = book.booked /\ book'.applied = book.applied
      /\ book'.working \subseteq book.working
      /\ \A d \in Orders : d # c => (d \in book'.working <=> d \in book.working)
  BY DEF Popped, IInv, TypeOK, BookType
<1>2. /\ \A d \in Orders : row'[d] # "none" <=> row[d] # "none"
  BY DEF Cancelled, IInv, TypeOK
<1>3. venue[c].filled = 0 /\ book.booked[c] = 0
  BY NothingBooked DEF AllOrNone
<1>4. AllOrNone' /\ PollOK'
  BY <1>1, <1>2 DEF AllOrNone, PollOK
<1>5. Exact'
  BY <1>1 DEF Exact, Pending
<1>6. OverOK'
  BY <1>1, <1>2, <1>3 DEF OverOK, Over
<1> QED BY <1>4, <1>5, <1>6

LEMMA WholeReconcile == ASSUME Whole, WholeInv, TypeOK', Reconcile PROVE Parts'
<1> USE DEF WholeInv, Parts, Elsewhere
<1>1. CASE ReconRead \/ ReconList
  <2>1. UNCHANGED <<venue, row, sending, book, poll, api, saved, removed>>
    BY <1>1 DEF ReconRead, ReconList
  <2>2. ReconOK'
    <3>1. CASE ReconRead
      BY <2>1, <3>1 DEF ReconOK, ReconRead
    <3>2. CASE ReconList
      <4>1. recon.pc = "read" /\ (recon'.pc = "idle" \/ recon'.seen = recon.seen)
        BY <3>2 DEF ReconList, NoRecon, IInv, TypeOK, ReconType
      <4> QED BY <2>1, <4>1 DEF ReconOK
    <3> QED BY <1>1, <3>1, <3>2
  <2>3. AllOrNone' /\ PollOK' /\ ApiOK'
    BY <2>1 DEF AllOrNone, PollOK, ApiOK
  <2>4. Exact' /\ OverOK'
    BY <2>1 DEF Exact, Pending, OverOK, Over
  <2> QED BY <2>2, <2>3, <2>4
<1>2. ASSUME NEW c \in Orders, ReconRow(c) PROVE Parts'
  <2>1. /\ recon.pc # "idle"
        /\ UNCHANGED <<venue, sending, poll, api, saved, removed>>
        /\ row'  = IF Drops(c) THEN Cancelled(c) ELSE row
        /\ book' = IF Drops(c) THEN Popped(c) ELSE book
    BY <1>2 DEF ReconRow
  <2>2. ReconOK'
    <3>1. recon'.pc = "idle" \/ recon'.seen = recon.seen
      BY <1>2 DEF ReconRow, NoRecon, IInv, TypeOK, ReconType
    <3> QED BY <2>1, <3>1 DEF ReconOK
  <2>3. ApiOK'
    <3>1. book'.booked = book.booked
      BY <2>1 DEF Popped, IInv, TypeOK, BookType
    <3> QED BY <2>1, <3>1 DEF ApiOK
  <2>4. CASE Drops(c)
    <3>1. venue[c].status \in {"none", "cancelled"}
      BY <2>1, <2>4 DEF Drops, ReconOK
    <3> QED BY <2>1, <2>2, <2>3, <2>4, <3>1, DeadLeaves
  <2>5. CASE ~Drops(c)
    <3>1. AllOrNone' /\ PollOK'
      BY <2>1, <2>5 DEF AllOrNone, PollOK
    <3>2. Exact' /\ OverOK'
      BY <2>1, <2>5 DEF Exact, Pending, OverOK, Over
    <3> QED BY <2>2, <2>3, <3>1, <3>2
  <2> QED BY <2>4, <2>5
<1> QED BY <1>1, <1>2 DEF Reconcile

LEMMA WholeOperator == ASSUME Whole, WholeInv, TypeOK', Operator PROVE Parts'
<1> USE DEF WholeInv, Parts, Elsewhere
<1>1. CASE CancelLocally
  <2> DEFINE c == api.order
  <2>1. /\ api.kind = "cancel" /\ api'.kind \in {"none", "save"}
        /\ row' = Cancelled(c) /\ (book' = Popped(c) \/ book' = book)
        /\ UNCHANGED <<venue, sending, poll, recon, saved, removed>>
    BY <1>1 DEF CancelLocally, NoApi
  <2>2. ApiOK' /\ ReconOK'
    BY <2>1 DEF ApiOK, ReconOK
  <2>3. CASE c \in Orders
    <3>1. venue[c].status = "cancelled"
      BY <2>1, <2>3 DEF ApiOK
    <3> HIDE DEF c
    <3> QED BY <2>1, <2>2, <2>3, <3>1, DeadLeaves
  <2>4. CASE c \notin Orders
    <3>1. row' = row /\ book'.booked = book.booked /\ book'.applied = book.applied
      BY <2>1, <2>4 DEF Cancelled, Popped, IInv, TypeOK, BookType
    <3>2. \A d \in Orders : d \in book'.working <=> d \in book.working
      BY <2>1, <2>4 DEF Popped, IInv, TypeOK, BookType
    <3>3. AllOrNone' /\ PollOK'
      BY <2>1, <3>1, <3>2 DEF AllOrNone, PollOK
    <3>4. Exact' /\ OverOK'
      BY <2>1, <3>1, <3>2 DEF Exact, Pending, OverOK, Over
    <3> QED BY <2>2, <3>3, <3>4
  <2> QED BY <2>3, <2>4
<1>2. CASE AmendLocally
  <2>1. /\ api'.kind \in {"none", "save"}
        /\ UNCHANGED <<venue, row, sending, poll, recon, saved, removed>>
        /\ book'.booked = book.booked /\ book'.applied = book.applied
        /\ book'.working = book.working
    BY <1>2 DEF AmendLocally, NoApi, IInv, TypeOK, BookType
  <2>2. ApiOK' /\ ReconOK'
    BY <2>1 DEF ApiOK, ReconOK
  <2>3. AllOrNone' /\ PollOK'
    BY <2>1 DEF AllOrNone, PollOK
  <2>4. Exact' /\ OverOK'
    BY <2>1 DEF Exact, Pending, OverOK, Over
  <2> QED BY <2>2, <2>3, <2>4
<1>3. CASE CapturePortfolio
  <2>1. /\ UNCHANGED <<venue, row, sending, book, poll, recon, saved, removed>>
        /\ poll.at = 0 /\ api'.booked = book.booked /\ api'.kind = "write"
    BY <1>3 DEF CapturePortfolio, NoApi, Whole
  <2>2. ApiOK' /\ ReconOK'
    BY <2>1 DEF ApiOK, ReconOK
  <2>3. AllOrNone' /\ PollOK'
    BY <2>1 DEF AllOrNone, PollOK
  <2>4. Exact' /\ OverOK'
    BY <2>1 DEF Exact, Pending, OverOK, Over
  <2> QED BY <2>2, <2>3, <2>4
<1>4. CASE CaptureGateway
  <2>1. /\ UNCHANGED <<venue, row, sending, book, poll, recon, removed>>
        /\ api.kind = "write" /\ api'.kind = "none"
        /\ saved'.booked = api.booked /\ saved'.applied = book.applied
    BY <1>4 DEF CaptureGateway, NoApi, IInv, TypeOK, BookType
  <2>2. ApiOK' /\ ReconOK'
    BY <2>1 DEF ApiOK, ReconOK
  <2>3. AllOrNone' /\ PollOK'
    BY <2>1 DEF AllOrNone, PollOK
  <2>4. \A c \in Orders : Pending(c) = 0
    BY <2>1, Numbers DEF ApiOK, Pending, IInv
  <2>5. Exact'
    BY <2>1, <2>4, Numbers DEF ApiOK, Exact, Pending, IInv
  <2>6. OverOK'
    BY <2>1 DEF OverOK, Over
  <2> QED BY <2>2, <2>3, <2>5, <2>6
<1>5. ASSUME NEW c \in Orders, CancelAtVenue(c) \/ AmendAtVenue(c) PROVE Parts'
  <2>1. /\ UNCHANGED <<row, sending, book, poll, recon, saved, removed>>
        /\ venue[c].status = "open" /\ venue[c].filled = 0
    BY <1>5 DEF CancelAtVenue, AmendAtVenue, AllOrNone
  <2>2. venue \in [Orders -> OrderType]
    BY DEF IInv, TypeOK
  <2>3. CASE CancelAtVenue(c)
    <3> DEFINE e == [venue[c] EXCEPT !.status = "cancelled"]
    <3>1. e.filled = 0 /\ e.status = "cancelled"
      BY <2>1, <2>2 DEF OrderType
    <3>2. venue' = [venue EXCEPT ![c] = e]
      BY <2>3 DEF CancelAtVenue
    <3>3. api'.kind = "cancel" /\ api'.order = c
      BY <2>3 DEF CancelAtVenue, NoApi, Whole
    <3> HIDE DEF e
    <3>4. /\ venue'[c] = e
          /\ \A d \in Orders : d # c => venue'[d] = venue[d]
      BY <2>2, <3>2
    <3> QED BY <2>1, <3>1, <3>3, <3>4, OpenMoves
  <2>4. CASE AmendAtVenue(c)
    <3>1. PICK q \in Amends : venue' = [venue EXCEPT ![c].qty = q]
      BY <2>4 DEF AmendAtVenue
    <3> DEFINE e == [venue[c] EXCEPT !.qty = q]
    <3>2. e.filled = 0
      BY <2>1, <2>2 DEF OrderType
    <3>3. venue' = [venue EXCEPT ![c] = e]
      BY <3>1
    <3>4. api'.kind = "modify" /\ api'.order = c
      BY <2>4 DEF AmendAtVenue, NoApi, Whole
    <3> HIDE DEF e
    <3>5. /\ venue'[c] = e
          /\ \A d \in Orders : d # c => venue'[d] = venue[d]
      BY <2>2, <3>3
    <3> QED BY <2>1, <3>2, <3>4, <3>5, OpenMoves
  <2> QED BY <1>5, <2>3, <2>4
<1> QED BY <1>1, <1>2, <1>3, <1>4, <1>5 DEF Operator, Answer

LEMMA WholeProcess == ASSUME Whole, WholeInv, TypeOK', Process PROVE Parts'
<1> USE DEF WholeInv, Parts, Threads, Elsewhere
<1>1. CASE SaveState
  <2>1. /\ UNCHANGED <<venue, row, sending, book, poll, recon, api, removed>>
        /\ saved' = book /\ poll.at = 0
    BY <1>1 DEF SaveState, Polling
  <2>2. AllOrNone' /\ PollOK' /\ ReconOK' /\ ApiOK'
    BY <2>1 DEF AllOrNone, PollOK, ReconOK, ApiOK
  <2>3. Exact' /\ OverOK'
    BY <2>1, Numbers DEF IInv, Exact, Pending, OverOK, Over
  <2> QED BY <2>2, <2>3
<1>2. CASE RemoveRunner
  <2>1. UNCHANGED <<venue, row, sending, book, poll, recon, api, saved>> /\ removed'
    BY <1>2 DEF RemoveRunner
  <2>2. AllOrNone' /\ PollOK' /\ ReconOK' /\ ApiOK'
    BY <2>1 DEF AllOrNone, PollOK, ReconOK, ApiOK
  <2>3. Exact' /\ OverOK'
    BY <2>1 DEF Exact, OverOK, Over
  <2> QED BY <2>2, <2>3
<1>3. CASE Restart
  <2>1. /\ UNCHANGED <<venue, saved, removed>>
        /\ book' = saved /\ sending' = {}
        /\ poll'.at = 0 /\ poll'.todo = {} /\ recon'.pc = "idle" /\ api'.kind = "none"
        /\ \A c \in Orders : row'[c] # "none" <=> c \in saved.working
    BY <1>3 DEF Restart, NoPoll, NoRecon, NoApi
  <2>2. AllOrNone' /\ PollOK' /\ ReconOK' /\ ApiOK'
    BY <2>1, Numbers DEF IInv, AllOrNone, PollOK, ReconOK, ApiOK
  <2>3. Exact' /\ OverOK'
    BY <2>1, Numbers DEF IInv, Exact, Pending, OverOK, Over
  <2> QED BY <2>2, <2>3
<1> QED BY <1>1, <1>2, <1>3 DEF Process

LEMMA WholeStep == ASSUME Whole, WholeInv, [Next]_vars PROVE WholeInv'
<1>1. IInv' /\ TypeOK'
  BY InvStep DEF Whole, WholeInv, IInv
<1>2. CASE UNCHANGED vars
  BY <1>1, <1>2 DEF vars, WholeInv, Parts, AllOrNone, PollOK, ReconOK, ApiOK, Exact,
                    Pending, OverOK, Over
<1>3. CASE Next
  BY <1>1, <1>3, WholeVenue, WholeSubmit, WholePump, WholeReconcile, WholeOperator,
     WholeProcess DEF Next, WholeInv
<1> QED BY <1>2, <1>3

\* While the venue fills whole and answers, an order that leaves the working
\* set is dead or wholly booked: the invariant behind FillsArrive.
THEOREM WholeHolds == ASSUME Whole PROVE Spec => []WholeInv
  BY InitWhole, WholeStep, PTL DEF Spec

\* Every fill reaches the book, however polls, failing polls, cancels,
\* amendments, reconciliations, a removal and restarts interleave, when an
\* order fills whole, a request is answered and neither an operator's
\* reconciliation nor his snapshot runs beside a poll.
THEOREM FillsArrive == ASSUME Whole PROVE Spec => []FillsReachBook
<1>1. WholeInv => FillsReachBook
  BY DEF WholeInv, Parts, OverOK, Over, FillsReachBook
<1> QED BY <1>1, WholeHolds, PTL
=============================================================================
