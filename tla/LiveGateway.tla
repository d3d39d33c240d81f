----------------------------- MODULE LiveGateway -----------------------------
(* The live equity order path: runners place market orders through          *)
(* LiveEquityGateway, fills come back by polling, operators cancel and      *)
(* amend working orders, a reconciliation compares the working set with the *)
(* broker's order book, and the working set survives a restart.  Sources:   *)
(* src/backtest/forward/live_gateway.py, OrderLedger in paper_runner.py,    *)
(* cancel_order and modify_order in portfolio_manager.py.                   *)
(*                                                                          *)
(* A step is what one thread does between two answers of the broker.  The   *)
(* tick thread polls; the tick or an API thread reconciles; one API thread  *)
(* cancels or amends; runners submit.                                       *)
EXTENDS Integers, FiniteSets, FiniteSetsExt

CONSTANTS
    MaxOrders,   \* bound: orders ever submitted, numbered in that order
    Size,        \* quantity a runner asks for
    Amends,      \* quantities an operator amends to
    Prices,      \* prices the venue trades at
    Faults,      \* what venue, link and threads may do, see AllFaults
    MaxCrashes   \* bound

\* "partial": an order fills unit by unit, and may be killed half way
\* "lost":    a request of ours is carried out but never answered
\* "drop":    a poll fails
\* "remove":  a runner is removed while its orders work
\* "reconcile": an operator reconciles beside the tick and its runners (the
\*            request takes no lock of the manager)
\* "save":    an operator's request takes its snapshot beside a poll
AllFaults == {"partial", "lost", "drop", "remove", "reconcile", "save"}

Orders == 1 .. MaxOrders

ASSUME SizeAssumption  == /\ MaxOrders \in Nat /\ Size \in Nat \ {0}
                          /\ Amends \subseteq Nat \ {0} /\ Prices \subseteq Nat
ASSUME FaultAssumption == Faults \subseteq AllFaults /\ MaxCrashes \in Nat

VARIABLES
    venue,    \* what the exchange holds of each order
    row,      \* status of the order's OrderLedger row
    sending,  \* orders accepted by the venue whose id is not registered yet
    book,     \* the gateway: working set, per order its want and applied
              \* quantity; and what the runner's portfolio was given
    poll,     \* poll_pending: orders still to visit, and the fill in hand
    recon,    \* reconcile: the order book it read, orders still to compare
    api,      \* an operator's request: from the venue's answer to its snapshot
    saved,    \* the book in the last state snapshot
    removed,  \* TRUE: the runner was removed (ledger.unregister_handler)
    next,     \* number of the next order
    crashes

vars == <<venue, row, sending, book, poll, recon, api, saved, removed, next, crashes>>

-----------------------------------------------------------------------------
Unsent  == [status |-> "none", qty |-> 0, filled |-> 0, value |-> 0]
Sent    == [status |-> "open", qty |-> Size, filled |-> 0, value |-> 0]
NoPoll  == [todo |-> {}, at |-> 0, delta |-> 0, price |-> 0, done |-> FALSE]
NoRecon == [pc |-> "idle", seen |-> [c \in Orders |-> "none"], todo |-> {}]

Zeros == [c \in Orders |-> 0]
NoApi == [kind |-> "none", order |-> 0, qty |-> 0, booked |-> Zeros, cost |-> Zeros]
EmptyBook == [working |-> {}, want |-> Zeros, applied |-> Zeros,
              booked |-> Zeros, cost |-> Zeros]

Polling   == poll.todo # {} \/ poll.at # 0
Threads   == <<poll, recon, api>>
Elsewhere == <<removed, next, crashes>>

\* Leaving the working set.
Popped(c) == [book EXCEPT !.working = @ \ {c}]

\* Mutant: the ledger rejects the row where the code cancels it.
RejectsRow(c) == [row EXCEPT ![c] = IF @ = "PENDING" THEN "REJECTED" ELSE @]

\* ledger.cancel: a row that is no longer PENDING stays as it is.
Cancelled(c) == [row EXCEPT ![c] = IF @ = "PENDING" THEN "CANCELLED" ELSE @]

-----------------------------------------------------------------------------
(* The venue (external) *)

Traded(c, p) ==
    LET n  == IF "partial" \in Faults THEN 1 ELSE venue[c].qty
        st == IF venue[c].filled + n >= venue[c].qty THEN "executed" ELSE "open"
    IN  [venue[c] EXCEPT !.filled = @ + n, !.value = @ + n * p, !.status = st]

VenueFill(c) ==
    /\ venue[c].status = "open"
    /\ \E p \in Prices : venue' = [venue EXCEPT ![c] = Traded(c, p)]
    /\ UNCHANGED <<row, sending, book, Threads, saved, Elsewhere>>

\* Rejected or cancelled at the exchange.
VenueKill(c) ==
    /\ venue[c].status = "open"
    /\ venue' = [venue EXCEPT ![c].status = "cancelled"]
    /\ UNCHANGED <<row, sending, book, Threads, saved, Elsewhere>>

-----------------------------------------------------------------------------
(* submit_market *)

\* The manager's lock keeps a runner's submit out of a tick's reconciliation;
\* an operator's reconciliation does not take it.
Alone     == "reconcile" \in Faults \/ recon.pc = "idle"
MaySubmit == next \in Orders /\ ~removed /\ Alone

\* The ledger row is written and the venue accepts the order.
Place ==
    /\ MaySubmit
    /\ next' = next + 1
    /\ row' = [row EXCEPT ![next] = "PENDING"]
    /\ venue' = [venue EXCEPT ![next] = Sent]
    /\ sending' = sending \cup {next}
    /\ UNCHANGED <<book, Threads, saved, removed, crashes>>

\* place_order raises, whatever the venue did: the ledger row is cancelled
\* and OrderRefused (not retryable) goes to the runner.
PlaceFails ==
    /\ MaySubmit
    /\ next' = next + 1
    /\ row' = [row EXCEPT ![next] = "CANCELLED"]
    /\ \/ UNCHANGED venue
       \/ "lost" \in Faults /\ venue' = [venue EXCEPT ![next] = Sent]
    /\ UNCHANGED <<sending, book, Threads, saved, removed, crashes>>

\* The broker's id is stamped on the row and the order goes WORKING.
Register(c) ==
    /\ c \in sending
    /\ sending' = sending \ {c}
    /\ book' = [book EXCEPT !.working = @ \cup {c},
                            !.want[c] = Size, !.applied[c] = 0]
    /\ UNCHANGED <<venue, row, Threads, saved, Elsewhere>>

-----------------------------------------------------------------------------
(* poll_pending *)

StartPoll ==
    /\ ~Polling /\ book.working # {} /\ Alone
    /\ poll' = [NoPoll EXCEPT !.todo = book.working]
    /\ UNCHANGED <<venue, row, sending, book, recon, api, saved, Elsewhere>>

Delta(c) == venue[c].filled - book.applied[c]

\* The average price of all it filled, which mStock reports.
Average(c) == IF venue[c].filled = 0 THEN 0 ELSE venue[c].value \div venue[c].filled

\* One poll_fill: a fill to apply ...
PollSees(c) ==
    /\ poll.at = 0 /\ c \in poll.todo /\ c = Min(poll.todo)
    /\ Delta(c) > 0 /\ ("save" \in Faults \/ api.kind # "write")
    /\ poll' = [todo |-> poll.todo \ {c}, at |-> c, delta |-> Delta(c),
                price |-> Average(c), done |-> FALSE]
    /\ UNCHANGED <<venue, row, sending, book, recon, api, saved, Elsewhere>>

\* ... nothing new, or a poll that fails.
PollNothing(c) ==
    /\ poll.at = 0 /\ c \in poll.todo /\ c = Min(poll.todo)
    /\ Delta(c) = 0 \/ "drop" \in Faults
    /\ poll' = [poll EXCEPT !.todo = @ \ {c}]
    /\ UNCHANGED <<venue, row, sending, book, recon, api, saved, Elsewhere>>

PollOne(c) == PollSees(c) \/ PollNothing(c)

\* Mutant: the applied quantity is not advanced by the fill.
AdvanceNothing(c) == book.applied[c]
Advance(c) == book.applied[c] + poll.delta

BookDelta(c) == book.booked[c] + poll.delta

\* _apply_bookkeeping: the portfolio, then the ledger row, which turns FILLED
\* whatever the quantity; nothing when the row or the runner is gone.
BookFill ==
    LET c    == poll.at
        home == row[c] # "none" /\ ~removed
    IN  /\ c # 0 /\ ~poll.done
        /\ poll' = [poll EXCEPT !.done = TRUE]
        /\ row' = IF home THEN [row EXCEPT ![c] = "FILLED"] ELSE row
        /\ book' = IF home
                   THEN [book EXCEPT !.booked[c] = BookDelta(c),
                                     !.cost[c]   = @ + poll.delta * poll.price]
                   ELSE book
        /\ UNCHANGED <<venue, sending, recon, api, saved, Elsewhere>>

\* Back in poll_pending: the applied quantity, and an order filled to its want
\* leaves the working set.
AdvanceApplied ==
    LET c == poll.at
    IN  /\ c # 0 /\ poll.done
        /\ poll' = [NoPoll EXCEPT !.todo = poll.todo]
        /\ book' = [book EXCEPT
                      !.applied[c] = Advance(c),
                      !.working    = IF Advance(c) >= book.want[c] THEN @ \ {c} ELSE @]
        /\ UNCHANGED <<venue, row, sending, recon, api, saved, Elsewhere>>

-----------------------------------------------------------------------------
(* reconcile *)

ReconRead ==
    /\ recon.pc = "idle"
    /\ "reconcile" \in Faults \/ (~Polling /\ sending = {})
    /\ recon' = [pc |-> "read", seen |-> [c \in Orders |-> venue[c].status], todo |-> {}]
    /\ UNCHANGED <<venue, row, sending, book, poll, api, saved, Elsewhere>>

ReconList ==
    /\ recon.pc = "read"
    /\ recon' = IF book.working = {} THEN NoRecon
                ELSE [recon EXCEPT !.pc = "rows", !.todo = book.working]
    /\ UNCHANGED <<venue, row, sending, book, poll, api, saved, Elsewhere>>

\* Mutant: an order the book shows as open is dropped too.
DropsAnything(c) == TRUE
\* Mutant: an order the exchange cancelled or rejected is not dropped.
DropsUnknown(c) == recon.seen[c] = "none"
\* Unknown at the broker, or dead there: dropped from the working set.
Drops(c) == recon.seen[c] \in {"none", "cancelled"}

ReconRow(c) ==
    /\ recon.pc = "rows" /\ c \in recon.todo
    /\ recon' = IF recon.todo = {c} THEN NoRecon ELSE [recon EXCEPT !.todo = @ \ {c}]
    /\ row'  = IF Drops(c) THEN Cancelled(c) ELSE row
    /\ book' = IF Drops(c) THEN Popped(c) ELSE book
    /\ UNCHANGED <<venue, sending, poll, api, saved, Elsewhere>>

-----------------------------------------------------------------------------
(* The operator: cancel_order and modify_order *)

\* Only a PENDING order this process is tracking.
Amendable(c) == api.kind = "none" /\ row[c] = "PENDING" /\ c \in book.working

\* cancel_working, the venue's half.  A refusal, or an answer that is lost,
\* leaves the local state alone.
CancelAtVenue(c) ==
    /\ Amendable(c)
    /\ venue[c].status = "open"
    /\ venue' = [venue EXCEPT ![c].status = "cancelled"]
    /\ \/ api' = [NoApi EXCEPT !.kind = "cancel", !.order = c]
       \/ "lost" \in Faults /\ UNCHANGED api
    /\ UNCHANGED <<row, sending, book, poll, recon, saved, Elsewhere>>

\* Its local half; a row that filled meanwhile raises and nothing changes.
CancelLocally ==
    LET c  == api.order
        ok == row[c] = "PENDING"
    IN  /\ api.kind = "cancel"
        /\ api' = IF ok THEN [NoApi EXCEPT !.kind = "save"] ELSE NoApi
        /\ row' = Cancelled(c)
        /\ book' = IF ok THEN Popped(c) ELSE book
        /\ UNCHANGED <<venue, sending, poll, recon, saved, Elsewhere>>

\* modify_working, the venue's half: a market order's quantity.
AmendAtVenue(c) ==
    /\ Amendable(c)
    /\ \E q \in Amends :
          /\ venue[c].status = "open" /\ q > venue[c].filled /\ q # venue[c].qty
          /\ venue' = [venue EXCEPT ![c].qty = q]
          /\ \/ api' = [NoApi EXCEPT !.kind = "modify", !.order = c, !.qty = q]
             \/ "lost" \in Faults /\ UNCHANGED api
    /\ UNCHANGED <<row, sending, book, poll, recon, saved, Elsewhere>>

\* ledger.amend, then the working entry: refused once the row has filled.
AmendLocally ==
    LET c  == api.order
        ok == row[c] = "PENDING"
    IN  /\ api.kind = "modify"
        /\ api' = IF ok THEN [NoApi EXCEPT !.kind = "save"] ELSE NoApi
        /\ book' = IF ok /\ c \in book.working THEN [book EXCEPT !.want[c] = api.qty]
                   ELSE book
        /\ UNCHANGED <<venue, row, sending, poll, recon, saved, Elsewhere>>

\* The request ends with _persist_state, on the request's own thread: it
\* captures the runner's portfolio first ...
CapturePortfolio ==
    /\ api.kind = "save"
    /\ "save" \in Faults \/ poll.at = 0
    /\ api' = [NoApi EXCEPT !.kind = "write", !.booked = book.booked, !.cost = book.cost]
    /\ UNCHANGED <<venue, row, sending, book, poll, recon, saved, Elsewhere>>

\* ... and the gateway's working set after it.
CaptureGateway ==
    /\ api.kind = "write"
    /\ api' = NoApi
    /\ saved' = [book EXCEPT !.booked = api.booked, !.cost = api.cost]
    /\ UNCHANGED <<venue, row, sending, book, poll, recon, Elsewhere>>

-----------------------------------------------------------------------------
(* The process *)

\* The runner's portfolio and the gateway's working set go into one snapshot,
\* on the tick thread.
SaveState ==
    /\ ~Polling /\ crashes < MaxCrashes /\ saved # book
    /\ saved' = book
    /\ UNCHANGED <<venue, row, sending, book, Threads, Elsewhere>>

\* remove_runner: a later fill of its orders has no book to go to.
RemoveRunner ==
    /\ "remove" \in Faults /\ ~removed
    /\ ~Polling
    /\ removed' = TRUE
    /\ UNCHANGED <<venue, row, sending, book, Threads, saved, next, crashes>>

\* Restart: restore_state re-arms polling for the saved working set and
\* re-tags its ledger rows; every other row died with the process.
Restart ==
    /\ crashes < MaxCrashes /\ ~removed
    /\ crashes' = crashes + 1
    /\ row' = [c \in Orders |-> IF c \in saved.working THEN "PENDING" ELSE "none"]
    /\ book' = saved
    /\ sending' = {}
    /\ poll' = NoPoll /\ recon' = NoRecon /\ api' = NoApi
    /\ UNCHANGED <<venue, saved, removed, next>>

-----------------------------------------------------------------------------
Init ==
    /\ venue = [c \in Orders |-> Unsent] /\ row = [c \in Orders |-> "none"]
    /\ sending = {} /\ book = EmptyBook /\ saved = EmptyBook
    /\ poll = NoPoll /\ recon = NoRecon /\ api = NoApi
    /\ removed = FALSE /\ next = 1 /\ crashes = 0

Submit    == Place \/ PlaceFails \/ \E c \in Orders : Register(c)
Pump      == StartPoll \/ BookFill \/ AdvanceApplied \/ \E c \in Orders : PollOne(c)
Reconcile == ReconRead \/ ReconList \/ \E c \in Orders : ReconRow(c)
Answer    == CancelLocally \/ AmendLocally \/ CapturePortfolio \/ CaptureGateway
Operator  == Answer \/ \E c \in Orders : CancelAtVenue(c) \/ AmendAtVenue(c)
Venue     == \E c \in Orders : VenueFill(c) \/ VenueKill(c)
Process   == SaveState \/ RemoveRunner \/ Restart

Next == Submit \/ Pump \/ Reconcile \/ Operator \/ Venue \/ Process

\* The manager ticks for ever: every tick polls and every 300th reconciles,
\* neither for good shut out by the other, and the broker does not fail every
\* poll of an order; a request once answered runs on.
Fairness == /\ SF_vars(Pump) /\ SF_vars(Reconcile) /\ WF_vars(Answer)
            /\ \A c \in Orders : WF_vars(Register(c)) /\ SF_vars(PollSees(c))

Spec     == Init /\ [][Next]_vars
FairSpec == Spec /\ Fairness

-----------------------------------------------------------------------------
(* Properties *)

OrderType == [status : {"none", "open", "executed", "cancelled"},
              qty : Nat, filled : Nat, value : Nat]
RowType   == {"none", "PENDING", "FILLED", "CANCELLED"}
BookType  == [working : SUBSET Orders, want : [Orders -> Nat], applied : [Orders -> Nat],
              booked : [Orders -> Nat], cost : [Orders -> Nat]]
PollType  == [todo : SUBSET Orders, at : Orders \cup {0}, delta : Nat, price : Nat,
              done : BOOLEAN]
ReconType == [pc : {"idle", "read", "rows"}, todo : SUBSET Orders,
              seen : [Orders -> {"none", "open", "executed", "cancelled"}]]
ApiType   == [kind : {"none", "cancel", "modify", "save", "write"}, qty : Nat,
              order : Orders \cup {0}, booked : [Orders -> Nat], cost : [Orders -> Nat]]

\* Every variable keeps its type.
TypeOK ==
    /\ venue \in [Orders -> OrderType] /\ row \in [Orders -> RowType]
    /\ sending \subseteq Orders
    /\ book \in BookType /\ saved \in BookType
    /\ poll \in PollType /\ recon \in ReconType /\ api \in ApiType
    /\ removed \in BOOLEAN /\ next \in Nat \ {0} /\ crashes \in Nat

\* "a repeated poll can never double-count" (module docstring): the book never
\* holds more of an order than the venue filled, across polls, amendments,
\* reconciliations and restarts from an older snapshot.
NeverOverBooked == \A c \in Orders : book.booked[c] <= venue[c].filled

\* Every fill of an order reaches the book: when it has left the working set
\* of the process that placed it, all the venue filled of it is booked.
FillsReachBook ==
    \A c \in Orders :
        (row[c] # "none" /\ c \notin sending \cup book.working \cup {poll.at} /\ ~removed)
            => book.booked[c] = venue[c].filled

\* "marking it cancelled locally while it still rests at the broker is how a
\* position opens after the operator was told the order was dead"
\* (cancel_order): a row says CANCELLED only of an order that cannot fill.
CancelledIsDead == \A c \in Orders : row[c] = "CANCELLED" => venue[c].status # "open"

\* Fills are booked "at the broker's ACTUAL price": an order wholly booked
\* cost what the venue charged for it.
BookedAtCost ==
    \A c \in Orders : book.booked[c] = venue[c].filled => book.cost[c] = venue[c].value

\* Every order the venue is done with leaves the working set: no order is
\* polled for ever.
WorkingDrains ==
    \A c \in Orders :
        (c \in book.working /\ venue[c].status \in {"executed", "cancelled"})
            ~> c \notin book.working
=============================================================================
