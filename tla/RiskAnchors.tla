---------------------------- MODULE RiskAnchors ----------------------------
(***************************************************************************)
(* What the drawdown fuse of a slice of the portfolio measures against     *)
(* (forward/portfolio_manager.py): the session's peak profit and the peak  *)
(* equity of the slice, which move with trading, with books spawned and    *)
(* removed, with midnight, with the first bar of a book's day, and through *)
(* a restart that may leave books out until a login brings them back.  The *)
(* slice is the whole portfolio.  A bucket's arithmetic is the same, but   *)
(* its peak profit is also cleared by a newer bar of another bucket.  The  *)
(* slice holds two books, since the code only ever adds one book to, or    *)
(* takes one from, the sum of the others.                                  *)
(***************************************************************************)
EXTENDS Integers

CONSTANTS Capital,          \* allocated to each book
          Sizes,            \* by how much a mark or a trade moves a book, up or down
          Reach,            \* bound: the P&L of a day, of a book and of the slice
          MaxDay, MaxSpawns, MaxCrashes

Books == {"one", "other"}
Moves == Sizes \cup {-n : n \in Sizes}

ASSUME AnchorsAssumption ==
    /\ Capital \in Nat \ {0}
    /\ Sizes \subseteq Nat
    /\ Reach \in Nat
    /\ MaxDay \in Nat /\ MaxSpawns \in Nat /\ MaxCrashes \in Nat

VARIABLES
    day,      \* the IST date of the wall clock
    place,    \* of a book: "in" _runners, "parked", "out"
    open,     \* equity of a book where its P&L of the day is 0
    pnl,      \* daily_pnl of a book
    session,  \* _pnl_session of a book: the date of its newest bar, 0 before one
    anchor,   \* of the slice: session peak P&L, peak equity, date, bar date
    disk,     \* the saved payload
    spawns, crashes,
    trail     \* history, see Trail

vars == <<day, place, open, pnl, session, anchor, disk, spawns, crashes, trail>>

Anchor == [peakPnl : Int, peak : Int, date : Nat, bar : Nat]

\* The reference, free of capital: what trading made since midnight, the most it
\* was when the slice was looked at, and whether a restart kept a book out.
Trail == [gain : Int, high : Int, away : BOOLEAN]

Ledger == [Books -> Int]
Payload == [date : Nat, peakPnl : Int, place : [Books -> {"in", "parked", "out"}],
            open : Ledger, pnl : Ledger, session : [Books -> Nat],
            drawdown : Int, trail : Trail]

TypeOK ==
    /\ day \in Nat /\ spawns \in Nat /\ crashes \in Nat
    /\ place \in [Books -> {"in", "parked", "out"}]
    /\ open \in Ledger /\ pnl \in Ledger /\ session \in [Books -> Nat]
    /\ anchor \in Anchor /\ trail \in Trail /\ disk \in Payload

Larger(a, b) == IF a >= b THEN a ELSE b
Sum(f, S) == (IF "one" \in S THEN f["one"] ELSE 0) + (IF "other" \in S THEN f["other"] ELSE 0)
Placed(pl, where) == {b \in Books : pl[b] = where}
Members == Placed(place, "in")

Baseline(S, o) == Larger(0, Sum(o, S))        \* equity less daily P&L
Equity(S, o, p) == Sum(o, S) + Sum(p, S)
-----------------------------------------------------------------------------
(* The anchors. *)

\* Mutant: no bar yet is -1.
NewestSentinel(S, s) == Larger(IF "one" \in S THEN s["one"] ELSE -1,
                               IF "other" \in S THEN s["other"] ELSE -1)

\* The newest bar of the slice, and whether it opens another day than the one seen.
Newest(S, s) == Larger(IF "one" \in S THEN s["one"] ELSE 0,
                       IF "other" \in S THEN s["other"] ELSE 0)
BarRolls(a, S, s) == a.bar # 0 /\ Newest(S, s) > a.bar

\* _maybe_roll_risk_session_ist: another bar date clears the peak P&L, another
\* date of the clock takes the equity of the moment for the peak as well.
Rolled(a, S, o, p, s) ==
    [peakPnl |-> IF a.date # day \/ BarRolls(a, S, s) THEN 0 ELSE a.peakPnl,
     peak    |-> IF a.date # day THEN Equity(S, o, p) ELSE a.peak,
     date    |-> day,
     bar     |-> IF Newest(S, s) # 0 THEN Newest(S, s) ELSE a.bar]

\* _sync_slice_session_peak.
Synced(a, S, o, p) ==
    IF S = {} THEN [a EXCEPT !.peakPnl = 0, !.peak = 0]
    ELSE LET top == Larger(a.peakPnl, Sum(p, S))
         IN [a EXCEPT !.peakPnl = top,
                      !.peak = Larger(a.peak, Larger(Equity(S, o, p), Baseline(S, o) + top))]

Refreshed(a, S, o, p, s) == Synced(Rolled(a, S, o, p, s), S, o, p)

\* Mutant: the profit of a book that leaves is taken off the equity peak
\* besides its equity.
FlowOutTwice(a, money, profit) ==
    [a EXCEPT !.peak = IF a.peak > 0 THEN Larger(a.peak - money - profit, 0) ELSE a.peak,
              !.peakPnl = IF profit > 0 THEN Larger(0, a.peakPnl - profit) ELSE a.peakPnl]

\* _record_capital_flow.  A peak of 0 is not taken yet.  Money that leaves takes
\* the book's profit of the day off the peak P&L.
FlowIn(a, money) == [a EXCEPT !.peak = IF a.peak > 0 THEN a.peak + money ELSE a.peak]
FlowOut(a, money, profit) ==
    [a EXCEPT !.peak = IF a.peak > 0 THEN Larger(a.peak - money, 0) ELSE a.peak,
              !.peakPnl = IF profit > 0 THEN Larger(0, a.peakPnl - profit) ELSE a.peakPnl]

\* What the fuse measures: the peak a next evaluation of the day sees, less equity.
Drawdown(a, S, o, p) ==
    IF S = {} THEN 0 ELSE Synced(a, S, o, p).peak - Equity(S, o, p)

\* The reference follows a look at the slice: the first of a date counts from
\* there, and an empty slice starts again.
Followed(t, a, S) ==
    IF S = {} THEN [t EXCEPT !.gain = 0, !.high = 0]
    ELSE [t EXCEPT !.high = IF a.date # day \/ (a.peak = 0 /\ ~t.away) THEN t.gain
                            ELSE Larger(t.high, t.gain)]
-----------------------------------------------------------------------------
(* The state file. *)

\* Mutant: the peak P&L is saved as it stands.
SavedAsSeen(a, S, o, p) == IF S = {} THEN 0 ELSE Larger(0, Larger(a.peakPnl, Sum(p, S)))

\* _snapshot_payload: the peak P&L is what the peak implies, if that is more.
SavedPeakPnl(a, S, o, p) ==
    IF S = {} THEN 0
    ELSE Larger(Larger(0, IF a.peak > 0 THEN a.peak - Baseline(S, o) ELSE 0),
                Larger(a.peakPnl, Sum(p, S)))

Snapshot(a, pl, o, p, s, t) ==
    LET S == Placed(pl, "in")
    IN [date |-> a.date, peakPnl |-> SavedPeakPnl(a, S, o, p),
        place |-> pl, open |-> o, pnl |-> p, session |-> s,
        drawdown |-> Drawdown(a, S, o, p),
        trail |-> [t EXCEPT !.high = IF a.peak = 0 THEN t.gain ELSE Larger(t.high, t.gain)]]

Persist == disk' = Snapshot(anchor', place', open', pnl', session', trail')

NoTrail == [gain |-> 0, high |-> 0, away |-> FALSE]
Init ==
    /\ day = 1 /\ spawns = 0 /\ crashes = 0
    /\ place = [b \in Books |-> "out"]
    /\ open = [b \in Books |-> 0] /\ pnl = open /\ session = open
    /\ anchor = [peakPnl |-> 0, peak |-> 0, date |-> 1, bar |-> 0]
    /\ trail = NoTrail
    /\ disk = Snapshot(anchor, place, open, pnl, session, trail)
-----------------------------------------------------------------------------
(* Trading. *)

Solvent(o, p) == o > 0 /\ o + p > 0 /\ -Reach <= p /\ p <= Reach

Gains(by) ==
    /\ -Reach <= trail.gain + by /\ trail.gain + by <= Reach
    /\ trail' = [trail EXCEPT !.gain = @ + by]

\* A mark or a trade between bars: the book stays on the day of its newest bar
\* (mark_live_price, on_tick; _capture_pnl_session).
Mark(b, by) ==
    /\ b \in Members /\ session[b] # 0
    /\ Solvent(open[b], pnl[b] + by)
    /\ pnl' = [pnl EXCEPT ![b] = @ + by]
    /\ Gains(by)
    /\ UNCHANGED <<day, place, open, session, anchor, disk, spawns, crashes>>

\* A sealed bar.  The first of another day makes what the book was worth at its
\* last mark its opening.  A stopped runner takes none.
Bar(b, by) ==
    LET new == session[b] \notin {0, day}
        o == IF new THEN open[b] + pnl[b] ELSE open[b]
        p == (IF new THEN 0 ELSE pnl[b]) + by
    IN /\ b \in Members
       /\ Solvent(o, p)
       /\ open' = [open EXCEPT ![b] = o]
       /\ pnl' = [pnl EXCEPT ![b] = p]
       /\ session' = [session EXCEPT ![b] = day]
       /\ Gains(by)
       /\ UNCHANGED <<day, place, anchor, disk, spawns, crashes>>

Midnight ==
    /\ day < MaxDay
    /\ day' = day + 1
    /\ trail' = [gain |-> 0, high |-> 0, away |-> Placed(place, "parked") # {}]
    /\ UNCHANGED <<place, open, pnl, session, anchor, disk, spawns, crashes>>

\* _evaluate_risk, at the end of a tick; every fifth tick saves.
Evaluate ==
    /\ Members # {}
    /\ anchor' = Refreshed(anchor, Members, open, pnl, session)
    /\ trail' = Followed(trail, anchor, Members)
    /\ UNCHANGED <<day, place, open, pnl, session, spawns, crashes>>
    /\ Persist \/ UNCHANGED disk

\* Every control action saves.
Save ==
    /\ UNCHANGED <<day, place, open, pnl, session, anchor, spawns, crashes, trail>>
    /\ Persist
-----------------------------------------------------------------------------
(* Books come and go. *)

Spawn(b) ==
    /\ place[b] = "out"
    /\ place' = [place EXCEPT ![b] = "in"]
    /\ open' = [open EXCEPT ![b] = Capital]
    /\ pnl' = [pnl EXCEPT ![b] = 0]
    /\ session' = [session EXCEPT ![b] = 0]
    /\ anchor' = Refreshed(FlowIn(anchor, Capital), Members \cup {b}, open', pnl', session')
    /\ trail' = Followed(trail, anchor, Members \cup {b})
    /\ spawns < MaxSpawns /\ spawns' = spawns + 1
    /\ UNCHANGED <<day, crashes>>
    /\ Persist

Remove(b) ==
    LET S == Members \ {b}
        a == FlowOut(anchor, open[b] + pnl[b], pnl[b])
    IN /\ place[b] = "in"
       /\ place' = [place EXCEPT ![b] = "out"]
       /\ anchor' = Refreshed(a, S, open, pnl, session)
       /\ trail' = Followed(trail, anchor, S)
       /\ UNCHANGED <<day, open, pnl, session, spawns, crashes>>
       /\ Persist

Forget(b) ==
    /\ place[b] = "parked"
    /\ place' = [place EXCEPT ![b] = "out"]
    /\ UNCHANGED <<day, open, pnl, session, anchor, spawns, crashes, trail>>
    /\ Persist

\* _apply_state_payload: books as saved, those refused parked; on the date of the
\* file the peak is the surviving books' opening plus the saved peak P&L.
Restart(refused) ==
    LET S == Placed(disk.place, "in") \cup Placed(disk.place, "parked")
        back == S \ refused
        same == disk.date = day /\ back # {}
        top == IF same THEN Larger(0, Larger(disk.peakPnl, Sum(disk.pnl, back))) ELSE 0
    IN /\ crashes < MaxCrashes
       /\ refused \subseteq S
       /\ crashes' = crashes + 1
       /\ place' = [b \in Books |-> IF b \in refused THEN "parked"
                                    ELSE IF b \in S THEN "in" ELSE "out"]
       /\ open' = disk.open /\ pnl' = disk.pnl /\ session' = disk.session
       /\ anchor' = [peakPnl |-> top,
                     peak    |-> IF same THEN Larger(Equity(back, disk.open, disk.pnl),
                                                     Baseline(back, disk.open) + top)
                                 ELSE 0,
                     date    |-> day, bar |-> 0]
       /\ trail' = IF disk.date = day THEN [disk.trail EXCEPT !.away = @ \/ refused # {}]
                   ELSE [NoTrail EXCEPT !.away = refused # {}]
       /\ UNCHANGED <<day, disk, spawns>>

\* on_broker_authenticated: the parked book is added with its allocated capital
\* and an empty book, filled from its snapshot, and the slice evaluated.
Wake(b) ==
    LET S == Members \cup {b}
        a == Refreshed(FlowIn(anchor, Capital), S, [open EXCEPT ![b] = Capital],
                       [pnl EXCEPT ![b] = 0], [session EXCEPT ![b] = 0])
    IN /\ place[b] = "parked"
       /\ place' = [place EXCEPT ![b] = "in"]
       /\ anchor' = Refreshed(a, S, open, pnl, session)
       /\ trail' = Followed(trail, anchor, S)
       /\ UNCHANGED <<day, open, pnl, session, spawns, crashes>>
       /\ Persist

Next ==
    \/ Midnight \/ Evaluate \/ Save
    \/ \E b \in Books : \/ \E by \in Moves : Mark(b, by) \/ Bar(b, by)
                        \/ Spawn(b) \/ Remove(b) \/ Forget(b) \/ Wake(b)
    \/ \E refused \in SUBSET Books : Restart(refused)

Spec == Init /\ [][Next]_vars
-----------------------------------------------------------------------------
(* Properties. *)

Measured == Drawdown(anchor, Members, open, pnl)

\* No loss is forgotten: whatever marks, bars, spawns, removals, saves, restarts
\* and midnights came between, the drawdown the fuse measures is at least what
\* trading lost since its best of the date, while some book is left and none was
\* kept out by a restart (cash-flow neutrality of _record_capital_flow,
\* _sync_slice_session_peak, _snapshot_payload and _apply_state_payload).
NoLossForgotten ==
    Members # {} /\ ~trail.away /\ anchor.date = day /\ anchor.peak > 0
        => Measured >= trail.high - trail.gain

\* A restart on the date of its file that refuses no book measures exactly the
\* drawdown of the moment it was saved, neither more nor less.
RestartIsExact ==
    [][Restart({}) /\ disk.date = day /\ Placed(disk.place, "parked") = {}
          => Drawdown(anchor', Placed(place', "in"), open', pnl') = disk.drawdown]_vars

\* A book spawned beside others moves no drawdown, unless a date rolls with it
\* (_record_capital_flow: the money a book brings in is not trading profit).
SpawnIsNeutral ==
    [][\A b \in Books :
          Spawn(b) /\ Members # {} /\ anchor.date = day /\ ~BarRolls(anchor, Members, session)
             => Drawdown(anchor', Placed(place', "in"), open', pnl') = Measured]_vars

\* Refuted: the same once a login has brought back every book a restart kept out
\* (with all books parked the peak P&L restored is 0, and so is the next one saved).
PeakOutlivesParking ==
    Members = Books /\ anchor.date = day /\ anchor.peak > 0 => Measured >= trail.high - trail.gain

\* Refuted: the first evaluation of a date, before any bar or move of that date,
\* finds no drawdown (a book's P&L, and so the slice's opening, is still that of
\* the day before, and the peak made of them stands for the day).
MorningIsClean ==
    [][Evaluate /\ anchor.date # day /\ trail.gain = 0 /\ (\A b \in Members : session[b] # day)
          => Drawdown(anchor', Members, open, pnl) = 0]_vars
=============================================================================
