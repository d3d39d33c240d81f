------------------------- MODULE RiskAnchorsProofs -------------------------
(***************************************************************************)
(* Proofs about RiskAnchors: the anchors of a slice forget no loss, for    *)
(* every capital, every size of move and any number of days, spawns and    *)
(* crashes.  Sums over the two books are opened in the first lemmas only.  *)
(***************************************************************************)
EXTENDS RiskAnchors, TLAPS

Parked(pl) == Placed(pl, "parked")
In(pl) == Placed(pl, "in")

\* The books a slice or a file holds are worth something.
Worth(pl, o, p) == \A b \in Books : pl[b] # "out" => o[b] > 0 /\ o[b] + p[b] > 0

\* What a look at the slice leaves: a peak above equity by the reference's loss.
Covers(a, S, o, p, t) == a.peak - Equity(S, o, p) >= t.high - t.gain

\* What a state of the slice has to be, and what the file is then.
Sound(now, a, pl, o, p, t) ==
    /\ a.peak >= 0 /\ a.peakPnl >= 0
    /\ Worth(pl, o, p)
    /\ In(pl) # {} /\ ~t.away /\ a.date = now /\ a.peak > 0 => Covers(a, In(pl), o, p, t)

SoundFile(now, d) ==
    /\ d.peakPnl >= 0
    /\ In(d.place) = {} => d.drawdown = 0
    /\ d.date = now /\ In(d.place) # {} =>
         d.drawdown = Larger(d.peakPnl, Sum(d.pnl, In(d.place))) - Sum(d.pnl, In(d.place))
    /\ d.date = now /\ In(d.place) # {} /\ ~d.trail.away =>
         d.drawdown >= d.trail.high - d.trail.gain

IInv ==
    /\ TypeOK
    /\ anchor.date <= day /\ disk.date <= day
    /\ Members = {} => anchor.peak = 0
    /\ Sound(day, anchor, place, open, pnl, trail)
    /\ Worth(disk.place, disk.open, disk.pnl)
    /\ ~trail.away => Parked(place) = {}
    /\ ~disk.trail.away => Parked(disk.place) = {}
    /\ SoundFile(day, disk)
-----------------------------------------------------------------------------
(* Sums. *)

LEMMA SumType ==
    ASSUME NEW f \in Ledger, NEW S \in SUBSET Books
    PROVE  Sum(f, S) \in Int /\ (S = {} => Sum(f, S) = 0)
  BY DEF Sum, Ledger, Books

LEMMA SumChange ==
    ASSUME NEW f \in Ledger, NEW g \in Ledger, NEW b \in Books, NEW S \in SUBSET Books,
           b \in S, \A c \in Books \ {b} : g[c] = f[c]
    PROVE  Sum(g, S) = Sum(f, S) - f[b] + g[b]
  <1>1. CASE b = "one"
    BY <1>1 DEF Sum, Ledger, Books
  <1>2. CASE b = "other"
    BY <1>2 DEF Sum, Ledger, Books
  <1> QED BY <1>1, <1>2 DEF Books

LEMMA SumAdd ==
    ASSUME NEW f \in Ledger, NEW g \in Ledger, NEW b \in Books, NEW S \in SUBSET Books,
           b \notin S, \A c \in Books \ {b} : g[c] = f[c]
    PROVE  Sum(g, S \cup {b}) = Sum(f, S) + g[b]
  <1>1. CASE b = "one"
    BY <1>1 DEF Sum, Ledger, Books
  <1>2. CASE b = "other"
    BY <1>2 DEF Sum, Ledger, Books
  <1> QED BY <1>1, <1>2 DEF Books

LEMMA SumDrop ==
    ASSUME NEW f \in Ledger, NEW b \in Books, NEW S \in SUBSET Books, b \in S
    PROVE  Sum(f, S \ {b}) = Sum(f, S) - f[b]
  <1>1. CASE b = "one"
    BY <1>1 DEF Sum, Ledger, Books
  <1>2. CASE b = "other"
    BY <1>2 DEF Sum, Ledger, Books
  <1> QED BY <1>1, <1>2 DEF Books

LEMMA Positive ==
    ASSUME NEW o \in Ledger, NEW p \in Ledger, NEW S \in SUBSET Books,
           \A b \in S : o[b] > 0 /\ o[b] + p[b] > 0
    PROVE  /\ Baseline(S, o) = Sum(o, S)
           /\ Sum(o, S) >= 0 /\ Equity(S, o, p) >= 0
           /\ S # {} => Equity(S, o, p) > 0
  <1> DEFINE one == "one" \in S
             other == "other" \in S
  <1>1. o["one"] \in Int /\ o["other"] \in Int /\ p["one"] \in Int /\ p["other"] \in Int
    BY DEF Ledger, Books
  <1>2. /\ one => o["one"] > 0 /\ o["one"] + p["one"] > 0
        /\ other => o["other"] > 0 /\ o["other"] + p["other"] > 0
    OBVIOUS
  <1>3. S # {} => one \/ other
    BY DEF Books
  <1>4. Sum(o, S) \in Int /\ Sum(o, S) >= 0
    BY <1>1, <1>2 DEF Sum
  <1>5. Sum(o, S) + Sum(p, S) >= 0 /\ (S # {} => Sum(o, S) + Sum(p, S) > 0)
    BY <1>1, <1>2, <1>3 DEF Sum
  <1>6. Baseline(S, o) = Sum(o, S)
    BY <1>4 DEF Baseline, Larger
  <1> QED BY <1>4, <1>5, <1>6 DEF Equity

LEMMA NewestType ==
    ASSUME NEW s \in [Books -> Nat], NEW S \in SUBSET Books
    PROVE  Newest(S, s) \in Nat
  BY DEF Newest, Larger, Books
LEMMA LargerType ==
    ASSUME NEW x \in Int, NEW y \in Int
    PROVE  Larger(x, y) \in Int /\ Larger(x, y) >= x /\ Larger(x, y) >= y
           /\ (Larger(x, y) = x \/ Larger(x, y) = y)
  BY DEF Larger

LEMMA EquityType ==
    ASSUME NEW o \in Ledger, NEW p \in Ledger, NEW S \in SUBSET Books
    PROVE  Equity(S, o, p) \in Int /\ Baseline(S, o) \in Int
           /\ Sum(o, S) \in Int /\ Sum(p, S) \in Int
           /\ Equity(S, o, p) = Sum(o, S) + Sum(p, S)
  BY SumType, LargerType DEF Equity, Baseline
-----------------------------------------------------------------------------
(* A look at the slice. *)

LEMMA SyncedFacts ==
    ASSUME NEW a \in Anchor, NEW o \in Ledger, NEW p \in Ledger, NEW S \in SUBSET Books,
           a.peak >= 0, a.peakPnl >= 0
    PROVE  LET r == Synced(a, S, o, p)
           IN /\ r \in Anchor /\ r.date = a.date /\ r.bar = a.bar
              /\ r.peak >= 0 /\ r.peakPnl >= 0
              /\ S = {} => r.peak = 0
              /\ S # {} => /\ r.peakPnl = Larger(a.peakPnl, Sum(p, S))
                           /\ r.peak = Larger(a.peak, Larger(Equity(S, o, p),
                                              Baseline(S, o) + Larger(a.peakPnl, Sum(p, S))))
                           /\ r.peak >= a.peak /\ r.peak >= Equity(S, o, p)
  <1> DEFINE r == Synced(a, S, o, p)
             top == Larger(a.peakPnl, Sum(p, S))
             high == Larger(Equity(S, o, p), Baseline(S, o) + top)
  <1>1. a.peakPnl \in Int /\ a.peak \in Int /\ a.date \in Nat /\ a.bar \in Nat
    BY DEF Anchor
  <1>2. Equity(S, o, p) \in Int /\ Baseline(S, o) \in Int /\ Sum(p, S) \in Int
    BY EquityType
  <1>3. top \in Int /\ top >= a.peakPnl
    BY <1>1, <1>2, LargerType
  <1> HIDE DEF top
  <1>4. high \in Int /\ high >= Equity(S, o, p)
    <2>1. Baseline(S, o) + top \in Int
      BY <1>2, <1>3
    <2> QED BY <2>1, <1>2, LargerType
  <1> HIDE DEF high
  <1>5. Larger(a.peak, high) \in Int /\ Larger(a.peak, high) >= a.peak /\ Larger(a.peak, high) >= high
    BY <1>1, <1>4, LargerType
  <1>6. CASE S = {}
    <2>1. r = [a EXCEPT !.peakPnl = 0, !.peak = 0]
      BY <1>6 DEF Synced
    <2> HIDE DEF r
    <2>2. r = [peakPnl |-> 0, peak |-> 0, date |-> a.date, bar |-> a.bar]
      BY <2>1 DEF Anchor
    <2>3. r \in Anchor /\ r.date = a.date /\ r.bar = a.bar /\ r.peak = 0 /\ r.peakPnl = 0
      BY <2>2, <1>1 DEF Anchor
    <2> QED BY <2>3, <1>6 DEF r
  <1>7. CASE S # {}
    <2>1. r = [a EXCEPT !.peakPnl = top, !.peak = Larger(a.peak, high)]
      BY <1>7 DEF Synced, top, high
    <2> HIDE DEF r
    <2>2. r \in Anchor /\ r.date = a.date /\ r.bar = a.bar /\ r.peakPnl = top /\ r.peak = Larger(a.peak, high)
      BY <2>1, <1>1, <1>3, <1>5 DEF Anchor
    <2>3. r.peak >= 0 /\ r.peakPnl >= 0 /\ r.peak >= a.peak /\ r.peak >= Equity(S, o, p)
      BY <2>2, <1>1, <1>2, <1>3, <1>4, <1>5
    <2> QED BY <2>2, <2>3, <1>7 DEF top, high, r
  <1> QED BY <1>6, <1>7

LEMMA RolledFacts ==
    ASSUME NEW a \in Anchor, NEW o \in Ledger, NEW p \in Ledger, NEW S \in SUBSET Books,
           NEW s \in [Books -> Nat], day \in Nat,
           a.peak >= 0, a.peakPnl >= 0, Equity(S, o, p) >= 0
    PROVE  LET r == Rolled(a, S, o, p, s)
           IN /\ r \in Anchor /\ r.date = day /\ r.peak >= 0 /\ r.peakPnl >= 0
              /\ a.date = day => r.peak = a.peak
              /\ a.date = day /\ ~BarRolls(a, S, s) => r.peakPnl = a.peakPnl
  <1>1. Newest(S, s) \in Nat /\ Equity(S, o, p) \in Int
    BY NewestType, EquityType
  <1> QED BY <1>1 DEF Rolled, Anchor

LEMMA RefreshedFacts ==
    ASSUME NEW a \in Anchor, NEW o \in Ledger, NEW p \in Ledger, NEW S \in SUBSET Books,
           NEW s \in [Books -> Nat], day \in Nat,
           a.peak >= 0, a.peakPnl >= 0,
           \A b \in S : o[b] > 0 /\ o[b] + p[b] > 0
    PROVE  LET r == Refreshed(a, S, o, p, s)
           IN /\ r \in Anchor /\ r.date = day /\ r.peak >= 0 /\ r.peakPnl >= 0
              /\ S = {} => r.peak = 0
              /\ S # {} => r.peak >= Equity(S, o, p)
              /\ S # {} /\ a.date = day => r.peak >= a.peak
  <1> DEFINE q == Rolled(a, S, o, p, s)
  <1>1. Equity(S, o, p) >= 0
    BY Positive
  <1>2. q \in Anchor /\ q.date = day /\ q.peak >= 0 /\ q.peakPnl >= 0 /\ (a.date = day => q.peak = a.peak)
    BY <1>1, RolledFacts
  <1> HIDE DEF q
  <1>3. LET r == Synced(q, S, o, p)
        IN /\ r \in Anchor /\ r.date = day /\ r.peak >= 0 /\ r.peakPnl >= 0
           /\ S = {} => r.peak = 0
           /\ S # {} => r.peak >= Equity(S, o, p) /\ r.peak >= q.peak
    BY <1>2, SyncedFacts
  <1> QED BY <1>2, <1>3 DEF Refreshed, q

\* After a look that kept what the reference lost, the reference may follow it.
LEMMA FollowedCovered ==
    ASSUME NEW a \in Anchor, NEW r \in Anchor, NEW t \in Trail, NEW S \in SUBSET Books,
           NEW o \in Ledger, NEW p \in Ledger, S # {}, ~t.away,
           r.peak >= Equity(S, o, p),
           a.date = day /\ a.peak # 0 => Covers(r, S, o, p, t)
    PROVE  Covers(r, S, o, p, Followed(t, a, S))
  <1> DEFINE f == Followed(t, a, S)
  <1>1. t.gain \in Int /\ t.high \in Int /\ r.peak \in Int /\ Equity(S, o, p) \in Int
    BY EquityType DEF Trail, Anchor
  <1>2. f = [t EXCEPT !.high = IF a.date # day \/ (a.peak = 0 /\ ~t.away) THEN t.gain
                               ELSE Larger(t.high, t.gain)]
    BY DEF Followed
  <1>3. CASE a.date # day \/ a.peak = 0
    <2>1. f.gain = t.gain /\ f.high = t.gain
      BY <1>2, <1>3 DEF Trail
    <2> QED BY <2>1, <1>1 DEF Covers
  <1>4. CASE a.date = day /\ a.peak # 0
    <2>1. f.gain = t.gain /\ f.high = Larger(t.high, t.gain)
      BY <1>2, <1>4 DEF Trail
    <2>2. r.peak - Equity(S, o, p) >= t.high - t.gain
      BY <1>4 DEF Covers
    <2>3. Larger(t.high, t.gain) = t.high \/ Larger(t.high, t.gain) = t.gain
      BY <1>1, LargerType
    <2> QED BY <2>1, <2>2, <2>3, <1>1 DEF Covers
  <1> QED BY <1>3, <1>4

LEMMA FollowedType ==
    ASSUME NEW a \in Anchor, NEW t \in Trail, NEW S \in SUBSET Books
    PROVE  Followed(t, a, S) \in Trail /\ Followed(t, a, S).away = t.away
  <1>1. t.gain \in Int /\ t.high \in Int /\ t.away \in BOOLEAN
    BY DEF Trail
  <1>2. Larger(t.high, t.gain) \in Int
    BY <1>1, LargerType
  <1>3. CASE S = {}
    <2>1. Followed(t, a, S) = [gain |-> 0, high |-> 0, away |-> t.away]
      BY <1>3 DEF Followed, Trail
    <2> QED BY <2>1, <1>1 DEF Trail
  <1>4. CASE S # {}
    <2>1. \E h \in Int : Followed(t, a, S) = [t EXCEPT !.high = h]
      BY <1>4, <1>1, <1>2 DEF Followed
    <2> QED BY <2>1 DEF Trail
  <1> QED BY <1>3, <1>4
-----------------------------------------------------------------------------
(* The state file. *)

\* The peak P&L saved gives back the drawdown there was.
LEMMA SavedPeakArithmetic ==
    ASSUME NEW k \in Int, NEW peak \in Int, NEW B \in Int, NEW P \in Int,
           k >= 0, peak >= 0, B >= 0, B + P > 0
    PROVE  LET K == Larger(Larger(0, IF peak > 0 THEN peak - B ELSE 0), Larger(k, P))
               D == Larger(peak, Larger(B + P, B + Larger(k, P))) - (B + P)
           IN K \in Int /\ K >= 0 /\ D \in Int /\ D >= 0 /\ D = Larger(K, P) - P /\ D >= peak - (B + P)
  BY DEF Larger

LEMMA PlacedType ==
    ASSUME NEW pl, NEW where PROVE Placed(pl, where) \in SUBSET Books
  BY DEF Placed

LEMMA SnapshotSound ==
    ASSUME NEW now, NEW a \in Anchor, NEW pl \in [Books -> {"in", "parked", "out"}],
           NEW o \in Ledger, NEW p \in Ledger, NEW s \in [Books -> Nat], NEW t \in Trail,
           Sound(now, a, pl, o, p, t)
    PROVE  LET d == Snapshot(a, pl, o, p, s, t)
           IN /\ d \in Payload /\ SoundFile(now, d) /\ d.trail.away = t.away
              /\ d.date = a.date /\ d.place = pl /\ d.open = o /\ d.pnl = p /\ d.session = s
  <1> DEFINE d == Snapshot(a, pl, o, p, s, t)
             S == In(pl)
             tr == [t EXCEPT !.high = IF a.peak = 0 THEN t.gain ELSE Larger(t.high, t.gain)]
             B == Baseline(S, o)
             P == Sum(p, S)
  <1>1. S \in SUBSET Books
    BY DEF In, Placed
  <1>0. /\ a.peak >= 0 /\ a.peakPnl >= 0 /\ Worth(pl, o, p)
        /\ S # {} /\ ~t.away /\ a.date = now /\ a.peak > 0 => Covers(a, S, o, p, t)
    BY DEF Sound
  <1>2. \A b \in S : o[b] > 0 /\ o[b] + p[b] > 0
    BY <1>0 DEF Worth, In, Placed
  <1>3. /\ B = Sum(o, S) /\ B >= 0 /\ B \in Int /\ P \in Int
        /\ Equity(S, o, p) = B + P /\ (S # {} => B + P > 0)
    BY <1>1, <1>2, Positive, EquityType
  <1>4. /\ a.peak \in Int /\ a.peakPnl \in Int /\ a.date \in Nat
        /\ t.gain \in Int /\ t.high \in Int /\ t.away \in BOOLEAN
    BY DEF Anchor, Trail
  <1>5. tr \in Trail /\ tr.away = t.away /\ tr.gain = t.gain
        /\ tr.high = IF a.peak = 0 THEN t.gain ELSE Larger(t.high, t.gain)
    <2>1. (IF a.peak = 0 THEN t.gain ELSE Larger(t.high, t.gain)) \in Int
      BY <1>4, LargerType
    <2> QED BY <2>1 DEF Trail
  <1>6. d = [date |-> a.date, peakPnl |-> SavedPeakPnl(a, S, o, p),
             place |-> pl, open |-> o, pnl |-> p, session |-> s,
             drawdown |-> Drawdown(a, S, o, p), trail |-> tr]
    BY DEF Snapshot, In
  <1> HIDE DEF tr, S, B, P, d
  <1>7. CASE S = {}
    <2>1. SavedPeakPnl(a, S, o, p) = 0 /\ Drawdown(a, S, o, p) = 0
      BY <1>7 DEF SavedPeakPnl, Drawdown
    <2>2. d \in Payload
      BY <2>1, <1>4, <1>5, <1>6 DEF Payload
    <2>3. /\ d.peakPnl = 0 /\ d.place = pl /\ d.trail = tr /\ d.drawdown = 0
          /\ d.date = a.date /\ d.open = o /\ d.pnl = p /\ d.session = s
      BY <2>1, <1>6
    <2>4. SoundFile(now, d)
      BY <2>3, <1>7 DEF SoundFile, S
    <2> QED BY <2>2, <2>3, <2>4, <1>5 DEF d
  <1>8. CASE S # {}
    <2> DEFINE K == SavedPeakPnl(a, S, o, p)
               D == Drawdown(a, S, o, p)
    <2>1. K = Larger(Larger(0, IF a.peak > 0 THEN a.peak - B ELSE 0), Larger(a.peakPnl, P))
      BY <1>8 DEF SavedPeakPnl, B, P
    <2>2. D = Larger(a.peak, Larger(B + P, B + Larger(a.peakPnl, P))) - (B + P)
      BY <1>0, <1>1, <1>3, <1>8, SyncedFacts DEF Drawdown, B, P
    <2>3. K \in Int /\ K >= 0 /\ D \in Int /\ D >= 0 /\ D = Larger(K, P) - P /\ D >= a.peak - (B + P)
      BY <2>1, <2>2, <1>0, <1>3, <1>4, <1>8, SavedPeakArithmetic
    <2> HIDE DEF K, D
    <2>4. d = [date |-> a.date, peakPnl |-> K, place |-> pl, open |-> o, pnl |-> p, session |-> s,
               drawdown |-> D, trail |-> tr]
      BY <1>6 DEF K, D
    <2>5. d \in Payload
      BY <2>3, <2>4, <1>4, <1>5 DEF Payload
    <2>6. ASSUME a.date = now, ~t.away PROVE  D >= tr.high - tr.gain
      <3>1. CASE a.peak = 0
        BY <3>1, <1>4, <1>5, <2>3
      <3>2. CASE a.peak # 0
        <4>1. a.peak - (B + P) >= t.high - t.gain
          BY <3>2, <2>6, <1>0, <1>3, <1>4, <1>8 DEF Covers, S
        <4>2. Larger(t.high, t.gain) = t.high \/ Larger(t.high, t.gain) = t.gain
          BY <1>4, LargerType
        <4> QED BY <4>1, <4>2, <3>2, <1>3, <1>4, <1>5, <2>3
      <3> QED BY <3>1, <3>2
    <2>7. /\ d.peakPnl = K /\ d.place = pl /\ d.trail = tr /\ d.drawdown = D
          /\ d.date = a.date /\ d.open = o /\ d.pnl = p /\ d.session = s
      BY <2>4
    <2>8. SoundFile(now, d)
      BY <2>3, <2>6, <2>7, <1>5, <1>8 DEF SoundFile, S, P
    <2> QED BY <2>5, <2>7, <2>8, <1>5 DEF d
  <1> QED BY <1>7, <1>8 DEF d
-----------------------------------------------------------------------------
(* The invariant. *)

\* What an action that saves has to leave: the rest of IInv is the file's.
Kept ==
    /\ place \in [Books -> {"in", "parked", "out"}]
    /\ open \in Ledger /\ pnl \in Ledger /\ session \in [Books -> Nat]
    /\ anchor \in Anchor /\ trail \in Trail
    /\ anchor.date <= day
    /\ Members = {} => anchor.peak = 0
    /\ Sound(day, anchor, place, open, pnl, trail)
    /\ ~trail.away => Parked(place) = {}

Filed ==
    /\ disk \in Payload
    /\ disk.date <= day
    /\ Worth(disk.place, disk.open, disk.pnl)
    /\ ~disk.trail.away => Parked(disk.place) = {}
    /\ SoundFile(day, disk)

Counted == day \in Nat /\ spawns \in Nat /\ crashes \in Nat

LEMMA Parts == IInv <=> Kept /\ Filed /\ Counted
  BY DEF IInv, Kept, Filed, Counted, TypeOK

LEMMA PersistFiles ==
    ASSUME Kept', Counted', Persist
    PROVE  Filed'
  <1> DEFINE d == Snapshot(anchor', place', open', pnl', session', trail')
  <1>1. disk' = d
    BY DEF Persist
  <1>2. /\ place' \in [Books -> {"in", "parked", "out"}]
        /\ open' \in Ledger /\ pnl' \in Ledger /\ session' \in [Books -> Nat]
        /\ anchor' \in Anchor /\ trail' \in Trail
        /\ Sound(day', anchor', place', open', pnl', trail')
    BY DEF Kept
  <1>3. /\ d \in Payload /\ SoundFile(day', d) /\ d.trail.away = trail'.away
        /\ d.date = anchor'.date /\ d.place = place' /\ d.open = open' /\ d.pnl = pnl'
    BY <1>2, SnapshotSound
  <1> HIDE DEF d
  <1>4. /\ anchor'.date <= day' /\ Worth(place', open', pnl')
        /\ ~trail'.away => Parked(place') = {}
    BY DEF Kept, Sound
  <1> QED BY <1>1, <1>3, <1>4 DEF Filed

LEMMA InitHolds ==
    ASSUME AnchorsAssumption, Init PROVE IInv
  <1>1. /\ open \in Ledger /\ pnl \in Ledger /\ session \in [Books -> Nat]
        /\ place \in [Books -> {"in", "parked", "out"}]
        /\ anchor \in Anchor /\ trail \in Trail
    BY DEF Init, Ledger, Anchor, Trail, NoTrail
  <1>2. Members = {} /\ Parked(place) = {} /\ In(place) = {} /\ Worth(place, open, pnl)
    BY DEF Init, Members, Parked, In, Placed, Worth
  <1>3. Sound(day, anchor, place, open, pnl, trail)
    BY <1>2 DEF Sound, Init
  <1> DEFINE d == Snapshot(anchor, place, open, pnl, session, trail)
  <1>4. /\ d \in Payload /\ SoundFile(day, d) /\ d.trail.away = trail.away
        /\ d.date = anchor.date /\ d.place = place /\ d.open = open /\ d.pnl = pnl
    <2>1. place \in [Books -> {"in", "parked", "out"}] /\ Sound(day, anchor, place, open, pnl, trail)
      BY <1>1, <1>3
    <2> QED BY ONLY <1>1, <2>1, SnapshotSound
  <1>5. disk = d
    BY DEF Init
  <1> HIDE DEF d
  <1>6. day = 1 /\ anchor.date = 1 /\ anchor.peak = 0 /\ spawns = 0 /\ crashes = 0
    BY DEF Init
  <1> QED BY <1>1, <1>2, <1>3, <1>4, <1>5, <1>6 DEF IInv, TypeOK

LEMMA TradeKeeps ==
    ASSUME AnchorsAssumption, Kept, Counted, NEW b \in Members, NEW by \in Moves,
           UNCHANGED <<day, place, anchor>>,
           open' \in Ledger, pnl' \in Ledger, session' \in [Books -> Nat],
           \A c \in Books \ {b} : open'[c] = open[c] /\ pnl'[c] = pnl[c],
           open'[b] > 0, open'[b] + pnl'[b] > 0,
           open'[b] + pnl'[b] = open[b] + pnl[b] + by,
           trail' = [trail EXCEPT !.gain = @ + by]
    PROVE  Kept'
  <1>1. by \in Int
    BY DEF Moves, AnchorsAssumption
  <1>2. /\ Members \in SUBSET Books /\ Members' = Members /\ b \in Books /\ In(place) = Members
        /\ open \in Ledger /\ pnl \in Ledger /\ trail \in Trail /\ anchor \in Anchor
    BY PlacedType DEF Kept, Members, In, Placed
  <1>3. /\ trail' \in Trail /\ trail'.gain = trail.gain + by
        /\ trail'.high = trail.high /\ trail'.away = trail.away
    BY <1>1, <1>2 DEF Trail
  <1>4. /\ Sum(open', Members) = Sum(open, Members) - open[b] + open'[b]
        /\ Sum(pnl', Members) = Sum(pnl, Members) - pnl[b] + pnl'[b]
    BY <1>2, SumChange
  <1>5. Equity(Members, open', pnl') = Equity(Members, open, pnl) + by
    <2>1. /\ open[b] \in Int /\ pnl[b] \in Int /\ open'[b] \in Int /\ pnl'[b] \in Int
          /\ Sum(open, Members) \in Int /\ Sum(pnl, Members) \in Int
      BY <1>2, SumType DEF Ledger
    <2> QED BY <2>1, <1>1, <1>4 DEF Equity
  <1>6. Worth(place', open', pnl')
    <2>1. Worth(place, open, pnl)
      BY DEF Kept, Sound
    <2> QED BY <2>1 DEF Worth
  <1>7. ASSUME In(place') # {}, ~trail'.away, anchor'.date = day', anchor'.peak > 0
        PROVE  Covers(anchor', In(place'), open', pnl', trail')
    <2>1. anchor.peak - Equity(Members, open, pnl) >= trail.high - trail.gain
      BY <1>2, <1>3, <1>7 DEF Kept, Sound, Covers
    <2>2. /\ Equity(Members, open, pnl) \in Int /\ anchor.peak \in Int
          /\ trail.high \in Int /\ trail.gain \in Int
      BY <1>2, EquityType DEF Anchor, Trail
    <2>3. anchor'.peak - (Equity(Members, open, pnl) + by) >= trail.high - (trail.gain + by)
      BY <2>1, <2>2, <1>1
    <2> QED BY <2>3, <1>2, <1>3, <1>5 DEF Covers
  <1>8. Sound(day', anchor', place', open', pnl', trail')
    BY <1>6, <1>7 DEF Sound, Kept
  <1> QED BY <1>2, <1>3, <1>8 DEF Kept
-----------------------------------------------------------------------------
(* Actions that look at the slice. *)

LEMMA LookCovers ==
    ASSUME NEW a0 \in Anchor, NEW a \in Anchor, NEW t \in Trail, NEW S \in SUBSET Books,
           NEW o \in Ledger, NEW p \in Ledger, NEW s \in [Books -> Nat], day \in Nat,
           a.date = a0.date, a.peak >= 0, a.peakPnl >= 0,
           \A b \in S : o[b] > 0 /\ o[b] + p[b] > 0,
           S # {} /\ ~t.away /\ a0.date = day /\ a0.peak # 0 => Covers(a, S, o, p, t)
    PROVE  LET r == Refreshed(a, S, o, p, s)
               f == Followed(t, a0, S)
           IN /\ r \in Anchor /\ r.date = day /\ r.peak >= 0 /\ r.peakPnl >= 0
              /\ S = {} => r.peak = 0
              /\ f \in Trail /\ f.away = t.away
              /\ S # {} /\ ~t.away => Covers(r, S, o, p, f)
  <1> DEFINE r == Refreshed(a, S, o, p, s)
             f == Followed(t, a0, S)
  <1>1. /\ r \in Anchor /\ r.date = day /\ r.peak >= 0 /\ r.peakPnl >= 0
        /\ S = {} => r.peak = 0
        /\ S # {} => r.peak >= Equity(S, o, p)
        /\ S # {} /\ a.date = day => r.peak >= a.peak
    BY RefreshedFacts
  <1>2. f \in Trail /\ f.away = t.away
    BY FollowedType
  <1> HIDE DEF r, f
  <1>3. ASSUME S # {}, ~t.away PROVE Covers(r, S, o, p, f)
    <2>1. ASSUME a0.date = day, a0.peak # 0 PROVE Covers(r, S, o, p, t)
      <3>1. a.peak - Equity(S, o, p) >= t.high - t.gain /\ r.peak >= a.peak
        BY <1>1, <1>3, <2>1 DEF Covers
      <3>2. /\ a.peak \in Int /\ r.peak \in Int /\ Equity(S, o, p) \in Int
            /\ t.high \in Int /\ t.gain \in Int
        BY <1>1, EquityType DEF Anchor, Trail
      <3> QED BY <3>1, <3>2 DEF Covers
    <2> QED BY <1>1, <1>3, <2>1, FollowedCovered DEF f
  <1> QED BY <1>1, <1>2, <1>3 DEF r, f

\* What such an action leaves, from what it looked at.
LEMMA LookKeeps ==
    ASSUME Kept, Counted, UNCHANGED day,
           NEW a \in Anchor,
           a.date = anchor.date, a.peak >= 0, a.peakPnl >= 0,
           place' \in [Books -> {"in", "parked", "out"}],
           open' \in Ledger, pnl' \in Ledger, session' \in [Books -> Nat],
           Worth(place', open', pnl'),
           Parked(place') = Parked(place),
           In(place') # {} /\ ~trail.away /\ anchor.date = day /\ anchor.peak # 0
              => Covers(a, In(place'), open', pnl', trail),
           anchor' = Refreshed(a, In(place'), open', pnl', session'),
           trail' = Followed(trail, anchor, In(place'))
    PROVE  Kept'
  <1> DEFINE S == In(place')
  <1>1. S \in SUBSET Books /\ anchor \in Anchor /\ trail \in Trail /\ day \in Nat
    BY PlacedType DEF Kept, Counted, In
  <1>2. \A b \in S : open'[b] > 0 /\ open'[b] + pnl'[b] > 0
    BY DEF Worth, In, Placed
  <1> HIDE DEF S
  <1>3. /\ anchor' \in Anchor /\ anchor'.date = day /\ anchor'.peak >= 0 /\ anchor'.peakPnl >= 0
        /\ S = {} => anchor'.peak = 0
        /\ trail' \in Trail /\ trail'.away = trail.away
        /\ S # {} /\ ~trail.away => Covers(anchor', S, open', pnl', trail')
    BY <1>1, <1>2, LookCovers DEF S
  <1>4. Sound(day', anchor', place', open', pnl', trail')
    BY <1>3 DEF Sound, S
  <1>5. Members' = S
    BY DEF Members, In, S
  <1>6. ~trail'.away => Parked(place') = {}
    BY <1>3 DEF Kept
  <1>7. anchor'.date <= day'
    BY <1>1, <1>3
  <1> QED BY <1>3, <1>4, <1>5, <1>6, <1>7 DEF Kept

LEMMA FlowFacts ==
    ASSUME NEW a \in Anchor, a.peak >= 0, a.peakPnl >= 0,
           NEW money \in Int, NEW profit \in Int, money > 0
    PROVE  /\ FlowIn(a, money) \in Anchor /\ FlowIn(a, money).date = a.date
           /\ FlowIn(a, money).bar = a.bar /\ FlowIn(a, money).peakPnl = a.peakPnl
           /\ FlowIn(a, money).peak = IF a.peak > 0 THEN a.peak + money ELSE a.peak
           /\ FlowOut(a, money, profit) \in Anchor /\ FlowOut(a, money, profit).date = a.date
           /\ FlowOut(a, money, profit).peak >= 0 /\ FlowOut(a, money, profit).peakPnl >= 0
           /\ a.peak > 0 => FlowOut(a, money, profit).peak >= a.peak - money
  <1>1. a.peak \in Int /\ a.peakPnl \in Int
    BY DEF Anchor
  <1>2. /\ Larger(a.peak - money, 0) \in Int /\ Larger(a.peak - money, 0) >= 0
        /\ Larger(a.peak - money, 0) >= a.peak - money
    BY <1>1 DEF Larger
  <1>3. Larger(0, a.peakPnl - profit) \in Int /\ Larger(0, a.peakPnl - profit) >= 0
    BY <1>1 DEF Larger
  <1>4. a.peak + money \in Int
    BY <1>1
  <1>5. /\ FlowIn(a, money) \in Anchor /\ FlowIn(a, money).date = a.date
        /\ FlowIn(a, money).bar = a.bar /\ FlowIn(a, money).peakPnl = a.peakPnl
        /\ FlowIn(a, money).peak = IF a.peak > 0 THEN a.peak + money ELSE a.peak
    BY <1>1, <1>4 DEF FlowIn, Anchor
  <1>6. \E k \in Int, h \in Int :
           /\ FlowOut(a, money, profit) = [a EXCEPT !.peak = h, !.peakPnl = k]
           /\ h >= 0 /\ k >= 0 /\ (a.peak > 0 => h >= a.peak - money)
    BY <1>1, <1>2, <1>3 DEF FlowOut
  <1>7. PICK k \in Int, h \in Int :
           /\ FlowOut(a, money, profit) = [a EXCEPT !.peak = h, !.peakPnl = k]
           /\ h >= 0 /\ k >= 0 /\ (a.peak > 0 => h >= a.peak - money)
    BY <1>6
  <1>8. FlowOut(a, money, profit) = [peakPnl |-> k, peak |-> h, date |-> a.date, bar |-> a.bar]
    BY <1>7 DEF Anchor
  <1>9. a.date \in Nat /\ a.bar \in Nat
    BY DEF Anchor
  <1>10. [peakPnl |-> k, peak |-> h, date |-> a.date, bar |-> a.bar] \in Anchor
    BY <1>9 DEF Anchor
  <1> QED BY <1>5, <1>7, <1>8, <1>10

LEMMA EvaluateKeeps ==
    ASSUME AnchorsAssumption, Kept, Counted, Evaluate PROVE Kept'
  <1>1. /\ UNCHANGED <<day, place, open, pnl, session>> /\ In(place') = Members
        /\ anchor' = Refreshed(anchor, Members, open, pnl, session)
        /\ trail' = Followed(trail, anchor, Members)
    BY DEF Evaluate, Members, In
  <1>2. /\ anchor \in Anchor /\ anchor.peak >= 0 /\ anchor.peakPnl >= 0
        /\ place' \in [Books -> {"in", "parked", "out"}]
        /\ open' \in Ledger /\ pnl' \in Ledger /\ session' \in [Books -> Nat]
        /\ Worth(place', open', pnl')
    BY <1>1 DEF Kept, Sound
  <1>3. Members # {} /\ ~trail.away /\ anchor.date = day /\ anchor.peak # 0
           => Covers(anchor, Members, open, pnl, trail)
    BY <1>2 DEF Kept, Sound, Members, In, Anchor
  <1> QED BY <1>1, <1>2, <1>3, LookKeeps

LEMMA SpawnKeeps ==
    ASSUME AnchorsAssumption, Kept, Counted, NEW b \in Books, Spawn(b) PROVE Kept'
  <1> DEFINE S == Members \cup {b}
             a == FlowIn(anchor, Capital)
  <1>1. /\ place[b] = "out" /\ place' = [place EXCEPT ![b] = "in"]
        /\ open' = [open EXCEPT ![b] = Capital] /\ pnl' = [pnl EXCEPT ![b] = 0]
        /\ session' = [session EXCEPT ![b] = 0]
        /\ anchor' = Refreshed(a, S, open', pnl', session')
        /\ trail' = Followed(trail, anchor, S)
        /\ UNCHANGED day
    BY DEF Spawn
  <1>2. /\ anchor \in Anchor /\ anchor.peak >= 0 /\ anchor.peakPnl >= 0 /\ trail \in Trail
        /\ place \in [Books -> {"in", "parked", "out"}]
        /\ open \in Ledger /\ pnl \in Ledger /\ session \in [Books -> Nat]
        /\ Worth(place, open, pnl) /\ (Members = {} => anchor.peak = 0)
    BY DEF Kept, Sound
  <1>3. Capital \in Int /\ Capital > 0
    BY DEF AnchorsAssumption
  <1>4. /\ a \in Anchor /\ a.date = anchor.date /\ a.peakPnl = anchor.peakPnl
        /\ a.peak = IF anchor.peak > 0 THEN anchor.peak + Capital ELSE anchor.peak
    BY <1>2, <1>3, FlowFacts
  <1>5. a.peak >= 0 /\ a.peakPnl >= 0
    BY <1>2, <1>3, <1>4 DEF Anchor
  <1>6. /\ place' \in [Books -> {"in", "parked", "out"}]
        /\ session' \in [Books -> Nat]
    BY <1>1, <1>2
  <1>7. open' \in Ledger /\ pnl' \in Ledger
    BY <1>1, <1>2, <1>3 DEF Ledger
  <1>8. In(place') = S /\ Parked(place') = Parked(place) /\ b \notin Members
    BY <1>1, <1>2 DEF Members, In, Parked, Placed
  <1>9. Worth(place', open', pnl')
    BY <1>1, <1>2, <1>3 DEF Worth, Ledger
  <1> HIDE DEF a
  <1>10. ASSUME ~trail.away, anchor.date = day, anchor.peak # 0
         PROVE  Covers(a, S, open', pnl', trail)
    <2>1. Covers(anchor, Members, open, pnl, trail) /\ Members \in SUBSET Books
      BY <1>2, <1>10 DEF Kept, Sound, Members, In, Anchor, Placed
    <2>2. \A c \in Books \ {b} : open'[c] = open[c] /\ pnl'[c] = pnl[c]
      BY <1>1, <1>2 DEF Ledger
    <2>3. open'[b] = Capital /\ pnl'[b] = 0
      BY <1>1, <1>2 DEF Ledger
    <2>4. Sum(open', S) = Sum(open, Members) + Capital
      BY <1>2, <1>7, <1>8, <2>1, <2>2, <2>3, SumAdd
    <2>5. Sum(pnl', S) = Sum(pnl, Members) + 0
      BY <1>2, <1>7, <1>8, <2>1, <2>2, <2>3, SumAdd
    <2>6. /\ Sum(open, Members) \in Int /\ Sum(pnl, Members) \in Int /\ anchor.peak \in Int
          /\ trail.high \in Int /\ trail.gain \in Int
      BY <1>2, <2>1, SumType DEF Anchor, Trail
    <2>7. a.peak = anchor.peak + Capital
      BY <1>2, <1>4, <1>10, <2>6
    <2> QED BY <1>3, <2>1, <2>4, <2>5, <2>6, <2>7 DEF Covers, Equity
  <1> QED BY <1>1, <1>4, <1>5, <1>6, <1>7, <1>8, <1>9, <1>10, LookKeeps DEF a

LEMMA RemoveKeeps ==
    ASSUME AnchorsAssumption, Kept, Counted, NEW b \in Books, Remove(b) PROVE Kept'
  <1> DEFINE S == Members \ {b}
             money == open[b] + pnl[b]
             a == FlowOut(anchor, money, pnl[b])
  <1>1. /\ place[b] = "in" /\ place' = [place EXCEPT ![b] = "out"]
        /\ UNCHANGED <<day, open, pnl, session>>
        /\ anchor' = Refreshed(a, S, open, pnl, session)
        /\ trail' = Followed(trail, anchor, S)
    BY DEF Remove
  <1>2. /\ anchor \in Anchor /\ anchor.peak >= 0 /\ anchor.peakPnl >= 0 /\ trail \in Trail
        /\ place \in [Books -> {"in", "parked", "out"}]
        /\ open \in Ledger /\ pnl \in Ledger /\ session \in [Books -> Nat]
        /\ Worth(place, open, pnl)
    BY DEF Kept, Sound
  <1>3. open[b] \in Int /\ pnl[b] \in Int /\ money \in Int /\ money > 0
    BY <1>1, <1>2 DEF Worth, Ledger
  <1> HIDE DEF money
  <1>4. /\ a \in Anchor /\ a.date = anchor.date /\ a.peak >= 0 /\ a.peakPnl >= 0
        /\ anchor.peak > 0 => a.peak >= anchor.peak - money
    BY <1>2, <1>3, FlowFacts
  <1>5. place' \in [Books -> {"in", "parked", "out"}]
    BY <1>1, <1>2
  <1>6. In(place') = S /\ Parked(place') = Parked(place) /\ b \in Members
    BY <1>1, <1>2 DEF Members, In, Parked, Placed
  <1>7. Worth(place', open', pnl')
    BY <1>1, <1>2 DEF Worth
  <1> HIDE DEF a
  <1>8. ASSUME ~trail.away, anchor.date = day, anchor.peak # 0
        PROVE  Covers(a, S, open', pnl', trail)
    <2>1. Members \in SUBSET Books /\ In(place) = Members /\ Members # {}
      BY <1>6, PlacedType DEF Members, In
    <2>2. anchor.peak \in Int /\ a.peak \in Int /\ trail.high \in Int /\ trail.gain \in Int
      BY <1>2, <1>4 DEF Anchor, Trail
    <2>3. anchor.peak > 0
      BY <1>2, <1>8, <2>2
    <2>4. Covers(anchor, Members, open, pnl, trail)
      BY <1>8, <2>1, <2>3 DEF Kept, Sound
    <2>5. /\ Sum(open, S) = Sum(open, Members) - open[b]
          /\ Sum(pnl, S) = Sum(pnl, Members) - pnl[b]
      BY <1>2, <1>6, <2>1, SumDrop
    <2>6. Sum(open, Members) \in Int /\ Sum(pnl, Members) \in Int
      BY <1>2, <2>1, SumType
    <2>7. Equity(S, open, pnl) = Equity(Members, open, pnl) - money
      BY <1>3, <2>5, <2>6 DEF Equity, money
    <2>8. Equity(Members, open, pnl) \in Int
      BY <2>6 DEF Equity
    <2>9. anchor.peak - Equity(Members, open, pnl) >= trail.high - trail.gain
      BY <2>4 DEF Covers
    <2>10. a.peak - (Equity(Members, open, pnl) - money) >= trail.high - trail.gain
      BY <2>2, <2>3, <2>8, <2>9, <1>3, <1>4
    <2> QED BY <1>1, <2>7, <2>10 DEF Covers
  <1> QED BY <1>1, <1>2, <1>4, <1>5, <1>6, <1>7, <1>8, LookKeeps DEF a

\* A book a login brings back was kept out by a restart: trail.away stands.
LEMMA WakeKeeps ==
    ASSUME AnchorsAssumption, Kept, Counted, NEW b \in Books, Wake(b) PROVE Kept'
  <1> DEFINE S == Members \cup {b}
             o == [open EXCEPT ![b] = Capital]
             p == [pnl EXCEPT ![b] = 0]
             s == [session EXCEPT ![b] = 0]
             a == Refreshed(FlowIn(anchor, Capital), S, o, p, s)
  <1>1. /\ place[b] = "parked" /\ place' = [place EXCEPT ![b] = "in"]
        /\ UNCHANGED <<day, open, pnl, session>>
        /\ anchor' = Refreshed(a, S, open, pnl, session)
        /\ trail' = Followed(trail, anchor, S)
    BY DEF Wake
  <1>2. /\ anchor \in Anchor /\ anchor.peak >= 0 /\ anchor.peakPnl >= 0 /\ trail \in Trail
        /\ place \in [Books -> {"in", "parked", "out"}]
        /\ open \in Ledger /\ pnl \in Ledger /\ session \in [Books -> Nat]
        /\ Worth(place, open, pnl) /\ day \in Nat
    BY DEF Kept, Sound, Counted
  <1>3. Capital \in Int /\ Capital > 0
    BY DEF AnchorsAssumption
  <1>4. S \in SUBSET Books /\ S # {} /\ trail.away /\ In(place') = S
    <2>1. b \in Parked(place)
      BY <1>1 DEF Parked, Placed
    <2>2. trail.away
      BY <2>1 DEF Kept
    <2> QED BY <1>1, <1>2, <2>2 DEF Members, In, Placed
  <1>5. o \in Ledger /\ p \in Ledger /\ s \in [Books -> Nat]
    BY <1>2, <1>3 DEF Ledger
  <1>6. /\ \A c \in S : open[c] > 0 /\ open[c] + pnl[c] > 0
        /\ \A c \in S : o[c] > 0 /\ o[c] + p[c] > 0
    BY <1>1, <1>2, <1>3 DEF Worth, Members, Placed, Ledger
  <1>7. /\ FlowIn(anchor, Capital) \in Anchor
        /\ FlowIn(anchor, Capital).peak >= 0 /\ FlowIn(anchor, Capital).peakPnl >= 0
    <2>1. anchor.peak + Capital >= 0
      BY <1>2, <1>3 DEF Anchor
    <2> QED BY <2>1, <1>2, <1>3, FlowFacts
  <1> HIDE DEF S, o, p, s
  <1>8. a \in Anchor /\ a.peak >= 0 /\ a.peakPnl >= 0
    BY ONLY <1>2, <1>4, <1>5, <1>6, <1>7, RefreshedFacts
  <1> HIDE DEF a
  <1>9. anchor' \in Anchor /\ anchor'.date = day /\ anchor'.peak >= 0 /\ anchor'.peakPnl >= 0
    <2> DEFINE r == Refreshed(a, S, open, pnl, session)
    <2>1. r \in Anchor /\ r.date = day /\ r.peak >= 0 /\ r.peakPnl >= 0
      BY ONLY <1>2, <1>4, <1>6, <1>8, RefreshedFacts
    <2>2. anchor' = r
      BY <1>1
    <2> HIDE DEF r
    <2> QED BY <2>1, <2>2
  <1>10. trail' \in Trail /\ trail'.away
    BY <1>1, <1>2, <1>4, FollowedType
  <1>11. Worth(place', open', pnl')
    BY <1>1, <1>2 DEF Worth
  <1>12. place' \in [Books -> {"in", "parked", "out"}] /\ Members' # {}
    BY <1>1, <1>2, <1>4 DEF Members, In
  <1>13. Sound(day', anchor', place', open', pnl', trail')
    BY <1>9, <1>10, <1>11 DEF Sound
  <1> QED BY <1>1, <1>2, <1>9, <1>10, <1>12, <1>13 DEF Kept

LEMMA ForgetKeeps ==
    ASSUME Kept, NEW b \in Books, Forget(b) PROVE Kept'
  <1>1. /\ place[b] = "parked" /\ place' = [place EXCEPT ![b] = "out"]
        /\ UNCHANGED <<day, open, pnl, session, anchor, trail>>
    BY DEF Forget
  <1>2. place \in [Books -> {"in", "parked", "out"}] /\ Worth(place, open, pnl)
    BY DEF Kept, Sound
  <1>3. /\ place' \in [Books -> {"in", "parked", "out"}]
        /\ In(place') = In(place) /\ Members' = Members /\ Members = In(place)
        /\ Parked(place') \subseteq Parked(place)
    BY <1>1, <1>2 DEF In, Members, Parked, Placed
  <1>4. Worth(place', open', pnl')
    BY <1>1, <1>2 DEF Worth
  <1>5. Sound(day', anchor', place', open', pnl', trail')
    BY <1>1, <1>3, <1>4 DEF Kept, Sound
  <1> QED BY <1>1, <1>3, <1>5 DEF Kept
-----------------------------------------------------------------------------
(* Trading, midnight and the restart. *)

LEMMA MarkKeeps ==
    ASSUME AnchorsAssumption, Kept, Counted, NEW b \in Books, NEW by \in Moves, Mark(b, by)
    PROVE  Kept'
  <1>1. /\ b \in Members /\ UNCHANGED <<day, place, anchor, open, session>>
        /\ pnl' = [pnl EXCEPT ![b] = @ + by] /\ Solvent(open[b], pnl[b] + by)
        /\ trail' = [trail EXCEPT !.gain = @ + by]
    BY DEF Mark, Gains
  <1>2. open \in Ledger /\ pnl \in Ledger /\ session \in [Books -> Nat] /\ by \in Int
    <2>1. by \in Int
      BY DEF Moves, AnchorsAssumption
    <2> QED BY <2>1 DEF Kept
  <1>3. pnl' \in Ledger /\ pnl'[b] = pnl[b] + by /\ (\A c \in Books \ {b} : pnl'[c] = pnl[c])
    BY <1>1, <1>2 DEF Ledger
  <1>4. open'[b] > 0 /\ open'[b] + pnl'[b] > 0
    BY <1>1, <1>2, <1>3 DEF Solvent
  <1>5. open'[b] + pnl'[b] = open[b] + pnl[b] + by
    BY <1>1, <1>2, <1>3 DEF Ledger
  <1> QED BY <1>1, <1>2, <1>3, <1>4, <1>5, TradeKeeps

LEMMA BarKeeps ==
    ASSUME AnchorsAssumption, Kept, Counted, NEW b \in Books, NEW by \in Moves, Bar(b, by)
    PROVE  Kept'
  <1> DEFINE new == session[b] \notin {0, day}
             o == IF new THEN open[b] + pnl[b] ELSE open[b]
             p == (IF new THEN 0 ELSE pnl[b]) + by
  <1>1. /\ b \in Members /\ UNCHANGED <<day, place, anchor>> /\ Solvent(o, p)
        /\ open' = [open EXCEPT ![b] = o] /\ pnl' = [pnl EXCEPT ![b] = p]
        /\ session' = [session EXCEPT ![b] = day]
        /\ trail' = [trail EXCEPT !.gain = @ + by]
    BY DEF Bar, Gains
  <1>2. /\ open \in Ledger /\ pnl \in Ledger /\ session \in [Books -> Nat]
        /\ by \in Int /\ day \in Nat
    <2>1. by \in Int
      BY DEF Moves, AnchorsAssumption
    <2> QED BY <2>1 DEF Kept, Counted
  <1>3. open[b] \in Int /\ pnl[b] \in Int
    BY <1>2 DEF Ledger
  <1>4. o \in Int /\ p \in Int /\ o + p = open[b] + pnl[b] + by
    BY <1>2, <1>3
  <1> HIDE DEF o, p
  <1>5. /\ open' \in Ledger /\ pnl' \in Ledger /\ session' \in [Books -> Nat]
        /\ open'[b] = o /\ pnl'[b] = p
        /\ \A c \in Books \ {b} : open'[c] = open[c] /\ pnl'[c] = pnl[c]
    BY <1>1, <1>2, <1>4 DEF Ledger
  <1>6. o > 0 /\ o + p > 0
    BY <1>1 DEF Solvent
  <1>7. /\ open'[b] > 0 /\ open'[b] + pnl'[b] > 0
        /\ open'[b] + pnl'[b] = open[b] + pnl[b] + by
    BY <1>4, <1>5, <1>6
  <1> QED BY <1>1, <1>5, <1>7, TradeKeeps

LEMMA MidnightKeeps ==
    ASSUME AnchorsAssumption, Kept, Filed, Counted, Midnight PROVE Kept' /\ Filed' /\ Counted'
  <1>1. /\ day' = day + 1 /\ UNCHANGED <<place, open, pnl, session, anchor, disk, spawns, crashes>>
        /\ trail' = [gain |-> 0, high |-> 0, away |-> Parked(place) # {}]
    BY DEF Midnight, Parked
  <1>2. day \in Nat /\ anchor.date \in Nat /\ anchor.date <= day /\ disk.date \in Nat /\ disk.date <= day
    BY DEF Kept, Counted, Filed, Anchor, Payload
  <1>3. day' \in Nat /\ anchor.date <= day' /\ anchor.date # day' /\ disk.date <= day' /\ disk.date # day'
    BY <1>1, <1>2
  <1>4. trail' \in Trail /\ trail'.away = (Parked(place) # {})
    <2>1. (Parked(place) # {}) \in BOOLEAN
      OBVIOUS
    <2> QED BY <2>1, <1>1 DEF Trail
  <1>5. Members' = Members
    BY <1>1 DEF Members, Placed
  <1>6. Sound(day', anchor', place', open', pnl', trail')
    BY <1>1, <1>3 DEF Kept, Sound
  <1>7. SoundFile(day', disk')
    BY <1>1, <1>3 DEF Filed, SoundFile
  <1>8. Kept'
    BY <1>1, <1>3, <1>4, <1>5, <1>6 DEF Kept
  <1>9. Filed'
    BY <1>1, <1>3, <1>7 DEF Filed
  <1> QED BY <1>1, <1>3, <1>8, <1>9 DEF Counted

LEMMA RestartKeeps ==
    ASSUME AnchorsAssumption, Kept, Filed, Counted, NEW refused \in SUBSET Books, Restart(refused)
    PROVE  Kept'
  <1> DEFINE S == In(disk.place) \cup Parked(disk.place)
             back == S \ refused
             same == disk.date = day /\ back # {}
             P == Sum(disk.pnl, back)
             top == IF same THEN Larger(0, Larger(disk.peakPnl, P)) ELSE 0
             high == IF same THEN Larger(Equity(back, disk.open, disk.pnl),
                                         Baseline(back, disk.open) + top) ELSE 0
  <1>1. /\ refused \subseteq S
        /\ place' = [c \in Books |-> IF c \in refused THEN "parked"
                                     ELSE IF c \in S THEN "in" ELSE "out"]
        /\ open' = disk.open /\ pnl' = disk.pnl /\ session' = disk.session
        /\ anchor' = [peakPnl |-> top, peak |-> high, date |-> day, bar |-> 0]
        /\ trail' = IF disk.date = day THEN [disk.trail EXCEPT !.away = @ \/ refused # {}]
                    ELSE [NoTrail EXCEPT !.away = refused # {}]
        /\ UNCHANGED <<day, disk>>
    BY DEF Restart, In, Parked
  <1>2. /\ disk.place \in [Books -> {"in", "parked", "out"}]
        /\ disk.open \in Ledger /\ disk.pnl \in Ledger /\ disk.session \in [Books -> Nat]
        /\ disk.peakPnl \in Int /\ disk.drawdown \in Int /\ disk.trail \in Trail
        /\ disk.peakPnl >= 0 /\ day \in Nat
        /\ Worth(disk.place, disk.open, disk.pnl)
        /\ ~disk.trail.away => Parked(disk.place) = {}
        /\ SoundFile(day, disk)
    BY DEF Filed, Payload, SoundFile, Counted
  <1>3. S \in SUBSET Books /\ back \in SUBSET Books /\ (\A c \in S : disk.place[c] # "out")
    BY DEF In, Parked, Placed
  <1>4. In(place') = back /\ Parked(place') = refused
    BY <1>1, <1>3 DEF In, Parked, Placed
  <1>5. place' \in [Books -> {"in", "parked", "out"}]
    BY <1>1
  <1>6. Worth(place', open', pnl')
    BY <1>1, <1>2, <1>3 DEF Worth
  <1>7. \A c \in back : disk.open[c] > 0 /\ disk.open[c] + disk.pnl[c] > 0
    BY <1>2, <1>3 DEF Worth
  <1> HIDE DEF back
  <1>8. /\ P \in Int /\ Baseline(back, disk.open) \in Int /\ Baseline(back, disk.open) >= 0
        /\ Equity(back, disk.open, disk.pnl) = Baseline(back, disk.open) + P
        /\ back # {} => Baseline(back, disk.open) + P > 0
    BY ONLY <1>2, <1>3, <1>7, Positive, EquityType
  <1>9. top \in Int /\ top >= 0
        /\ (same => top >= disk.peakPnl /\ top >= P /\ (top = disk.peakPnl \/ top = P \/ top = 0))
    BY <1>2, <1>8 DEF Larger
  <1> HIDE DEF P, top
  <1>10. high \in Int /\ high >= 0 /\ (same => high >= Baseline(back, disk.open) + top)
    BY <1>8, <1>9 DEF Larger
  <1>11. back = {} => high = 0
    OBVIOUS
  <1> HIDE DEF high, same
  <1>12. /\ anchor' \in Anchor /\ anchor'.peak = high /\ anchor'.peakPnl = top /\ anchor'.date = day
    BY <1>1, <1>2, <1>9, <1>10 DEF Anchor
  <1>13. CASE disk.date = day
    <2>1. trail' = [gain |-> disk.trail.gain, high |-> disk.trail.high,
                    away |-> disk.trail.away \/ refused # {}]
      BY <1>1, <1>2, <1>13 DEF Trail
    <2>2. disk.trail.gain \in Int /\ disk.trail.high \in Int /\ disk.trail.away \in BOOLEAN
      BY <1>2 DEF Trail
    <2>3. (disk.trail.away \/ refused # {}) \in BOOLEAN
      OBVIOUS
    <2>4. trail' \in Trail /\ trail'.gain = disk.trail.gain /\ trail'.high = disk.trail.high
      BY <2>1, <2>2, <2>3 DEF Trail
    <2>5. ~trail'.away => ~disk.trail.away /\ refused = {}
      BY <2>1
    <2>6. ASSUME back # {}, ~trail'.away PROVE Covers(anchor', back, open', pnl', trail')
      <3>1. same /\ back = In(disk.place) /\ Parked(disk.place) = {}
        BY <2>5, <2>6, <1>2, <1>13 DEF same, back
      <3>2. /\ disk.drawdown = Larger(disk.peakPnl, P) - P
            /\ disk.drawdown >= disk.trail.high - disk.trail.gain
        BY <2>5, <2>6, <3>1, <1>2, <1>13 DEF SoundFile, P
      <3>3. Larger(disk.peakPnl, P) \in Int /\ top >= Larger(disk.peakPnl, P)
        BY <3>1, <1>2, <1>8, <1>9, LargerType
      <3>4. high - (Baseline(back, disk.open) + P) >= disk.trail.high - disk.trail.gain
        BY <2>2, <3>1, <3>2, <3>3, <1>2, <1>8, <1>9, <1>10
      <3> QED BY <3>4, <2>4, <1>1, <1>8, <1>12 DEF Covers
    <2>7. Sound(day', anchor', place', open', pnl', trail')
      BY <2>6, <1>1, <1>4, <1>6, <1>9, <1>10, <1>12 DEF Sound
    <2>8. ~trail'.away => Parked(place') = {}
      BY <2>5, <1>4
    <2>9. Members' = {} => anchor'.peak = 0
      BY <1>4, <1>11, <1>12 DEF Members, In
    <2> QED BY <2>4, <2>7, <2>8, <2>9, <1>1, <1>2, <1>5, <1>12 DEF Kept
  <1>14. CASE disk.date # day
    <2>1. trail' = [gain |-> 0, high |-> 0, away |-> refused # {}]
      BY <1>1, <1>14 DEF NoTrail
    <2>2. (refused # {}) \in BOOLEAN
      OBVIOUS
    <2>3. trail' \in Trail
      BY <2>1, <2>2 DEF Trail
    <2>7. ~trail'.away => Parked(place') = {}
      BY <2>1, <1>4
    <2>4. high = 0
      BY <1>14 DEF high, same
    <2>5. Sound(day', anchor', place', open', pnl', trail')
      BY <2>4, <1>6, <1>9, <1>12 DEF Sound
    <2>6. Members' = {} => anchor'.peak = 0
      BY <2>4, <1>12
    <2> QED BY <2>3, <2>5, <2>6, <2>7, <1>1, <1>2, <1>5, <1>12 DEF Kept
  <1> QED BY <1>13, <1>14

LEMMA NextKeeps ==
    ASSUME AnchorsAssumption, IInv, [Next]_vars PROVE IInv'
  <1> USE AnchorsAssumption
  <1>0. Kept /\ Filed /\ Counted
    BY Parts
  <1>1. ASSUME UNCHANGED day, UNCHANGED disk PROVE Filed'
    BY <1>0, <1>1 DEF Filed
  <1>2. CASE Midnight
    <2>1. Kept' /\ Filed' /\ Counted'
      BY <1>0, <1>2, MidnightKeeps
    <2> QED BY <2>1, Parts DEF IInv, Kept, Filed, Counted, TypeOK
  <1>3. CASE Evaluate
    <2>1. Kept' /\ Counted' /\ UNCHANGED day
      BY <1>0, <1>3, EvaluateKeeps DEF Counted, Evaluate
    <2>2. Persist \/ UNCHANGED disk
      BY <1>3 DEF Evaluate
    <2>3. Filed'
      BY <2>1, <2>2, <1>1, PersistFiles
    <2> QED BY <2>1, <2>3 DEF IInv, Kept, Filed, Counted, TypeOK
  <1>4. CASE Save
    <2>1. /\ UNCHANGED <<day, place, open, pnl, session, anchor, spawns, crashes, trail>> /\ Persist
      BY <1>4 DEF Save
    <2>2. Kept' /\ Counted'
      BY <1>0, <2>1 DEF Kept, Counted, Sound, Members
    <2>3. Filed'
      BY <2>1, <2>2, PersistFiles
    <2> QED BY <2>2, <2>3 DEF IInv, Kept, Filed, Counted, TypeOK
  <1>5. ASSUME NEW b \in Books, NEW by \in Moves, Mark(b, by) \/ Bar(b, by) PROVE IInv'
    <2>1. Kept'
      BY <1>0, <1>5, MarkKeeps, BarKeeps
    <2>2. Counted' /\ Filed'
      BY <1>0, <1>1, <1>5 DEF Mark, Bar, Counted
    <2> QED BY <2>1, <2>2 DEF IInv, Kept, Filed, Counted, TypeOK
  <1>6. ASSUME NEW b \in Books, Spawn(b) \/ Remove(b) \/ Forget(b) \/ Wake(b) PROVE IInv'
    <2>1. Kept'
      BY <1>0, <1>6, SpawnKeeps, RemoveKeeps, ForgetKeeps, WakeKeeps
    <2>2. Persist /\ Counted'
      <3>1. CASE Spawn(b)
        BY <1>0, <3>1 DEF Spawn, Counted
      <3>2. CASE Remove(b)
        BY <1>0, <3>2 DEF Remove, Counted
      <3>3. CASE Forget(b)
        BY <1>0, <3>3 DEF Forget, Counted
      <3>4. CASE Wake(b)
        BY <1>0, <3>4 DEF Wake, Counted
      <3> QED BY <1>6, <3>1, <3>2, <3>3, <3>4
    <2>3. Filed'
      BY <2>1, <2>2, PersistFiles
    <2> QED BY <2>1, <2>2, <2>3 DEF IInv, Kept, Filed, Counted, TypeOK
  <1>7. ASSUME NEW refused \in SUBSET Books, Restart(refused) PROVE IInv'
    <2>1. Kept'
      BY <1>0, <1>7, RestartKeeps
    <2>2. Counted' /\ Filed'
      BY <1>0, <1>1, <1>7 DEF Restart, Counted
    <2> QED BY <2>1, <2>2 DEF IInv, Kept, Filed, Counted, TypeOK
  <1>8. CASE UNCHANGED vars
    BY <1>8 DEF vars, IInv, TypeOK, Members, Sound, SoundFile
  <1> QED BY <1>2, <1>3, <1>4, <1>5, <1>6, <1>7, <1>8 DEF Next

THEOREM AnchorsInvariant == ASSUME AnchorsAssumption PROVE Spec => []IInv
  <1>1. Init => IInv
    BY InitHolds
  <1>2. IInv /\ [Next]_vars => IInv'
    BY NextKeeps
  <1> QED BY <1>1, <1>2, PTL DEF Spec

\* TypeOK: the books, the anchors, the payload and the history keep their types.
THEOREM AnchorsTypes == ASSUME AnchorsAssumption PROVE Spec => []TypeOK
  <1>1. IInv => TypeOK
    BY DEF IInv
  <1> QED BY <1>1, AnchorsInvariant, PTL
-----------------------------------------------------------------------------
(* The properties. *)

\* NoLossForgotten: the fuse measures at least what trading lost since its best
\* of the date, through spawns, removals, saves, restarts and midnights.
THEOREM NoLossIsForgotten == ASSUME AnchorsAssumption PROVE Spec => []NoLossForgotten
  <1>1. IInv => NoLossForgotten
    <2> SUFFICES ASSUME IInv, Members # {}, ~trail.away, anchor.date = day, anchor.peak > 0
                 PROVE  Measured >= trail.high - trail.gain
      BY DEF NoLossForgotten
    <2>1. /\ anchor \in Anchor /\ open \in Ledger /\ pnl \in Ledger /\ trail \in Trail
          /\ anchor.peak >= 0 /\ anchor.peakPnl >= 0 /\ Members \in SUBSET Books
          /\ Covers(anchor, Members, open, pnl, trail)
      BY PlacedType DEF IInv, TypeOK, Sound, Members, In
    <2> DEFINE r == Synced(anchor, Members, open, pnl)
    <2>2. r \in Anchor /\ r.peak >= anchor.peak
      BY <2>1, SyncedFacts
    <2>3. Measured = r.peak - Equity(Members, open, pnl)
      BY DEF Measured, Drawdown
    <2> HIDE DEF r
    <2>4. /\ r.peak \in Int /\ anchor.peak \in Int /\ Equity(Members, open, pnl) \in Int
          /\ trail.high \in Int /\ trail.gain \in Int
      BY <2>1, <2>2, EquityType DEF Anchor, Trail
    <2> QED BY <2>1, <2>2, <2>3, <2>4 DEF Covers
  <1> QED BY <1>1, AnchorsInvariant, PTL

\* Two looks at the same books are one.
LEMMA SyncedTwice ==
    ASSUME NEW k \in Int, NEW peak \in Int, NEW B \in Int, NEW P \in Int
    PROVE  LET K == Larger(k, P)
               H == Larger(peak, Larger(B + P, B + K))
           IN Larger(H, Larger(B + P, B + Larger(K, P))) = H
  BY DEF Larger

\* RestartIsExact: a restart on the date of the file that refuses no book
\* measures the drawdown of the moment it was saved.
THEOREM RestartExact == ASSUME AnchorsAssumption PROVE Spec => RestartIsExact
  <1>1. ASSUME IInv, Restart({}), disk.date = day, Placed(disk.place, "parked") = {}
        PROVE  Drawdown(anchor', Placed(place', "in"), open', pnl') = disk.drawdown
    <2> DEFINE S == In(disk.place)
               o == disk.open
               p == disk.pnl
               P == Sum(p, S)
               top == Larger(0, Larger(disk.peakPnl, P))
               high == Larger(Equity(S, o, p), Baseline(S, o) + top)
    <2>1. /\ disk.place \in [Books -> {"in", "parked", "out"}]
          /\ o \in Ledger /\ p \in Ledger
          /\ disk.peakPnl \in Int /\ disk.peakPnl >= 0 /\ day \in Nat
          /\ Worth(disk.place, o, p) /\ SoundFile(day, disk)
      BY <1>1 DEF IInv, TypeOK, Payload, SoundFile
    <2>2. /\ place' = [c \in Books |-> IF c \in S THEN "in" ELSE "out"]
          /\ open' = o /\ pnl' = p
          /\ S # {} => anchor' = [peakPnl |-> top, peak |-> high, date |-> day, bar |-> 0]
      <3>1. Placed(disk.place, "in") \cup Placed(disk.place, "parked") = S
            /\ S \ {} = S
        BY <1>1 DEF In
      <3> QED BY <1>1, <3>1 DEF Restart
    <2>3. S \in SUBSET Books /\ Placed(place', "in") = S
      BY <2>2 DEF In, Placed
    <2>4. CASE S = {}
      <3>1. disk.drawdown = 0
        BY <2>1, <2>4 DEF SoundFile
      <3> QED BY <2>3, <2>4, <3>1 DEF Drawdown
    <2>5. CASE S # {}
      <3> DEFINE B == Baseline(S, o)
      <3>1. \A c \in S : o[c] > 0 /\ o[c] + p[c] > 0
        BY <2>1 DEF Worth, In, Placed
      <3> HIDE DEF S, o, p
      <3>2. /\ P \in Int /\ B \in Int /\ B >= 0 /\ Equity(S, o, p) = B + P /\ B + P > 0
        BY <2>1, <2>3, <2>5, <3>1, Positive, EquityType
      <3>3. disk.drawdown = Larger(disk.peakPnl, P) - P
        BY <1>1, <2>1, <2>5 DEF SoundFile, S, p
      <3> HIDE DEF P, B
      <3>4. top \in Int /\ top >= 0 /\ top >= P /\ top = Larger(disk.peakPnl, P)
        BY <2>1, <3>2 DEF Larger
      <3>5. high = B + top
        BY <3>2, <3>4 DEF Larger, B
      <3>6. high \in Int /\ high >= 0
        BY <3>2, <3>4, <3>5
      <3> HIDE DEF top, high
      <3> DEFINE a == [peakPnl |-> top, peak |-> high, date |-> day, bar |-> 0]
      <3>7. anchor' = a /\ a \in Anchor /\ a.peak = high /\ a.peakPnl = top
        BY <2>1, <2>2, <2>5, <3>4, <3>6 DEF Anchor
      <3> HIDE DEF a
      <3>8. Synced(a, S, o, p).peak = Larger(high, Larger(Equity(S, o, p), Baseline(S, o) + Larger(top, Sum(p, S))))
        BY <2>1, <2>3, <2>5, <3>4, <3>6, <3>7, SyncedFacts
      <3>9. Synced(a, S, o, p).peak = B + top
        <4>1. Larger(top, P) = top
          BY <3>2, <3>4 DEF Larger
        <4>2. Larger(B + top, Larger(B + P, B + top)) = B + top
          BY <3>2, <3>4 DEF Larger
        <4> QED BY <3>2, <3>5, <3>8, <4>1, <4>2 DEF B, P
      <3>10. Drawdown(a, S, o, p) = top - P
        <4>1. Drawdown(a, S, o, p) = Synced(a, S, o, p).peak - Equity(S, o, p)
          BY <2>5 DEF Drawdown
        <4> QED BY <4>1, <3>2, <3>4, <3>9
      <3> QED BY <2>2, <2>3, <3>3, <3>4, <3>7, <3>10
    <2> QED BY <2>4, <2>5
  <1>2. IInv /\ [Next]_vars =>
          [Restart({}) /\ disk.date = day /\ Placed(disk.place, "parked") = {}
             => Drawdown(anchor', Placed(place', "in"), open', pnl') = disk.drawdown]_vars
    BY <1>1
  <1> QED BY <1>2, AnchorsInvariant, PTL DEF Spec, RestartIsExact

\* SpawnIsNeutral: a book spawned beside others, with no date rolling, moves no
\* drawdown: the money it brings in is not trading profit.
THEOREM SpawnNeutral == ASSUME AnchorsAssumption PROVE Spec => SpawnIsNeutral
  <1>1. ASSUME IInv, NEW b \in Books, Spawn(b), Members # {}, anchor.date = day,
               ~BarRolls(anchor, Members, session)
        PROVE  Drawdown(anchor', Placed(place', "in"), open', pnl') = Measured
    <2> DEFINE M == Members
               S == M \cup {b}
               a == FlowIn(anchor, Capital)
               k == anchor.peakPnl
               B == Baseline(M, open)
               P == Sum(pnl, M)
               q == Rolled(a, S, open', pnl', session')
               r == Synced(q, S, open', pnl')
    <2>1. /\ anchor \in Anchor /\ k \in Int /\ k >= 0 /\ anchor.peak \in Int /\ anchor.peak >= 0
          /\ anchor.bar \in Nat
          /\ open \in Ledger /\ pnl \in Ledger /\ session \in [Books -> Nat]
          /\ place \in [Books -> {"in", "parked", "out"}] /\ day \in Nat
          /\ Worth(place, open, pnl)
      BY <1>1 DEF IInv, TypeOK, Sound, Anchor
    <2>2. /\ place[b] = "out" /\ place' = [place EXCEPT ![b] = "in"]
          /\ open' = [open EXCEPT ![b] = Capital] /\ pnl' = [pnl EXCEPT ![b] = 0]
          /\ session' = [session EXCEPT ![b] = 0] /\ UNCHANGED day
          /\ anchor' = r
      BY <1>1 DEF Spawn, Refreshed
    <2>3. Capital \in Int /\ Capital > 0
      BY DEF AnchorsAssumption
    <2>4. /\ open' \in Ledger /\ pnl' \in Ledger /\ session' \in [Books -> Nat]
          /\ open'[b] = Capital /\ pnl'[b] = 0 /\ session'[b] = 0
          /\ \A c \in Books \ {b} : open'[c] = open[c] /\ pnl'[c] = pnl[c] /\ session'[c] = session[c]
      BY <2>1, <2>2, <2>3 DEF Ledger
    <2>5. /\ M \in SUBSET Books /\ S \in SUBSET Books /\ b \notin M
          /\ Placed(place', "in") = S /\ S # {}
      BY <2>1, <2>2 DEF Members, Placed
    <2>6. \A c \in M : open[c] > 0 /\ open[c] + pnl[c] > 0
      BY <2>1 DEF Worth, Members, Placed
    <2>7. \A c \in S : open'[c] > 0 /\ open'[c] + pnl'[c] > 0
      BY <2>3, <2>4, <2>5, <2>6
    <2> HIDE DEF S
    <2>8. Newest(S, session') = Newest(M, session)
      <3>1. session["one"] \in Nat /\ session["other"] \in Nat /\ session'["one"] \in Nat /\ session'["other"] \in Nat
        BY <2>1, <2>4 DEF Books
      <3>2. CASE b = "one"
        BY <3>1, <3>2, <2>4, <2>5 DEF Newest, Larger, Books, S
      <3>3. CASE b = "other"
        BY <3>1, <3>3, <2>4, <2>5 DEF Newest, Larger, Books, S
      <3> QED BY <3>2, <3>3 DEF Books
    <2>9. /\ Sum(open', S) = Sum(open, M) + Capital
          /\ Sum(pnl', S) = P
      <3>1. /\ Sum(open', S) = Sum(open, M) + open'[b]
            /\ Sum(pnl', S) = Sum(pnl, M) + pnl'[b]
        BY <2>1, <2>4, <2>5, SumAdd DEF S
      <3> QED BY <3>1, <2>1, <2>4, <2>5, SumType
    <2>10. /\ B = Sum(open, M) /\ B \in Int /\ B >= 0 /\ P \in Int
           /\ Equity(M, open, pnl) = B + P /\ B + P > 0
      BY <1>1, <2>1, <2>5, <2>6, Positive, EquityType
    <2>11. /\ Baseline(S, open') = Sum(open', S) /\ Sum(open', S) \in Int
           /\ Equity(S, open', pnl') = Sum(open', S) + Sum(pnl', S)
           /\ Equity(S, open', pnl') >= 0
      BY <2>4, <2>5, <2>7, Positive, EquityType
    <2>12. Baseline(S, open') = B + Capital /\ Equity(S, open', pnl') = B + P + Capital
      BY <2>3, <2>9, <2>10, <2>11
    <2>13. /\ a \in Anchor /\ a.date = day /\ a.peakPnl = k /\ a.bar = anchor.bar
           /\ a.peak = IF anchor.peak > 0 THEN anchor.peak + Capital ELSE anchor.peak
      BY <1>1, <2>1, <2>3, FlowFacts
    <2> HIDE DEF a
    <2>14. a.peak >= 0 /\ ~BarRolls(a, S, session')
      BY <1>1, <2>1, <2>3, <2>8, <2>13 DEF BarRolls
    <2>15. q \in Anchor /\ q.peak = a.peak /\ q.peakPnl = k
      BY <2>1, <2>4, <2>5, <2>11, <2>13, <2>14, RolledFacts
    <2> HIDE DEF q
    <2> DEFINE K == Larger(k, P)
               E == B + P
    <2>16. /\ r \in Anchor /\ r.peakPnl = K
           /\ r.peak = Larger(a.peak, Larger(E + Capital, B + Capital + K))
           /\ r.peak >= 0 /\ r.peakPnl >= 0
      <3>1. q.peak >= 0 /\ q.peakPnl >= 0
        BY <2>1, <2>14, <2>15
      <3>2. /\ r \in Anchor /\ r.peak >= 0 /\ r.peakPnl >= 0
            /\ r.peakPnl = Larger(q.peakPnl, Sum(pnl', S))
            /\ r.peak = Larger(q.peak, Larger(Equity(S, open', pnl'),
                                   Baseline(S, open') + Larger(q.peakPnl, Sum(pnl', S))))
        BY ONLY <3>1, <2>4, <2>5, <2>15, SyncedFacts
      <3> QED BY ONLY <3>2, <2>9, <2>12, <2>15
    <2> HIDE DEF r
    <2>17. Synced(r, S, open', pnl').peak = r.peak
      <3>1. Synced(r, S, open', pnl').peak
              = Larger(r.peak, Larger(Equity(S, open', pnl'), Baseline(S, open') + Larger(r.peakPnl, Sum(pnl', S))))
        BY <2>4, <2>5, <2>16, SyncedFacts
      <3>2. a.peak \in Int /\ B + Capital \in Int /\ K \in Int
        <4>1. a.peak \in Int /\ B + Capital \in Int
          BY <2>3, <2>10, <2>13 DEF Anchor
        <4>2. K \in Int
          BY <2>1, <2>10, LargerType
        <4> QED BY <4>1, <4>2
      <3> DEFINE C == B + Capital
      <3>3. Larger(Larger(a.peak, Larger(C + P, C + K)), Larger(C + P, C + Larger(K, P)))
              = Larger(a.peak, Larger(C + P, C + K))
        BY <3>2, <2>10, <2>1, SyncedTwice
      <3>4. E + Capital = C + P /\ B + P + Capital = C + P
        BY <2>3, <2>10
      <3> QED BY <3>1, <3>3, <3>4, <2>9, <2>12, <2>16
    <2>18. Drawdown(anchor', Placed(place', "in"), open', pnl') = r.peak - (E + Capital)
      BY <2>2, <2>5, <2>12, <2>17 DEF Drawdown
    <2>19. Measured = Larger(anchor.peak, Larger(E, B + K)) - E
      <3>1. Synced(anchor, M, open, pnl).peak = Larger(anchor.peak, Larger(Equity(M, open, pnl), B + K))
        BY <1>1, <2>1, <2>5, SyncedFacts
      <3> QED BY <1>1, <2>10, <3>1 DEF Measured, Drawdown
    <2>20. Larger(a.peak, Larger(E + Capital, B + Capital + K)) - (E + Capital)
             = Larger(anchor.peak, Larger(E, B + K)) - E
      <3>1. K \in Int
        BY <2>1, <2>10, LargerType
      <3> HIDE DEF K
      <3> QED BY <2>1, <2>3, <2>10, <2>13, <3>1 DEF Larger
    <2> QED BY <2>16, <2>18, <2>19, <2>20
  <1>2. IInv /\ [Next]_vars =>
          [\A b \in Books :
             Spawn(b) /\ Members # {} /\ anchor.date = day /\ ~BarRolls(anchor, Members, session)
               => Drawdown(anchor', Placed(place', "in"), open', pnl') = Measured]_vars
    BY <1>1
  <1> QED BY <1>2, AnchorsInvariant, PTL DEF Spec, SpawnIsNeutral
=============================================================================
