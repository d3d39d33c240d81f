---------------------------- MODULE IntentJournal ----------------------------
(* The append-only journal of option decisions                              *)
(* (src/backtest/options/intent_journal.py), as operators on a value: a set *)
(* of rows.  A keyed row carries the unique dedupe key (intent, kind, leg), *)
(* so a second append of the same event is absorbed, whichever writer wins  *)
(* the race; an unkeyed row (dedupe=False) never collides.                  *)
EXTENDS Naturals

NoLeg   == 0      \* leg_index=None
NoOrder == 0      \* broker_order_id=None

\* The kinds the live trader and the bridge write.
Kinds == {"DECIDED", "SUBMITTED", "FILLED", "REJECTED", "UNCERTAIN",
          "RECONCILED", "HALTED"}

Row(intent, kind, leg, order) ==
    [intent |-> intent, kind |-> kind, leg |-> leg, order |-> order,
     keyed |-> TRUE]

UnkeyedRow(intent, kind, leg, order) ==
    [Row(intent, kind, leg, order) EXCEPT !.keyed = FALSE]

SameKey(r, s) == /\ r.keyed /\ s.keyed
                 /\ r.intent = s.intent /\ r.kind = s.kind /\ r.leg = s.leg

\* append: a row whose key is taken is a no-op, the first one is the record.
Record(journal, row) ==
    IF \E r \in journal : SameKey(r, row) THEN journal ELSE journal \cup {row}

Tickets(journal, intent, leg) ==
    {r \in journal : r.intent = intent /\ r.kind = "SUBMITTED" /\ r.leg = leg}

\* order_id_for: the broker id already recorded for this leg, if any.
OrderIdFor(journal, intent, leg) ==
    IF Tickets(journal, intent, leg) = {} THEN NoOrder
    ELSE (CHOOSE r \in Tickets(journal, intent, leg) : TRUE).order
=============================================================================
