---------------------------- MODULE MCEntryGates ----------------------------
(* Instances of EntryGates.                                                 *)
EXTENDS EntryGates

Config(c, i, t, e) ==
    [cooldown |-> c, intraday |-> i, ticks |-> t, entries |-> e]
Four == {Config(0, TRUE, TRUE, 2), Config(1, FALSE, TRUE, 1),
         Config(0, FALSE, FALSE, 2), Config(1, TRUE, FALSE, 2)}
Daily     == {Config(0, FALSE, FALSE, 1)}
Carrying  == {Config(0, FALSE, TRUE, 1)}
Intraday  == {Config(0, TRUE, TRUE, 2)}
Cooling   == {Config(1, TRUE, TRUE, 2)}
=============================================================================
