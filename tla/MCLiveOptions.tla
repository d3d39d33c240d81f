---------------------------- MODULE MCLiveOptions ----------------------------
(* Instances of LiveOptions: one leg, a hedged spread, a same-side pair.    *)
EXTENDS LiveOptions

OneLeg   == {1}
TwoLegs  == {1, 2}
Single   == <<"BUY">>
Spread   == <<"SELL", "BUY">>
FourLegs == {1, 2, 3, 4}
Condor   == <<"SELL", "BUY", "SELL", "BUY">>
FourOnes == [l \in FourLegs |-> 1]
Straddle == <<"BUY", "BUY">>
Ones     == [l \in TwoLegs |-> 1]
Twos     == [l \in TwoLegs |-> 2]
OneLot   == <<1>>
TwoLots  == <<2>>
=============================================================================
