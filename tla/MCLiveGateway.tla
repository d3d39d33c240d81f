---------------------------- MODULE MCLiveGateway ----------------------------
(* Instances of LiveGateway.  Prices are two apart and orders at most three *)
(* units, so an average price is a whole number wherever one is compared.   *)
EXTENDS LiveGateway

NoAmends  == {}
Amended   == {1, 3}
Enlarged  == {3}
OnePrice  == {2}
TwoPrices == {2, 4}
=============================================================================
