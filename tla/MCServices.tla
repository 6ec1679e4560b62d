------------------------------ MODULE MCServices ------------------------------
(* The first starts come one after the other: a service that has not been  *)
(* called changes nothing for the others while it starts.  Signals, kills, *)
(* restarts and calls come at any time.                                    *)
EXTENDS Services

StartOrder == <<"auth", "ranking", "market", "trading", "gateway">>
Explored ==
    \A i \in DOMAIN StartOrder :
        /\ starts < i => phase[StartOrder[i]] = "down"
        /\ starts > i /\ i <= 2 => phase[StartOrder[i]] # "connected" \/ starts > 5
=============================================================================
