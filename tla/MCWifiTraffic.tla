---------------------------- MODULE MCWifiTraffic ----------------------------
(* Datagrams sent twice each, up to three requests unhandled, a queue of   *)
(* three places and two kinds of datagrams.  malloc() has left no datagram *)
(* in the places of the queue.                                             *)
EXTENDS WifiTraffic

MCInit == Init /\ arr = [i \in Index |-> NULL]

MCSpec == MCInit /\ [][Next]_vars /\ Fairness
=============================================================================
