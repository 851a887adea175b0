------------------------------- MODULE MCVanet -------------------------------
(* Two neighbours, one that is believed and one that is not, two packet    *)
(* ids, and datagrams on the way for as long as the ids last.  Records     *)
(* outlive the ids, as in the code (200 and 60 periods).  Memory that      *)
(* nothing was written to has the id of a heartbeat where last_hb_id goes, *)
(* or one that no heartbeat has.                                           *)
EXTENDS Vanet

Unwritten == [ip : Elsewhere, last_hb_id : {0, 255}, self_trust : {0},
              computed_trust : {0}, used_neighbors_cnt : {0}, used : {{}},
              timeout : {DEVICE_TIMEOUT}]
=============================================================================
