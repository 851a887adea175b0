--------------------------- MODULE MCDeviceTable ---------------------------
(* Three devices with two packet ids each and a table of two places, so    *)
(* that it fills up.  Memory that nothing was written to has the id of a   *)
(* heartbeat where last_hb_id goes, or one that no heartbeat has.          *)
EXTENDS DeviceTable, TLC

Unwritten == [ip : Elsewhere, last_hb_id : {0, 255}, self_trust : {0},
              computed_trust : {0}, used_neighbors_cnt : {0}, used : {{}},
              timeout : {DEVICE_TIMEOUT}]

Symmetry == Permutations(Nodes)
=============================================================================
