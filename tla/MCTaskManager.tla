--------------------------- MODULE MCTaskManager ---------------------------
(* The event byte with both modules compiled in.                           *)
EXTENDS TaskManager
=============================================================================
