---------------------------- MODULE MCWorkQueue -----------------------------
(* Model checking of WorkQueue: two resource types and three keys, enough   *)
(* for a key to wait behind another one, to be added while it is processed  *)
(* and for one queue to be created after the others were shut down.         *)
EXTENDS WorkQueue
=============================================================================
