----------------------------- MODULE MCRawCache -----------------------------
(* The instance of RawCache: two tiles on one ray.                         *)
EXTENDS RawCache
=============================================================================
