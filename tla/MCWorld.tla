------------------------------ MODULE MCWorld -------------------------------
(* The instances of World.                                                 *)
EXTENDS World
=============================================================================
