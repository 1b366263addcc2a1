----------------------------- MODULE MCMatchers -----------------------------
(***************************************************************************)
(* Matchers for TLC.  Three names and three slots are enough for a         *)
(* placeholder to be bound, met again with the same name and met again     *)
(* with another one, around a slot of another placeholder.                 *)
(***************************************************************************)
EXTENDS Matchers
=============================================================================
