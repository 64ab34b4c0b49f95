------------------------------ MODULE MCBisect ------------------------------
(* The instance of Bisect in which the rules change along the timeline. *)
EXTENDS Bisect
=============================================================================
