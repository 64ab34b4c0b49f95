---------------------------- MODULE MCRetention ----------------------------
(* A small instance of the retention policy for TLC. *)
EXTENDS RetentionTimeline
=============================================================================
