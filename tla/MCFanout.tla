------------------------------ MODULE MCFanout ------------------------------
(***************************************************************************)
(* Fanout under a schedule whose judges are all highest_priority.          *)
(***************************************************************************)
EXTENDS Fanout
INSTANCE MCOutcomes
=============================================================================
