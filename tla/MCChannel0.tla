----------------------------- MODULE MCChannel0 -----------------------------
(***************************************************************************)
(* Instances of Channel0 for TLC: intervals in ticks, limits as numbers.   *)
(***************************************************************************)
EXTENDS Channel0

HeartbeatsAsked == {None, 2}
HeartbeatsOffered == {0, 1}
LimitsAsked == {0, 3}
LimitsOffered == {2}
=============================================================================
