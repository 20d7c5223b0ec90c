------------------------------ MODULE MCTimers ------------------------------
(* Timers for TLC: three objects that want timers of different lengths, the *)
(* longest one not longer than the thread sleeps, in two slots.             *)
EXTENDS Timers, TLC

CONSTANTS a, o, p

MCInterval == a :> 2 @@ o :> 1 @@ p :> 3
=============================================================================
