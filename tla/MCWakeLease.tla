---------------------------- MODULE MCWakeLease ----------------------------
(* One sleeper and two sweeps at a time; content for the sleeper, and lane bookkeeping. *)
EXTENDS WakeLease

CONSTANTS s1, t1, t2

ForSleeperOrNobody == {{}, {s1}}
=============================================================================
