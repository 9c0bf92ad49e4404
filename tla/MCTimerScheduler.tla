--------------------------- MODULE MCTimerScheduler ---------------------------
(* Model values for TimerScheduler. *)
EXTENDS TimerScheduler, TLC

CallSymmetry == Permutations(Calls)
==============================================================================
