---------------------------- MODULE MCAlertStream ----------------------------
(* Three alerts, the second stored possibly older than the first.  Their   *)
(* numbers may repeat and may fall from one alert of a thread to the next. *)
EXTENDS AlertStream, TLC
CONSTANTS a1, a2, a3
MCTime == (a1 :> 1) @@ (a2 :> 1) @@ (a3 :> 2)
MCNumbers == (a1 :> {1, 2}) @@ (a2 :> {2}) @@ (a3 :> {1, 3})
=============================================================================
