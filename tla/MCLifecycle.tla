------------------------------ MODULE MCLifecycle ------------------------------
(* Starts with and without tray and window where anything may fail; two     *)
(* alerts, or other events, that meet two slots and a browser; two alerts    *)
(* that meet in the tray, over more time than must be between two balloons.  *)
EXTENDS Lifecycle

CONSTANTS engine, collector, browser

Start(t, d) ==
  [tray |-> t, desktop |-> d, trouble |-> TRUE, stops |-> TRUE,
   events |-> 0, time |-> 0, streams |-> FALSE]
Quiet == [Start(TRUE, FALSE) EXCEPT !.trouble = FALSE, !.stops = FALSE, !.events = 2]
MCScenes == {Start(t, d) : t, d \in BOOLEAN} \cup
  {[Quiet EXCEPT !.streams = TRUE], [Quiet EXCEPT !.time = 3]}
=============================================================================
