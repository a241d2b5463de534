---------------------------- MODULE MCRulesDetector ----------------------------
(* Two rules on one process: one that kills after matching for a time unit, *)
(* one that suspends at once; four ticks, enough for an action, a cooldown  *)
(* and another action; a cap of one alert, so one rule may find the store   *)
(* full.  MaxRaises is never reached: two raises a tick at most.            *)
EXTENDS RulesDetector, TLC

CONSTANTS hog, greedy

MCName == (hog :> "hog") @@ (greedy :> "greedy")
MCSharedName == (hog :> "hog") @@ (greedy :> "hog")
MCPlace == (greedy :> 1) @@ (hog :> 2)
MCAction == (hog :> "kill") @@ (greedy :> "suspend")
MCFor == (hog :> 1) @@ (greedy :> 0)
MCCooldown == (hog :> 2) @@ (greedy :> 3)
MCPids == {4242}
MCCaps == {1}

=============================================================================
