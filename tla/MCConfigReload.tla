----------------------------- MODULE MCConfigReload -----------------------------
(* Two requests, two saves and one edit by hand: enough for two saves to     *)
(* meet, and for an edit to fall into a save or into a reload.               *)
EXTENDS ConfigReload, TLC

\* The engine, and a component set between it and the purge.
MCTargets == <<"engine", "telegram">>

\* Requests carry no identity: permuting them permutes the behaviours.
Symmetry == Permutations(Handlers)
=============================================================================
