----------------------------- MODULE MCAlertStore -----------------------------
(* Three types with one process each: three keys, so that a cap of one or   *)
(* two can be full while another key raises; a ring of two entries that     *)
(* three raises overflow; caps of none, one and two alerts.                 *)
EXTENDS AlertStore, TLC

MCPids == {4242}
MCCaps == {0, 1, 2}

\* Types carry no structure: permuting them permutes the behaviours.
Symmetry == Permutations(Types)

=============================================================================
