----------------------------- MODULE MCController -----------------------------
(* Sparing: two processes, critical or under the system's directory, on two *)
(* pids besides that of WTM, enough for a pid with a second holder.         *)
(* Felling: three plain processes on three pids, enough for a child of a    *)
(* child and for a pid that one of them takes meanwhile.  Pausing: one      *)
(* process besides WTM, two thread ids.                                     *)
EXTENDS Controller, TLC

CONSTANTS a, b, c, r1, r2

MCPids == {Self, a, b, c}
Symmetry == Permutations(Pids \ {Self}) \cup Permutations(Tids)

First(ops) == [r \in Requests |-> IF r = r1 THEN ops ELSE {}]

Sparing(pids, ops) ==
  [ops |-> First(ops), confirms |-> BOOLEAN, pids |-> pids, tids |-> {},
   kinds |-> {"critical", "system"}, starts |-> 2]
Felling(pids, ops) ==
  [ops |-> First(ops), confirms |-> {FALSE}, pids |-> pids, tids |-> {},
   kinds |-> {"plain"}, starts |-> 3]
Pausing(pids) ==
  [ops |-> [r \in Requests |-> IF r = r1 THEN {"suspend"} ELSE {"suspend", "resume"}],
   confirms |-> {FALSE}, pids |-> pids, tids |-> Tids, kinds |-> {"plain"}, starts |-> 1]

\* One or two pids besides that of WTM, whichever they are.
One == {{Self, p} : p \in Pids \ {Self}}
Two == {{Self} \cup P : P \in {Q \in SUBSET (Pids \ {Self}) : Cardinality(Q) = 2}}

MCScenes ==
  {Sparing(P, {"kill", "tree"}) : P \in Two}
  \cup {Sparing(P, {"limit", "tune", "kill"}) : P \in Two}
  \cup {Felling(Pids, {"kill", "tree"})}
  \cup {Pausing(P) : P \in One}
MCKills == {Sparing({Self, a, b}, {"kill", "tree"})}
MCTrees == {Felling({Self, a, b}, {"tree"})}
MCPauses == {Pausing({Self, a})}
=============================================================================
