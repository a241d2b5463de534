------------------------------ MODULE MCCollector ------------------------------
(* Scenes.  "usage": two pids, used again by other processes, that work,     *)
(* exit and deny access, more than a snapshot holds.  "network": an adapter  *)
(* and its table.  "tree": two pids that are each other's parents.  "history":   *)
(* one pid that comes and goes for longer than histories are kept.  "loops": *)
(* tree and ports updated between the steps of a sample.  "query".           *)
EXTENDS Collector

CONSTANTS wifi, http, disk, gpu

Plain == [pids |-> {}, does |-> {"prune"}, max |-> 2, time |-> 0, uses |-> 2, samples |-> 3]
MCScenes == {
  [Plain EXCEPT !.pids = {1, 2}, !.does = {"work", "prune"}, !.max = 1, !.time = 1, !.samples = 2],
  [Plain EXCEPT !.pids = {1}, !.does = {"work", "deny", "prune"}, !.time = 2, !.uses = 3],
  [Plain EXCEPT !.does = {"transfer", "prune"}, !.time = 4, !.uses = 3],
  [Plain EXCEPT !.pids = {1, 2}, !.does = {"tree"}, !.time = 3, !.uses = 3, !.samples = 1],
  [Plain EXCEPT !.pids = {1}, !.time = 5, !.samples = 4],
  [Plain EXCEPT !.pids = {1}, !.does = {"tree", "scan"}, !.time = 1, !.samples = 2],
  [Plain EXCEPT !.does = {"query", "prune"}]}
MCWeight == [p \in {1, 2} |-> p]
=============================================================================
