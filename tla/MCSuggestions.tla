----------------------------- MODULE MCSuggestions -----------------------------
(* Two requests and four scenes.  "rate": calls and changes of the limit     *)
(* over two minutes.  "chat": four exchanges, out of the cache or at the     *)
(* same time, into a history of two.  "offer": answers that kill or add a    *)
(* rule, two of the same id but another metric, in one answer or in two,     *)
(* taken up while they are good and after.  "lists": a rule and a name of a  *)
(* list are added while the user switches that name.                         *)
EXTENDS Suggestions

CONSTANTS r1, r2, ask

Kill == [id |-> "k", type |-> "kill", arg |-> "pid"]
Cpu == [id |-> "r", type |-> "add_rule", arg |-> "cpu"]
Mem == [id |-> "r", type |-> "add_rule", arg |-> "mem"]
Hide == [id |-> "i", type |-> "ignore", arg |-> "pid"]
MCIssued == {Kill, Cpu, Mem, Hide}
MCAnswers == {<<Kill, Cpu, Mem>>, <<Cpu>>, <<Cpu, Hide>>, <<>>}
MCRuleName == [x \in {"pid", "cpu", "mem"} |-> "rule"]

Plain == [limits |-> {2}, answers |-> {<<>>}, chats |-> {FALSE}, switched |-> {}, time |-> 0]
MCScenes == {
  [Plain EXCEPT !.limits = {1, 2}, !.time = 5],
  [Plain EXCEPT !.chats = {TRUE}, !.time = 2],
  [Plain EXCEPT !.answers = {<<Kill, Cpu, Mem>>, <<Cpu>>}, !.time = 3],
  [Plain EXCEPT !.answers = {<<Cpu, Hide>>}, !.switched = {"pid"}, !.time = 1]}
=============================================================================
