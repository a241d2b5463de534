------------------------------- MODULE MCSettings -------------------------------
(* Files of an older schema with a user's tuning, without a schema, with     *)
(* values below the limits, with rules no page would accept, one that does   *)
(* not parse, one that Validate refuses after its migration, and no file.    *)
EXTENDS Settings, TLC

CONSTANTS s1, s2, auth

MCLower == [n \in {"System", "SYSTEM", "game"} |-> IF n = "game" THEN "game" ELSE "system"]
MCTrim == [n \in {"a", "a ", "b", " "} |-> IF n = "a " THEN "a" ELSE IF n = " " THEN "" ELSE n]
MCDefault ==
  [schema |-> 3, tuning |-> "default", ignore |-> <<"System">>, ports |-> {80},
   interval |-> 1, ttl |-> 3, maxTokens |-> 3, reserved |-> 4, types |-> {"cpu"},
   key |-> Blank, headers |-> <<>>, token |-> Blank, rules |-> <<>>]
MCBroken == [parsed |-> FALSE]
MCMissing == [exists |-> FALSE]
MCDocuments == {
  [schema |-> 2, tuning |-> "own", ignore |-> <<"SYSTEM", "game">>, key |-> s1],
  [tuning |-> "own", ignore |-> <<>>, ports |-> {90}, headers |-> (auth :> s1)],
  [schema |-> 3, ttl |-> 0, maxTokens |-> 1, reserved |-> 1, types |-> {}, token |-> s1],
  [rules |-> <<[name |-> "a", ms |-> 1500, coolMs |-> 2500],
               [name |-> "a", ms |-> 9000, coolMs |-> -1500]>>],
  [schema |-> 2, interval |-> 0], Broken, Missing}
Rule(n, f, c) == [name |-> n, for |-> f, cool |-> c]
MCRuleLists == {<<Rule("a", 1, 0), Rule("a ", 0, 0)>>, <<Rule("a ", 2, -1), Rule("b", 0, 7)>>,
                <<Rule("b", 6, 0)>>, <<Rule("b", 5, 9)>>, <<Rule(" ", 0, 0)>>}
=============================================================================
