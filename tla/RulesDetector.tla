----------------------------- MODULE RulesDetector -----------------------------
(***************************************************************************)
(* The user rules of internal/anomaly/rules.go, evaluated on every tick of *)
(* the anomaly engine, composed with the alert store they raise into.      *)
(*                                                                         *)
(* A tick works on what analyzeOnce captured when it began: the time, the  *)
(* snapshot and the config.  The snapshot is reduced to what a rule sees   *)
(* of a process: it is over the threshold ("hit"), below it ("miss"), or   *)
(* the rule does not see it at all ("unseen": the process is gone, its     *)
(* name does not match, it is ignored).  The detector's mutex is held for  *)
(* the whole tick, but the alert store and the config are shared with the  *)
(* HTTP handlers, which take steps between those of the tick.              *)
(*                                                                         *)
(* States and alerts are kept by the rule's name.  The endpoint for rules  *)
(* refuses a list that has a name twice; Load and Validate do not, so the  *)
(* rules of a file may share them.                                         *)
(***************************************************************************)
EXTENDS Integers, FiniteSets, Sequences

CONSTANTS
  Rules,      \* the rules that lists have
  Name,       \* the name of each
  Place,      \* the place of each in a list
  Pids,       \* process ids
  Action,     \* the action of each rule
  For,        \* how long each rule must match before it fires
  Cooldown,   \* the least time between two actions of a rule on a process
  Caps, MaxHistory, MaxTime, MaxRaises  \* of the alert store

ASSUME RulesAssumption ==
  /\ DOMAIN Name = Rules
  /\ Place \in [Rules -> Nat]
  /\ Action \in [Rules -> {"alert", "kill", "suspend"}]
  /\ For \in [Rules -> Nat]
  /\ Cooldown \in [Rules -> Nat \ {0}]   \* Analyze: <= 0 means a minute

VARIABLES
  active, history, snoozed, maxActive, nextID, now, event,  \* AlertStore
  rules,    \* cfg.Rules: whether each rule is in the list, and enabled
  states,   \* RulesDetector.states: a state or NoState for each key
  pc,       \* the engine: "idle", or evaluating the pairs of a "tick"
  tick,     \* the tick under way or, when idle, the last one
  streak,   \* ghost: the tick since which each pair has been hit, or Never
  lastDone, \* ghost: the tick of the last successful action on each pair
  emptyAt   \* ghost: the last tick that found the rule list empty

Names == {Name[r] : r \in Rules}

Store == INSTANCE AlertStore
  WITH Types <- Names, Severities <- {"warning", "critical"}

storeVars == <<active, history, snoozed, maxActive, nextID, now, event>>
ghosts == <<streak, lastDone, emptyAt>>
vars == <<storeVars, rules, states, pc, tick, ghosts>>

\* What a tick evaluates, and where its state and its alert are kept.
Pairs == Rules \X Pids
Keys == Names \X Pids
Key(q) == <<Name[q[1]], q[2]>>

\* No other rule has the name of the pair's.
Alone(q) == \A r \in Rules : Name[r] = Name[q[1]] => r = q[1]
Never == -1
NoState == [since |-> Never]

\* A step that leaves the alert store alone emits nothing.
Quiet == /\ event' = Store!NoEvent
         /\ UNCHANGED <<active, history, snoozed, maxActive, nextID, now>>

InList(rs) == {r \in Rules : rs[r] # "absent"}

\* The pairs a tick marks live: an enabled rule that sees the process.
Live(t) == {q \in Pairs : t.rules[q[1]] = "enabled" /\ t.sees[q] # "unseen"}

-----------------------------------------------------------------------------
(* Mutants of the operations below, used by the sensitivity checks only.   *)

\* A wait measured to the end of the tick's second.
WaitedShort(q) ==
  LET since == IF states[Key(q)] # NoState THEN states[Key(q)].since ELSE tick.now
  IN  tick.now + 1 - since >= For[q[1]]

\* A miss that forgets the state but leaves the alert.
ForgetQuietly(q) ==
  /\ states' = [states EXCEPT ![Key(q)] = NoState]
  /\ Quiet

\* An action that leaves no trace in the state.
NoteNothing(q) == UNCHANGED states

\* No collection of the states whose pair is gone.
CollectNothing == states

-----------------------------------------------------------------------------
(* RulesDetector                                                           *)

Init ==
  /\ Store!Init
  /\ rules \in [Rules -> {"absent", "disabled", "enabled"}]
  /\ states = [k \in Keys |-> NoState]
  /\ pc = "idle"
  /\ tick = [now |-> Never,
             rules |-> [r \in Rules |-> "absent"],
             sees |-> [q \in Pairs |-> "unseen"],
             todo |-> {}, acting |-> {}]
  /\ streak = [q \in Pairs |-> Never]
  /\ lastDone = [q \in Pairs |-> Never]
  /\ emptyAt = Never

\* Analyze leaves at once when the rule list is empty: no state is touched.
SkipTick ==
  /\ pc = "idle"
  /\ tick.now < now
  /\ InList(rules) = {}
  /\ tick' = [tick EXCEPT !.now = now]
  /\ emptyAt' = now
  /\ Quiet /\ UNCHANGED <<rules, states, pc, streak, lastDone>>

\* analyzeOnce captures the time, the latest snapshot and the config.
StartTick ==
  /\ pc = "idle"
  /\ tick.now < now
  /\ InList(rules) # {}
  /\ pc' = "tick"
  /\ \E sees \in [Pairs -> {"hit", "miss", "unseen"}] :
       tick' = [now |-> now, rules |-> rules, sees |-> sees,
                todo |-> Live([rules |-> rules, sees |-> sees]), acting |-> {}]
  /\ streak' = [q \in Pairs |->
       IF q \in Live(tick)' /\ tick'.sees[q] = "hit"
       THEN IF streak[q] = Never THEN now ELSE streak[q]
       ELSE Never]
  /\ Quiet /\ UNCHANGED <<rules, states, lastDone, emptyAt>>

\* Analyze's loops have come to a pair; they visit each live pair once, the rules
\* in the order of the list and the processes in any.
Evaluating(q, seen) ==
  /\ pc = "tick"
  /\ tick.acting = {}
  /\ q \in tick.todo
  /\ \A other \in tick.todo : Place[q[1]] <= Place[other[1]]
  /\ tick.sees[q] = seen

Done(q) == tick' = [tick EXCEPT !.todo = @ \ {q}, !.acting = {}]

\* The state for a pair that misses goes and its alert is cleared.
ForgetAndClear(q) ==
  /\ states' = [states EXCEPT ![Key(q)] = NoState]
  /\ Store!ClearAlert(Key(q))

Miss(q) ==
  /\ Evaluating(q, "miss")
  /\ ForgetAndClear(q)
  /\ Done(q)
  /\ UNCHANGED <<rules, pc, ghosts>>

\* The state for a pair that hits: the one its key has or one that starts now.
State(q) ==
  IF states[Key(q)] # NoState THEN states[Key(q)]
  ELSE [since |-> tick.now, last |-> Never]

\* The condition has held for the rule's For.
Waited(q) == tick.now - State(q).since >= For[q[1]]

\* No successful action yet, or the last one is a cooldown ago.
Cooled(q) ==
  LET last == State(q).last
  IN  last = Never \/ tick.now - last >= Cooldown[q[1]]

Hit(q) ==
  /\ Evaluating(q, "hit")
  /\ states' = [states EXCEPT ![Key(q)] = State(q)]
  /\ UNCHANGED <<rules, pc, ghosts>>

Wait(q) ==
  /\ Hit(q)
  /\ ~Waited(q)
  /\ Done(q)
  /\ Quiet

\* raiseRuleAlert
Severity(r) == IF Action[r] = "alert" THEN "warning" ELSE "critical"

\* The alert comes first; the actuator is called next, if the rule acts and is
\* not cooling down.
Fire(q) ==
  /\ Hit(q)
  /\ Waited(q)
  /\ Store!RaiseAlert(Key(q), Severity(q[1]))
  /\ IF Action[q[1]] # "alert" /\ Cooled(q)
     THEN tick' = [tick EXCEPT !.acting = {q}]
     ELSE Done(q)

NoteAction(q) == states' = [states EXCEPT ![Key(q)].last = tick.now]

\* Actuator.Kill or Suspend succeeds.
Act(q) ==
  /\ q \in tick.acting
  /\ NoteAction(q)
  /\ lastDone' = [lastDone EXCEPT ![q] = tick.now]
  /\ Done(q)
  /\ Quiet /\ UNCHANGED <<rules, pc, streak, emptyAt>>

\* It fails: the next tick tries again.
ActFails(q) ==
  /\ q \in tick.acting
  /\ Done(q)
  /\ Quiet /\ UNCHANGED <<rules, states, pc, ghosts>>

\* The collection that ends a tick.
Collected ==
  [k \in Keys |-> IF \E q \in Live(tick) : Key(q) = k THEN states[k] ELSE NoState]

FinishTick ==
  /\ pc = "tick"
  /\ tick.todo = {}
  /\ states' = Collected
  /\ pc' = "idle"
  /\ Quiet /\ UNCHANGED <<rules, tick, ghosts>>

-----------------------------------------------------------------------------
(* The other goroutines                                                    *)

Others == UNCHANGED <<rules, states, pc, tick, ghosts>>

\* handleRulesUpdate or a reload of the file replaces the list.  A tick under
\* way works on its own copy, so the change waits for the end of the tick.
SetRule(r) ==
  /\ pc = "idle"
  /\ \E s \in {"absent", "disabled", "enabled"} \ {rules[r]} :
       rules' = [rules EXCEPT ![r] = s]
  /\ Quiet /\ UNCHANGED <<states, pc, tick, ghosts>>

Dismiss(k) == Store!IsActive(k) /\ Store!Dismiss(k) /\ Others
Advance == Store!Tick /\ Others

Next ==
  \/ SkipTick
  \/ StartTick
  \/ \E q \in Pairs : Miss(q) \/ Wait(q) \/ Fire(q) \/ Act(q) \/ ActFails(q)
  \/ FinishTick
  \/ \E r \in Rules : SetRule(r)
  \/ \E k \in Keys : Dismiss(k)
  \/ Advance

Spec == Init /\ [][Next]_vars

-----------------------------------------------------------------------------
(* Properties                                                              *)

Time == {Never} \cup 0..MaxTime

TypeOK ==
  /\ Store!TypeOK
  /\ rules \in [Rules -> {"absent", "disabled", "enabled"}]
  /\ states \in [Keys -> {NoState} \cup [since : 0..MaxTime, last : Time]]
  /\ pc \in {"idle", "tick"}
  /\ tick \in [now : Time,
               rules : [Rules -> {"absent", "disabled", "enabled"}],
               sees : [Pairs -> {"hit", "miss", "unseen"}],
               todo : SUBSET Pairs, acting : SUBSET Pairs]
  /\ tick.acting \subseteq tick.todo
  /\ Cardinality(tick.acting) <= 1
  /\ streak \in [Pairs -> Time]
  /\ lastDone \in [Pairs -> Time]
  /\ emptyAt \in Time

\* Every tick that looked at rules, over the last For, found the rule enabled and
\* the process over the threshold.
Satisfied(q) == streak[q] # Never /\ tick.now - streak[q] >= For[q[1]]

\* A rule acts on a process only when it has been satisfied for its For.
WaitsOutFor == \A q \in tick.acting : Alone(q) => Satisfied(q)

\* While the condition keeps holding, successful actions on the same process
\* are a cooldown apart, however many attempts fail in between.
CooldownInStreak ==
  \A q \in tick.acting :
    Alone(q) /\ lastDone[q] >= streak[q] => tick.now - lastDone[q] >= Cooldown[q[1]]

\* After a tick, no process it found below the threshold has the rule's alert,
\* whatever the other goroutines did to the store in the meantime.
MissClears ==
  pc = "idle" =>
    \A q \in Live(tick) : Alone(q) /\ tick.sees[q] = "miss" => ~Store!IsActive(Key(q))

\* After a tick the detector remembers only what the tick saw hit: states do not
\* pile up as processes come and go or rules are switched off, and a rule that
\* is alone with its name has one while it hits.
StatesAreLive ==
  pc = "idle" /\ InList(tick.rules) # {} =>
    LET Hits == {q \in Live(tick) : tick.sees[q] = "hit"}
    IN /\ \A k \in Keys : states[k] # NoState => \E q \in Hits : Key(q) = k
       /\ \A q \in Hits : Alone(q) => states[Key(q)] # NoState

\* "ruleState tracks how long a (rule, pid) pair has been matching": each rule of
\* a file waits for its own For.
EachRuleWaits == \A q \in tick.acting : Satisfied(q)

\* "Each (rule,pid) respects a cooldown so a flapping process doesn't get
\* killed in a loop": two successful actions on a pair are a cooldown apart.
CooldownRespected ==
  \A q \in tick.acting :
    lastDone[q] # Never => tick.now - lastDone[q] >= Cooldown[q[1]]

\* "when a rule has been satisfied for at least `for` seconds, fires the
\* configured action": the wait does not count ticks at which there was no rule
\* to satisfy.
SatisfiedThroughout ==
  \A q \in tick.acting :
    For[q[1]] > 0 /\ emptyAt > streak[q] => tick.now - emptyAt > For[q[1]]

=============================================================================
