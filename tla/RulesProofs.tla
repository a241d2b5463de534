------------------------------- MODULE RulesProofs -------------------------------
(***************************************************************************)
(* What the user rules keep to for any rules, names, waits and cooldowns,  *)
(* whatever dismissals and changes of the rule list fall between the steps *)
(* of a tick.                                                              *)
(***************************************************************************)
EXTENDS RulesDetector, TLAPS

Marks == {"absent", "disabled", "enabled"}
Remembered == [since : Nat, last : {Never} \cup Nat]

\* The rule holds for the process in the tick.
Hot(q) == q \in Live(tick) /\ tick.sees[q] = "hit"

Typing ==
  /\ now \in Nat
  /\ rules \in [Rules -> Marks]
  /\ states \in [Keys -> {NoState} \cup Remembered]
  /\ pc \in {"idle", "tick"} /\ (pc = "tick" => tick.now # Never)
  /\ tick \in [now : {Never} \cup Nat, rules : [Rules -> Marks],
               sees : [Pairs -> {"hit", "miss", "unseen"}],
               todo : SUBSET Pairs, acting : SUBSET Pairs]
  /\ tick.now <= now
  /\ streak \in [Pairs -> {Never} \cup Nat]
  /\ lastDone \in [Pairs -> {Never} \cup Nat]
  /\ DOMAIN active = Keys
  /\ tick.acting \subseteq tick.todo
  /\ tick.todo \subseteq Live(tick)
  /\ pc = "idle" => tick.todo = {}

\* What the detector remembers of a pair that is alone with its name, against what
\* has happened to it.
Tied(q) ==
  Alone(q) =>
    /\ streak[q] # Never <=> Hot(q)
    /\ lastDone[q] <= tick.now /\ streak[q] <= tick.now
    /\ pc = "idle" \/ q \in Live(tick) \ tick.todo => (states[Key(q)] # NoState <=> Hot(q))
    /\ Hot(q) /\ states[Key(q)] # NoState =>
         /\ streak[q] <= states[Key(q)].since /\ states[Key(q)].since <= tick.now
         /\ lastDone[q] >= streak[q] => states[Key(q)].last = lastDone[q]
    /\ Hot(q) /\ states[Key(q)] = NoState => lastDone[q] < streak[q]
    /\ q \in tick.acting => Hot(q) /\ Waited(q) /\ Cooled(q)

\* No alert is left of a pair that was found below the threshold.
Cleared ==
  \A q \in Live(tick) \ tick.todo :
    Alone(q) /\ tick.sees[q] = "miss" => ~Store!IsActive(Key(q))

\* An action is on a pair that hits, with a state.
Acting ==
  \A q \in tick.acting : pc = "tick" /\ tick.sees[q] = "hit" /\ states[Key(q)] # NoState

\* The state of a key has a pair that hits, or one that is still to come, or else
\* it waits for the collection.
Held(k) ==
  states[k] # NoState =>
    \/ \E q \in Live(tick) : Key(q) = k /\ (q \in tick.todo \/ tick.sees[q] = "hit")
    \/ pc = "tick" /\ \A q \in Live(tick) : Key(q) # k

Inv ==
  /\ Typing /\ Cleared /\ Acting
  /\ \A q \in Pairs : Tied(q)
  /\ \A k \in Keys : Held(k)

LEMMA KeysOfPairs ==
  /\ \A q \in Pairs : Key(q) \in Keys
  /\ \A q, r \in Pairs : Alone(r) /\ Key(q) = Key(r) => q = r
BY DEF Pairs, Key, Keys, Names, Alone

LEMMA InvInit == Init => Inv
<1> SUFFICES ASSUME Init PROVE Inv
  OBVIOUS
<1>1. /\ tick = [now |-> Never, rules |-> [r \in Rules |-> "absent"],
                 sees |-> [q \in Pairs |-> "unseen"], todo |-> {}, acting |-> {}]
      /\ now = 0 /\ active = [k \in Keys |-> Store!NotActive]
      /\ states = [k \in Keys |-> NoState] /\ pc = "idle"
  BY DEF Init, Store!Init, Store!Keys, Keys
<1>2. Live(tick) = {}
  BY <1>1 DEF Live, Pairs
<1>3. Typing
  BY <1>1, <1>2 DEF Init, Typing, Marks, Never
<1>4. \A q \in Pairs : Tied(q)
  <2> SUFFICES ASSUME NEW q \in Pairs PROVE Tied(q)
    OBVIOUS
  <2>1. ~Hot(q) /\ states[Key(q)] = NoState /\ streak[q] = Never /\ lastDone[q] = Never
    BY <1>1, <1>2, KeysOfPairs DEF Init, Hot
  <2>2. QED
    BY <1>1, <1>2, <2>1 DEF Tied, Never
<1>5. QED
  BY <1>1, <1>2, <1>3, <1>4 DEF Inv, Cleared, Acting, Held

\* A raise touches the alert of its own key only.
LEMMA RaiseKeeps ==
  ASSUME NEW k \in Keys, NEW sev, DOMAIN active = Keys, Store!RaiseAlert(k, sev)
  PROVE  /\ DOMAIN active' = Keys /\ now' = now
         /\ \A other \in Keys \ {k} : active'[other] = active[other]
BY DEF Store!RaiseAlert, Store!Raise, Store!Refresh, Store!Record, Store!storeVars

LEMMA ClearKeeps ==
  ASSUME NEW k \in Keys, DOMAIN active = Keys, Store!ClearByKey(k)
  PROVE  /\ DOMAIN active' = Keys /\ ~Store!IsActive(k)'
         /\ \A other \in Keys \ {k} : active'[other] = active[other]
BY DEF Store!ClearByKey, Store!IsActive

\* A pair that a step leaves alone stays as it was.
LEMMA Untouched ==
  ASSUME NEW r \in Pairs, Tied(r), UNCHANGED <<streak, pc>>,
         tick'.now = tick.now, tick'.rules = tick.rules, tick'.sees = tick.sees,
         states'[Key(r)] = states[Key(r)], lastDone'[r] = lastDone[r],
         r \in tick'.todo <=> r \in tick.todo, r \in tick'.acting => r \in tick.acting
  PROVE  Tied(r)'
<1>1. Live(tick)' = Live(tick)
  BY DEF Live
<1>2. Hot(r)' = Hot(r)
  BY <1>1 DEF Hot
<1>3. Waited(r)' = Waited(r) /\ Cooled(r)' = Cooled(r)
  BY DEF Waited, Cooled, State
<1>4. QED
  BY <1>1, <1>2, <1>3 DEF Tied

\* So does every pair when a step changes no state, no alert but by clearing
\* it, and nothing of the tick.
LEMMA Aside ==
  ASSUME Inv, UNCHANGED <<states, pc, tick, streak, lastDone>>,
         now' \in Nat, now <= now', rules' \in [Rules -> Marks],
         DOMAIN active' = Keys,
         \A k \in Keys : Store!IsActive(k)' => Store!IsActive(k)
  PROVE  Inv'
<1>1. Live(tick)' = Live(tick)
  BY DEF Live
<1>2. Typing'
  <2>1. tick.now <= now'
    BY DEF Inv, Typing, Never
  <2>2. QED
    BY <1>1, <2>1 DEF Inv, Typing
<1>3. \A q \in Pairs : Tied(q)'
  BY Untouched DEF Inv
<1>4. Cleared'
  BY <1>1, KeysOfPairs DEF Inv, Cleared, Live
<1>5. Acting' /\ \A k \in Keys : Held(k)'
  BY <1>1 DEF Inv, Acting, Held
<1>6. QED
  BY <1>2, <1>3, <1>4, <1>5 DEF Inv

-----------------------------------------------------------------------------
(* The ticks                                                               *)

LEMMA SkipKeeps == ASSUME Inv, SkipTick PROVE Inv'
<1>1. /\ pc = "idle" /\ tick.now < now /\ tick' = [tick EXCEPT !.now = now]
      /\ UNCHANGED <<states, pc, streak, lastDone, rules, active, now>>
  BY DEF SkipTick, Quiet
<1>2. /\ tick'.now = now /\ tick'.rules = tick.rules /\ tick'.sees = tick.sees
      /\ tick'.todo = tick.todo /\ tick'.acting = tick.acting
      /\ tick.todo = {} /\ tick.acting = {}
  BY <1>1 DEF Inv, Typing
<1>3. Live(tick)' = Live(tick)
  BY <1>2 DEF Live
<1>4. Typing'
  BY <1>1, <1>2, <1>3 DEF Inv, Typing
<1>5. ASSUME NEW q \in Pairs PROVE Tied(q)'
  <2>1. Hot(q)' = Hot(q)
    BY <1>2, <1>3 DEF Hot
  <2>2. lastDone[q] \in {Never} \cup Nat /\ tick.now \in {Never} \cup Nat /\ now \in Nat
        /\ streak[q] \in {Never} \cup Nat
        /\ (states[Key(q)] # NoState => states[Key(q)].since \in Nat)
    BY KeysOfPairs DEF Inv, Typing, Remembered
  <2>3. Tied(q)
    BY DEF Inv
  <2>4. Alone(q) => lastDone[q] <= now /\ streak[q] <= now
    BY <1>1, <2>2, <2>3 DEF Tied, Never
  <2>5. Alone(q) /\ Hot(q) /\ states[Key(q)] # NoState => states[Key(q)].since <= now
    BY <1>1, <2>2, <2>3 DEF Tied, Never
  <2>6. QED
    BY <1>1, <1>2, <1>3, <2>1, <2>3, <2>4, <2>5 DEF Tied
<1>6. Cleared'
  BY <1>1, <1>2, <1>3 DEF Inv, Cleared, Store!IsActive
<1>7. Acting' /\ \A k \in Keys : Held(k)'
  BY <1>1, <1>2, <1>3 DEF Inv, Acting, Held
<1>8. QED
  BY <1>4, <1>5, <1>6, <1>7 DEF Inv

LEMMA StartKeeps == ASSUME Inv, StartTick PROVE Inv'
<1>1. PICK sees \in [Pairs -> {"hit", "miss", "unseen"}] :
        tick' = [now |-> now, rules |-> rules, sees |-> sees,
                 todo |-> Live([rules |-> rules, sees |-> sees]), acting |-> {}]
  BY DEF StartTick
<1>2. /\ tick'.now = now /\ tick'.rules = rules /\ tick'.sees = sees
      /\ tick'.todo = Live([rules |-> rules, sees |-> sees]) /\ tick'.acting = {}
  BY <1>1
<1>3. Live(tick)' = tick'.todo
  BY <1>2 DEF Live
<1>4. /\ pc = "idle" /\ pc' = "tick" /\ tick.now < now
      /\ UNCHANGED <<states, lastDone, rules, active, now>>
      /\ streak' = [q \in Pairs |->
           IF Hot(q)' THEN IF streak[q] = Never THEN now ELSE streak[q] ELSE Never]
  BY DEF StartTick, Quiet, Hot
<1>5. Typing'
  <2>1. Live([rules |-> rules, sees |-> sees]) \in SUBSET Pairs
    BY DEF Live
  <2>2. tick' \in [now : {Never} \cup Nat, rules : [Rules -> Marks],
                   sees : [Pairs -> {"hit", "miss", "unseen"}],
                   todo : SUBSET Pairs, acting : SUBSET Pairs]
    BY <1>1, <2>1 DEF Inv, Typing
  <2>3. streak' \in [Pairs -> {Never} \cup Nat]
    BY <1>4 DEF Inv, Typing
  <2>4. now # Never
    BY DEF Inv, Typing, Never
  <2>5. QED
    BY <1>2, <1>3, <1>4, <2>2, <2>3, <2>4 DEF Inv, Typing
<1>6. ASSUME NEW q \in Pairs, Alone(q) PROVE Tied(q)'
  <2>1. /\ lastDone[q] \in {Never} \cup Nat /\ tick.now \in {Never} \cup Nat /\ now \in Nat
        /\ streak[q] \in {Never} \cup Nat
        /\ (states[Key(q)] # NoState => states[Key(q)].since \in Nat)
    BY KeysOfPairs DEF Inv, Typing, Remembered
  <2>2. /\ (streak[q] # Never <=> Hot(q)) /\ (states[Key(q)] # NoState <=> Hot(q))
        /\ lastDone[q] <= tick.now /\ streak[q] <= tick.now
        /\ Hot(q) /\ states[Key(q)] # NoState =>
             /\ streak[q] <= states[Key(q)].since /\ states[Key(q)].since <= tick.now
             /\ lastDone[q] >= streak[q] => states[Key(q)].last = lastDone[q]
    BY <1>4, <1>6 DEF Inv, Tied
  <2>3. lastDone[q] < now /\ now # Never
    BY <1>4, <2>1, <2>2 DEF Never
  <2>4. streak'[q] = IF Hot(q)' THEN IF streak[q] = Never THEN now ELSE streak[q] ELSE Never
    BY <1>4
  <2>5. /\ pc' = "tick" /\ states'[Key(q)] = states[Key(q)] /\ lastDone'[q] = lastDone[q]
        /\ tick'.now = now /\ q \notin tick'.acting
        /\ q \notin Live(tick)' \ tick'.todo
    BY <1>2, <1>3, <1>4
  <2>6. lastDone[q] <= now /\ streak'[q] <= now
    BY <1>4, <2>1, <2>2, <2>3, <2>4 DEF Never
  <2>7. CASE ~Hot(q)'
    BY <2>4, <2>7, <2>5, <2>6 DEF Tied
  <2>8. CASE Hot(q)' /\ states[Key(q)] # NoState
    <3>1. streak'[q] = streak[q] /\ streak[q] # Never
      BY <2>2, <2>4, <2>8
    <3>2. states[Key(q)].since <= now
      BY <1>4, <2>1, <2>2, <2>8 DEF Never
    <3>3. QED
      BY <2>2, <2>8, <2>5, <2>6, <3>1, <3>2 DEF Tied
  <2>9. CASE Hot(q)' /\ states[Key(q)] = NoState
    <3>1. streak'[q] = now
      BY <2>2, <2>4, <2>9
    <3>2. QED
      BY <2>3, <2>9, <2>5, <2>6, <3>1 DEF Tied
  <2>10. QED
    BY <2>7, <2>8, <2>9
<1>7. ASSUME NEW q \in Pairs PROVE Tied(q)'
  BY <1>6 DEF Tied, Alone
<1>8. Cleared'
  BY <1>3 DEF Cleared
<1>9. Acting' /\ \A k \in Keys : Held(k)'
  BY <1>2, <1>3, <1>4 DEF Acting, Held
<1>10. QED
  BY <1>5, <1>7, <1>8, <1>9 DEF Inv

LEMMA FinishKeeps == ASSUME Inv, FinishTick PROVE Inv'
<1>1. /\ pc = "tick" /\ pc' = "idle" /\ tick.todo = {}
      /\ states' = [k \in Keys |-> IF \E q \in Live(tick) : Key(q) = k
                                  THEN states[k] ELSE NoState]
      /\ UNCHANGED <<rules, tick, streak, lastDone, active, now>>
  BY DEF FinishTick, Collected, Quiet, ghosts
<1>2. Live(tick)' = Live(tick)
  BY <1>1 DEF Live
<1>3. Typing'
  BY <1>1, <1>2 DEF Inv, Typing
<1>4. ASSUME NEW q \in Pairs PROVE Tied(q)'
  <2>1. Hot(q)' = Hot(q) /\ (Hot(q) => q \in Live(tick))
    BY <1>1, <1>2 DEF Hot
  <2>2. tick.acting = {} /\ tick'.acting = {}
    BY <1>1 DEF Inv, Typing
  <2>3. Live(tick) \subseteq Pairs
    BY DEF Live
  <2>4. Alone(q) => states'[Key(q)] = IF q \in Live(tick) THEN states[Key(q)] ELSE NoState
    BY <1>1, <2>3, KeysOfPairs
  <2>5. QED
    BY <1>1, <1>2, <2>1, <2>2, <2>4 DEF Inv, Tied, Alone
<1>5. Cleared'
  BY <1>1, <1>2 DEF Inv, Cleared, Store!IsActive
<1>6. Acting' /\ \A k \in Keys : Held(k)'
  <2>1. tick.acting = {}
    BY <1>1 DEF Inv, Typing
  <2>2. QED
    BY <1>1, <1>2, <2>1 DEF Inv, Acting, Held
<1>7. QED
  BY <1>3, <1>4, <1>5, <1>6 DEF Inv

-----------------------------------------------------------------------------
(* The pairs of a tick                                                     *)

\* What a step on one pair does to the tick.
Handled(q) ==
  \/ tick' = [tick EXCEPT !.todo = @ \ {q}, !.acting = {}]
  \/ tick' = [tick EXCEPT !.acting = {q}]

LEMMA HandledTick ==
  ASSUME Inv, NEW q \in Pairs, Handled(q)
  PROVE  /\ tick'.now = tick.now /\ tick'.rules = tick.rules /\ tick'.sees = tick.sees
         /\ \/ tick'.todo = tick.todo \ {q} /\ tick'.acting = {}
            \/ tick'.todo = tick.todo /\ tick'.acting = {q}
         /\ tick' \in [now : {Never} \cup Nat, rules : [Rules -> Marks],
                       sees : [Pairs -> {"hit", "miss", "unseen"}],
                       todo : SUBSET Pairs, acting : SUBSET Pairs]
         /\ Live(tick)' = Live(tick) /\ Hot(q)' = Hot(q)
<1>1. tick \in [now : {Never} \cup Nat, rules : [Rules -> Marks],
                sees : [Pairs -> {"hit", "miss", "unseen"}],
                todo : SUBSET Pairs, acting : SUBSET Pairs]
  BY DEF Inv, Typing
<1>2. CASE tick' = [tick EXCEPT !.todo = @ \ {q}, !.acting = {}]
  BY <1>1, <1>2 DEF Live, Hot
<1>3. CASE tick' = [tick EXCEPT !.acting = {q}]
  BY <1>1, <1>3 DEF Live, Hot
<1>4. QED
  BY <1>2, <1>3 DEF Handled

\* A step on one pair of a tick, which leaves that pair tied.
LEMMA PairKeeps ==
  ASSUME Inv, NEW q \in Pairs, q \in tick.todo, Handled(q),
         UNCHANGED <<rules, pc, streak, now>>,
         states' \in [Keys -> {NoState} \cup Remembered],
         lastDone' \in [Pairs -> {Never} \cup Nat],
         \A k \in Keys \ {Key(q)} : states'[k] = states[k],
         \A r \in Pairs \ {q} : lastDone'[r] = lastDone[r],
         DOMAIN active' = Keys,
         \A k \in Keys \ {Key(q)} : active'[k] = active[k],
         Tied(q)',
         pc = "tick", q \in tick'.acting => states'[Key(q)] # NoState,
         states'[Key(q)] # NoState => tick.sees[q] = "hit",
         tick.sees[q] = "miss" => ~Store!IsActive(Key(q))'
  PROVE  Inv'
<1>1. /\ tick'.now = tick.now /\ tick'.rules = tick.rules /\ tick'.sees = tick.sees
      /\ \/ tick'.todo = tick.todo \ {q} /\ tick'.acting = {}
         \/ tick'.todo = tick.todo /\ tick'.acting = {q}
      /\ tick' \in [now : {Never} \cup Nat, rules : [Rules -> Marks],
                    sees : [Pairs -> {"hit", "miss", "unseen"}],
                    todo : SUBSET Pairs, acting : SUBSET Pairs]
      /\ Live(tick)' = Live(tick)
  BY HandledTick
<1>2. Typing'
  BY <1>1 DEF Inv, Typing
<1>3. ASSUME NEW r \in Pairs PROVE Tied(r)'
  <2>1. CASE r = q
    BY <2>1
  <2>2. CASE r # q /\ Alone(r)
    <3>1. Key(r) \in Keys \ {Key(q)}
      BY <2>2, KeysOfPairs
    <3>2. QED
      BY <1>1, <2>2, <3>1, Untouched DEF Inv
  <2>3. QED
    BY <2>1, <2>2 DEF Tied, Alone
<1>4. Cleared'
  <2>1. ASSUME NEW k \in Keys, k # Key(q) PROVE Store!IsActive(k)' <=> Store!IsActive(k)
    BY <2>1 DEF Store!IsActive
  <2>2. Live(tick) \subseteq Pairs
    BY DEF Live
  <2>3. ASSUME NEW r \in Live(tick) \ tick'.todo, Alone(r), tick.sees[r] = "miss"
        PROVE  ~Store!IsActive(Key(r))'
    <3>1. CASE r = q
      BY <2>3, <3>1
    <3>2. CASE r # q
      <4>1. Key(r) \in Keys /\ Key(r) # Key(q)
        BY <2>2, <2>3, <3>2, KeysOfPairs
      <4>2. r \notin tick.todo
        BY <1>1, <2>3, <3>2
      <4>3. QED
        BY <2>1, <2>3, <4>1, <4>2 DEF Inv, Cleared
    <3>3. QED
      BY <3>1, <3>2
  <2>4. QED
    BY <1>1, <2>3 DEF Cleared, Alone
<1>5. Acting'
  BY <1>1 DEF Acting
<1>6. ASSUME NEW k \in Keys PROVE Held(k)'
  <2>1. CASE k = Key(q)
    <3>1. q \in Live(tick)
      BY DEF Inv, Typing
    <3>2. QED
      BY <1>1, <2>1, <3>1 DEF Held
  <2>2. CASE k # Key(q)
    <3>1. states'[k] = states[k] /\ Held(k)
      BY <2>2 DEF Inv
    <3>2. QED
      BY <1>1, <2>2, <3>1 DEF Held
  <2>3. QED
    BY <2>1, <2>2
<1>7. QED
  BY <1>2, <1>3, <1>4, <1>5, <1>6 DEF Inv

LEMMA MissKeeps == ASSUME Inv, NEW q \in Pairs, Miss(q) PROVE Inv'
<1>1. /\ q \in tick.todo /\ tick.sees[q] = "miss" /\ pc = "tick" /\ Store!ClearByKey(Key(q))
      /\ states' = [states EXCEPT ![Key(q)] = NoState] /\ Handled(q)
      /\ UNCHANGED <<rules, pc, streak, lastDone, now>>
  BY DEF Miss, Evaluating, ForgetAndClear, Done, ghosts, Store!ClearAlert, Handled
<1>2. Key(q) \in Keys
  BY KeysOfPairs
<1>3. /\ DOMAIN active' = Keys /\ ~Store!IsActive(Key(q))'
      /\ \A k \in Keys \ {Key(q)} : active'[k] = active[k]
  BY <1>1, <1>2, ClearKeeps DEF Inv, Typing
<1>4. /\ states'[Key(q)] = NoState /\ states' \in [Keys -> {NoState} \cup Remembered]
      /\ \A k \in Keys \ {Key(q)} : states'[k] = states[k]
  BY <1>1, <1>2 DEF Inv, Typing
<1>5. ~Hot(q) /\ ~Hot(q)' /\ q \notin tick'.acting /\ tick'.now = tick.now
  BY <1>1, HandledTick DEF Hot, Miss, Done, Inv, Typing
<1>6. Tied(q)'
  BY <1>1, <1>4, <1>5 DEF Inv, Tied, Alone
<1>7. lastDone' \in [Pairs -> {Never} \cup Nat]
  BY <1>1 DEF Inv, Typing
<1>8. QED
  BY <1>1, <1>3, <1>4, <1>5, <1>6, <1>7, PairKeeps

\* A pair that hits has a state from then on.
LEMMA HitTies ==
  ASSUME Inv, NEW q \in Pairs, Hit(q), Handled(q),
         q \in tick'.acting => Waited(q) /\ Cooled(q)
  PROVE  /\ q \in tick.todo /\ tick.sees[q] = "hit" /\ pc = "tick"
         /\ UNCHANGED <<rules, pc, streak, lastDone>>
         /\ states' \in [Keys -> {NoState} \cup Remembered] /\ states'[Key(q)] # NoState
         /\ \A k \in Keys \ {Key(q)} : states'[k] = states[k]
         /\ Tied(q)'
<1>1. /\ q \in tick.todo /\ tick.sees[q] = "hit" /\ pc = "tick"
      /\ states' = [states EXCEPT ![Key(q)] = State(q)]
      /\ UNCHANGED <<rules, pc, streak, lastDone>>
  BY DEF Hit, Evaluating, ghosts
<1>2. Hot(q) /\ Hot(q)' /\ tick'.now = tick.now
  BY <1>1, HandledTick DEF Hot, Inv, Typing
<1>3. tick.now \in Nat /\ Key(q) \in Keys
  <2>1. tick.now \in {Never} \cup Nat /\ tick.now # Never
    BY <1>1 DEF Inv, Typing
  <2>2. QED
    BY <2>1, KeysOfPairs
<1>4. State(q) \in Remembered /\ State(q) # NoState
  <2>1. CASE states[Key(q)] = NoState
    BY <1>3, <2>1 DEF State, Remembered, NoState, Never
  <2>2. CASE states[Key(q)] # NoState
    BY <1>3, <2>2 DEF State, Inv, Typing
  <2>3. QED
    BY <2>1, <2>2
<1>5. /\ states' \in [Keys -> {NoState} \cup Remembered] /\ states'[Key(q)] = State(q)
      /\ \A k \in Keys \ {Key(q)} : states'[k] = states[k]
  BY <1>1, <1>3, <1>4 DEF Inv, Typing
<1>6. State(q)' = State(q)
  BY <1>4, <1>5 DEF State
<1>7. Waited(q)' = Waited(q) /\ Cooled(q)' = Cooled(q)
  BY <1>2, <1>6 DEF Waited, Cooled
<1>8. ASSUME Alone(q) PROVE Tied(q)'
  <2>1. /\ streak[q] \in Nat /\ lastDone[q] <= tick.now /\ streak[q] <= tick.now
        /\ lastDone[q] \in {Never} \cup Nat
    <3>1. streak[q] # Never /\ lastDone[q] <= tick.now /\ streak[q] <= tick.now
      BY <1>2, <1>8 DEF Inv, Tied
    <3>2. streak[q] \in {Never} \cup Nat /\ lastDone[q] \in {Never} \cup Nat
      BY DEF Inv, Typing
    <3>3. QED
      BY <3>1, <3>2 DEF Never
  <2>2. /\ streak[q] <= State(q).since /\ State(q).since <= tick.now
        /\ lastDone[q] >= streak[q] => State(q).last = lastDone[q]
    <3>1. CASE states[Key(q)] = NoState
      <4>1. State(q).since = tick.now /\ lastDone[q] < streak[q]
        BY <1>2, <1>8, <3>1 DEF State, Inv, Tied
      <4>2. QED
        BY <1>3, <2>1, <4>1 DEF Never
    <3>2. CASE states[Key(q)] # NoState
      BY <1>2, <1>8, <3>2 DEF State, Inv, Tied
    <3>3. QED
      BY <3>1, <3>2
  <2>3. streak'[q] # Never
    BY <1>1, <2>1 DEF Never
  <2>4. QED
    BY <1>1, <1>2, <1>4, <1>5, <1>7, <2>1, <2>2, <2>3 DEF Tied
<1>9. Tied(q)'
  BY <1>8 DEF Tied, Alone
<1>10. QED
  BY <1>1, <1>4, <1>5, <1>9

LEMMA WaitKeeps == ASSUME Inv, NEW q \in Pairs, Wait(q) PROVE Inv'
<1>1. Hit(q) /\ Handled(q) /\ UNCHANGED <<active, now>> /\ q \notin tick'.acting
  BY DEF Wait, Done, Quiet, Handled, Inv, Typing
<1>2. QED
  BY <1>1, HitTies, PairKeeps DEF Inv, Typing

LEMMA FireKeeps == ASSUME Inv, NEW q \in Pairs, Fire(q) PROVE Inv'
<1>1. Hit(q) /\ Handled(q) /\ Waited(q)
  BY DEF Fire, Done, Handled
<1>2. q \in tick'.acting => Cooled(q)
  <2>1. tick' = [tick EXCEPT !.todo = @ \ {q}, !.acting = {}] => tick'.acting = {}
    BY DEF Inv, Typing
  <2>2. QED
    BY <2>1 DEF Fire, Done
<1>3. PICK sev : Store!RaiseAlert(Key(q), sev)
  BY DEF Fire
<1>4. /\ DOMAIN active' = Keys /\ now' = now
      /\ \A k \in Keys \ {Key(q)} : active'[k] = active[k]
  BY <1>3, KeysOfPairs, RaiseKeeps DEF Inv, Typing
<1>5. QED
  BY <1>1, <1>2, <1>4, HitTies, PairKeeps DEF Inv, Typing

LEMMA ActKeeps == ASSUME Inv, NEW q \in Pairs, Act(q) PROVE Inv'
<1>1. /\ q \in tick.acting /\ q \in tick.todo /\ Handled(q) /\ q \notin tick'.acting
      /\ states' = [states EXCEPT ![Key(q)].last = tick.now]
      /\ lastDone' = [lastDone EXCEPT ![q] = tick.now]
      /\ UNCHANGED <<rules, pc, streak, active, now>>
  BY DEF Act, NoteAction, Done, Quiet, Handled, Inv, Typing
<1>2. /\ pc = "tick" /\ tick.sees[q] = "hit" /\ Key(q) \in Keys
      /\ states[Key(q)] # NoState /\ tick.now \in Nat /\ states[Key(q)] \in Remembered
  <2>1. pc = "tick" /\ tick.sees[q] = "hit" /\ states[Key(q)] # NoState /\ Key(q) \in Keys
    BY <1>1, KeysOfPairs DEF Inv, Acting
  <2>2. /\ tick.now \in {Never} \cup Nat /\ tick.now # Never
        /\ states[Key(q)] \in {NoState} \cup Remembered
    BY <2>1 DEF Inv, Typing
  <2>3. QED
    BY <2>1, <2>2
<1>3. /\ states' \in [Keys -> {NoState} \cup Remembered]
      /\ states'[Key(q)] = [states[Key(q)] EXCEPT !.last = tick.now]
      /\ \A k \in Keys \ {Key(q)} : states'[k] = states[k]
  <2>1. [states[Key(q)] EXCEPT !.last = tick.now] \in Remembered
    BY <1>2 DEF Remembered
  <2>2. states' = [states EXCEPT ![Key(q)] = [states[Key(q)] EXCEPT !.last = tick.now]]
    BY <1>1
  <2>3. QED
    BY <1>1, <1>2, <2>1, <2>2 DEF Inv, Typing
<1>4. /\ lastDone' \in [Pairs -> {Never} \cup Nat] /\ lastDone'[q] = tick.now
      /\ \A r \in Pairs \ {q} : lastDone'[r] = lastDone[r]
  BY <1>1, <1>2 DEF Inv, Typing
<1>5. /\ states'[Key(q)].since = states[Key(q)].since /\ states'[Key(q)].last = tick.now
      /\ states'[Key(q)] # NoState
  <2>1. states'[Key(q)].since = states[Key(q)].since /\ states'[Key(q)].last = tick.now
    BY <1>2, <1>3 DEF Remembered
  <2>2. states[Key(q)].since # Never
    BY <1>2 DEF Remembered, Never
  <2>3. QED
    BY <2>1, <2>2 DEF NoState
<1>6. ASSUME Alone(q) PROVE Tied(q)'
  <2>1. /\ Hot(q) /\ tick'.now = tick.now /\ Hot(q)'
        /\ streak[q] # Never /\ streak[q] <= tick.now
        /\ streak[q] <= states[Key(q)].since /\ states[Key(q)].since <= tick.now
    BY <1>1, <1>2, <1>6, HandledTick DEF Inv, Tied
  <2>2. QED
    BY <1>1, <1>2, <1>4, <1>5, <2>1 DEF Tied
<1>7. Tied(q)'
  BY <1>6 DEF Tied, Alone
<1>8. DOMAIN active' = Keys
  BY <1>1 DEF Inv, Typing
<1>9. QED
  BY <1>1, <1>2, <1>3, <1>4, <1>7, <1>8, PairKeeps

LEMMA ActFailsKeeps == ASSUME Inv, NEW q \in Pairs, ActFails(q) PROVE Inv'
<1>1. /\ q \in tick.acting /\ q \in tick.todo /\ Handled(q) /\ q \notin tick'.acting
      /\ UNCHANGED <<rules, states, pc, streak, lastDone, active, now>>
  BY DEF ActFails, Done, Quiet, Handled, Inv, Typing, ghosts
<1>2. pc = "tick" /\ tick.sees[q] = "hit" /\ states[Key(q)] # NoState
  BY <1>1 DEF Inv, Acting
<1>3. ASSUME Alone(q) PROVE Tied(q)'
  <2>1. Hot(q) /\ tick'.now = tick.now /\ Hot(q)'
    BY <1>1, <1>3, HandledTick DEF Inv, Tied
  <2>2. QED
    BY <1>1, <1>2, <2>1 DEF Inv, Tied
<1>4. Tied(q)'
  BY <1>3 DEF Tied, Alone
<1>5. QED
  BY <1>1, <1>2, <1>4, PairKeeps DEF Inv, Typing

-----------------------------------------------------------------------------

LEMMA InvNext == Inv /\ [Next]_vars => Inv'
<1> SUFFICES ASSUME Inv, [Next]_vars PROVE Inv'
  OBVIOUS
<1>1. CASE SkipTick \/ StartTick \/ FinishTick
  BY <1>1, SkipKeeps, StartKeeps, FinishKeeps
<1>2. CASE \E q \in Pairs : Miss(q) \/ Wait(q) \/ Fire(q) \/ Act(q) \/ ActFails(q)
  BY <1>2, MissKeeps, WaitKeeps, FireKeeps, ActKeeps, ActFailsKeeps
<1>3. CASE \E r \in Rules : SetRule(r)
  <2>1. UNCHANGED <<states, pc, tick, streak, lastDone, active, now>>
    BY <1>3 DEF SetRule, Quiet, ghosts
  <2>2. rules' \in [Rules -> Marks]
    BY <1>3 DEF SetRule, Marks, Inv, Typing
  <2>3. QED
    BY <2>1, <2>2, Aside DEF Inv, Typing, Store!IsActive
<1>4. CASE \E k \in Keys : Dismiss(k)
  <2>1. PICK k \in Keys : Dismiss(k)
    BY <1>4
  <2>2. UNCHANGED <<rules, states, pc, tick, streak, lastDone, now>> /\ Store!ClearByKey(k)
    BY <2>1 DEF Dismiss, Others, ghosts, Store!Dismiss, Store!Silently
  <2>3. /\ DOMAIN active' = Keys /\ ~Store!IsActive(k)'
        /\ \A other \in Keys \ {k} : active'[other] = active[other]
    BY <2>2, ClearKeeps DEF Inv, Typing
  <2>4. \A other \in Keys : Store!IsActive(other)' => Store!IsActive(other)
    BY <2>3 DEF Store!IsActive
  <2>5. QED
    BY <2>2, <2>3, <2>4, Aside DEF Inv, Typing
<1>5. CASE Advance
  <2>1. /\ UNCHANGED <<rules, states, pc, tick, streak, lastDone, active>>
        /\ now' = now + 1
    BY <1>5 DEF Advance, Others, ghosts, Store!Tick, Store!storeVars
  <2>2. QED
    BY <2>1, Aside DEF Inv, Typing, Store!IsActive
<1>6. CASE UNCHANGED vars
  <2>1. UNCHANGED <<rules, states, pc, tick, streak, lastDone, active, now>>
    BY <1>6 DEF vars, storeVars, ghosts
  <2>2. QED
    BY <2>1, Aside DEF Inv, Typing, Store!IsActive
<1>7. QED
  BY <1>1, <1>2, <1>3, <1>4, <1>5, <1>6 DEF Next

LEMMA InvHolds == Spec => []Inv
BY InvInit, InvNext, PTL DEF Spec

LEMMA ActingIsTied ==
  ASSUME Inv, NEW q \in tick.acting, Alone(q)
  PROVE  /\ q \in Pairs /\ streak[q] \in Nat /\ tick.now \in Nat
         /\ states[Key(q)] \in Remembered
         /\ State(q) = states[Key(q)] /\ Waited(q) /\ Cooled(q)
         /\ streak[q] <= states[Key(q)].since /\ states[Key(q)].since <= tick.now
         /\ lastDone[q] >= streak[q] => states[Key(q)].last = lastDone[q]
<1>1. q \in Pairs /\ Key(q) \in Keys
  BY KeysOfPairs DEF Inv, Typing
<1>2. states[Key(q)] # NoState
  BY DEF Inv, Acting
<1>3. /\ Hot(q) /\ Waited(q) /\ Cooled(q)
      /\ streak[q] # Never /\ streak[q] <= tick.now
      /\ streak[q] <= states[Key(q)].since /\ states[Key(q)].since <= tick.now
      /\ lastDone[q] >= streak[q] => states[Key(q)].last = lastDone[q]
  BY <1>1, <1>2 DEF Inv, Tied
<1>4. /\ tick.now \in {Never} \cup Nat /\ streak[q] \in {Never} \cup Nat
      /\ states[Key(q)] \in {NoState} \cup Remembered
  BY <1>1 DEF Inv, Typing
<1>5. QED
  BY <1>1, <1>2, <1>3, <1>4 DEF State, Never

\* Analyze acts on a pair when now - firstSeen has reached For: through
\* dismissals, failed actions and edits of the rules, every tick of that time
\* that looked at rules found the rule enabled and over its threshold.
THEOREM RulesWait == Spec => []WaitsOutFor
<1>1. Inv => WaitsOutFor
  <2> SUFFICES ASSUME Inv, NEW q \in tick.acting, Alone(q)
               PROVE  streak[q] # Never /\ tick.now - streak[q] >= For[q[1]]
    BY DEF WaitsOutFor, Satisfied
  <2>1. For[q[1]] \in Nat
    BY ActingIsTied, RulesAssumption DEF Pairs
  <2>2. tick.now - states[Key(q)].since >= For[q[1]]
    BY ActingIsTied DEF Waited
  <2>3. states[Key(q)].since \in Nat
    BY ActingIsTied DEF Remembered
  <2>4. QED
    BY <2>1, <2>2, <2>3, ActingIsTied DEF Never
<1>2. QED
  BY <1>1, InvHolds, PTL

\* lastAction of the state keeps two successful actions of a streak a cooldown
\* apart, whatever fails in between.
THEOREM ActionsAreApart == Spec => []CooldownInStreak
<1>1. Inv => CooldownInStreak
  <2> SUFFICES ASSUME Inv, NEW q \in tick.acting, Alone(q), lastDone[q] >= streak[q]
               PROVE  tick.now - lastDone[q] >= Cooldown[q[1]]
    BY DEF CooldownInStreak
  <2>1. lastDone[q] # Never
    BY ActingIsTied DEF Never
  <2>2. QED
    BY <2>1, ActingIsTied DEF Cooled
<1>2. QED
  BY <1>1, InvHolds, PTL

\* A pair below the threshold ends the tick without the rule's alert.
THEOREM MissesAreCleared == Spec => []MissClears
<1>1. Inv => MissClears
  BY DEF Inv, Typing, Cleared, MissClears
<1>2. QED
  BY <1>1, InvHolds, PTL

\* The collection at the end of Analyze: every state the detector keeps has a pair
\* that holds, however processes and rules come and go and share names.
THEOREM StatesDoNotPileUp == Spec => []StatesAreLive
<1>1. Inv => StatesAreLive
  <2> SUFFICES ASSUME Inv, pc = "idle"
               PROVE  /\ \A k \in Keys : states[k] # NoState =>
                           \E q \in Live(tick) : tick.sees[q] = "hit" /\ Key(q) = k
                      /\ \A q \in Live(tick) :
                           Alone(q) /\ tick.sees[q] = "hit" => states[Key(q)] # NoState
    BY DEF StatesAreLive
  <2>1. tick.todo = {} /\ Live(tick) \subseteq Pairs
    BY DEF Inv, Typing, Live
  <2>2. QED
    BY <2>1 DEF Inv, Tied, Hot, Held
<1>2. QED
  BY <1>1, InvHolds, PTL

=============================================================================
