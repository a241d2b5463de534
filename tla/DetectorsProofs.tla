---------------------------- MODULE DetectorsProofs ----------------------------
(***************************************************************************)
(* What the built-in detectors keep to for every set of pids, names and    *)
(* configs, any thresholds, and ticks at any distance.                     *)
(***************************************************************************)
EXTENDS Detectors, FiniteSetTheorems, TLAPS

-----------------------------------------------------------------------------
(* Types: what the invariants below need of TypeOK                         *)

Typing ==
  /\ cfg \in Configs
  /\ tick \in [now : Time \cup {Never}, cfg : Configs,
               snap : [Pids -> Process \cup {Gone}], todo : SUBSET Detector]
  /\ tick.todo \subseteq tick.cfg.on
  /\ tick.todo # {} => tick.now \in Time
  /\ last \in [Pids -> Process \cup {Gone}]
  /\ scene \in Scenes
  /\ runaway \in [Pids -> Time \cup {Never}]
  /\ hung \in [Pids -> Hung \cup {NoHung}]
  /\ known \subseteq Pids
  /\ met \subseteq Pids
  /\ active \in [Keys -> Severity \cup {"none"}]
  /\ broke \in [Timed -> [Pids -> Time \cup {Never}]]
  /\ seenSince \in [Timed -> [Pids -> Time \cup {Never}]]
  /\ onSince \in Time \cup {Never}
  /\ came \subseteq Pids \X Gens \X Time
  /\ before \in [Procs -> Nat]
  /\ told \in [Procs -> Nat]

LEMMA Times == MaxTime \in Nat /\ \A t \in Time \cup {Never} : t \in Int /\ t >= Never
BY DetectorsAssumption DEF Time, Never

LEMMA TypingInit == Init => Typing
<1> SUFFICES ASSUME Init PROVE Typing
  OBVIOUS
<1>1. scene.configs \subseteq Configs
  BY DetectorsAssumption DEF Init
<1>2. tick \in [now : Time \cup {Never}, cfg : Configs,
                snap : [Pids -> Process \cup {Gone}], todo : SUBSET Detector]
  BY <1>1 DEF Init
<1>3. /\ active \in [Keys -> Severity \cup {"none"}]
      /\ runaway \in [Pids -> Time \cup {Never}] /\ hung \in [Pids -> Hung \cup {NoHung}]
  BY DEF Init, NoHung
<1>4. /\ broke \in [Timed -> [Pids -> Time \cup {Never}]]
      /\ seenSince \in [Timed -> [Pids -> Time \cup {Never}]]
      /\ came \subseteq Pids \X Gens \X Time
  BY DEF Init
<1>5. /\ last \in [Pids -> Process \cup {Gone}]
      /\ told \in [Procs -> Nat] /\ before \in [Procs -> Nat]
      /\ tick.todo \subseteq tick.cfg.on
  BY DEF Init
<1>6. tick.todo = {}
  BY DEF Init
<1>7. QED
  BY <1>1, <1>2, <1>3, <1>4, <1>5, <1>6 DEF Init, Typing

\* What a sample may say of a pid is nothing, or a process.
LEMMA SampledTypes ==
  ASSUME Typing, NEW p \in Pids, NEW s \in Sampled(p)
  PROVE  s \in Process \cup {Gone}
<1>1. last[p] \in Process \cup {Gone}
  BY DEF Typing
<1>2. scene.loads \in [Pids -> SUBSET Load] /\ scene.names \subseteq Names
      /\ scene.gens \in [Pids -> 0..MaxGens]
  BY DetectorsAssumption DEF Typing
<1>3. CASE s = Gone
  BY <1>3
<1>4. CASE \E l \in IF last[p] = Gone THEN {} ELSE scene.loads[p] :
             s = [last[p] EXCEPT !.load = l]
  <2>1. PICK l \in Load : last[p] # Gone /\ s = [last[p] EXCEPT !.load = l]
    BY <1>2, <1>4
  <2>2. last[p] \in Process
    BY <1>1, <2>1
  <2>3. QED
    BY <2>1, <2>2 DEF Process
<1>5. CASE s \in [gen : {last[p].gen + 1} \cap (1..scene.gens[p]), name : scene.names,
                  parent : {Parent[p]}, load : scene.loads[p]]
  <2>1. Parent[p] \in Pids \cup {0}
    BY DetectorsAssumption
  <2>2. {last[p].gen + 1} \cap (1..scene.gens[p]) \subseteq Gens
    BY <1>2, DetectorsAssumption DEF Gens
  <2>3. scene.loads[p] \subseteq Load
    BY <1>2
  <2>4. QED
    BY <1>2, <1>5, <2>1, <2>2, <2>3 DEF Process
<1>6. QED
  BY <1>3, <1>4, <1>5 DEF Sampled

\* The snapshot of a new tick.
LEMMA TickTypes ==
  ASSUME Typing, NEW t \in Time, NEW s \in [Pids -> UNION {Sampled(p) : p \in Pids}],
         \A p \in Pids : s[p] \in Sampled(p)
  PROVE  /\ s \in [Pids -> Process \cup {Gone}]
         /\ \A p \in Pids : s[p] # Gone => s[p] \in Process /\ s[p].gen \in Gens
<1>1. \A p \in Pids : s[p] \in Process \cup {Gone}
  BY SampledTypes
<1>2. QED
  BY <1>1 DEF Process

LEMMA NoteTypes ==
  ASSUME Typing, NEW t \in Time, NEW s, Note(t, s),
         \A p \in Pids : s[p] # Gone => s[p].gen \in Gens
  PROVE  /\ broke' \in [Timed -> [Pids -> Time \cup {Never}]]
         /\ seenSince' \in [Timed -> [Pids -> Time \cup {Never}]]
         /\ onSince' \in Time \cup {Never}
         /\ came' \subseteq Pids \X Gens \X Time
         /\ before' \in [Procs -> Nat]
<1>1. broke' \in [Timed -> [Pids -> Time \cup {Never}]]
  BY DEF Note, Typing
<1>2. seenSince' \in [Timed -> [Pids -> Time \cup {Never}]]
  BY DEF Note, Typing
<1>3. onSince' \in Time \cup {Never}
  BY DEF Note, Typing
<1>4. came' \subseteq Pids \X Gens \X Time
  BY DEF Note, Typing, Live
<1>5. before' \in [Procs -> Nat]
  BY DEF Note, Typing
<1>6. QED
  BY <1>1, <1>2, <1>3, <1>4, <1>5

LEMMA StartTypes ==
  ASSUME Typing, NEW t \in Time, StartTick(t)
  PROVE  Typing'
<1>1. PICK s \in [Pids -> UNION {Sampled(p) : p \in Pids}] :
        /\ \A p \in Pids : s[p] \in Sampled(p)
        /\ tick' = [now |-> t, cfg |-> cfg, snap |-> s, todo |-> cfg.on]
        /\ last' = [p \in Pids |-> IF s[p] = Gone THEN last[p] ELSE s[p]]
        /\ Note(t, s)
  BY DEF StartTick
<1>2. /\ s \in [Pids -> Process \cup {Gone}]
      /\ \A p \in Pids : s[p] # Gone => s[p] \in Process /\ s[p].gen \in Gens
  BY <1>1, TickTypes
<1>3. last' \in [Pids -> Process \cup {Gone}]
  BY <1>1, <1>2 DEF Typing
<1>4. cfg.on \subseteq Detector
  BY DetectorsAssumption DEF Typing
<1>5. /\ tick' \in [now : Time \cup {Never}, cfg : Configs,
                    snap : [Pids -> Process \cup {Gone}], todo : SUBSET Detector]
      /\ tick'.todo \subseteq tick'.cfg.on
      /\ tick'.now \in Time
  BY <1>1, <1>2, <1>4 DEF Typing
<1>6. /\ broke' \in [Timed -> [Pids -> Time \cup {Never}]]
      /\ seenSince' \in [Timed -> [Pids -> Time \cup {Never}]]
      /\ onSince' \in Time \cup {Never}
      /\ came' \subseteq Pids \X Gens \X Time
      /\ before' \in [Procs -> Nat]
  BY <1>1, <1>2, NoteTypes
<1>7. QED
  BY <1>3, <1>5, <1>6 DEF StartTick, maps, Typing

-----------------------------------------------------------------------------
(* What an Analyze leaves alone                                            *)

\* The tick goes on to the next detector, and only alerts of this detector
\* come to be.
AfterTurn(d) ==
  /\ d \in tick.todo
  /\ tick' = [tick EXCEPT !.todo = @ \ {d}]
  /\ UNCHANGED <<world, ghosts>>
  /\ active' \in [Keys -> Severity \cup {"none"}]
  /\ \A k \in Keys : k[1] \notin {d, "network_anomaly_system"} =>
       active'[k] \in {active[k], "none"}

LEMMA ReportAfter ==
  ASSUME Typing, NEW d \in Detector, NEW R, NEW C, Turn(d), Report(d, R, C),
         \A k \in DOMAIN R : R[k] \in Severity /\ k[1] \in {d, "network_anomaly_system"}
  PROVE  AfterTurn(d)
<1>1. d \in tick.todo
  BY DEF Turn
<1>2. tick' = [tick EXCEPT !.todo = @ \ {d}] /\ UNCHANGED <<world, ghosts>>
  BY DEF Report
<1>3. PICK declined \in SUBSET {k \in DOMAIN R : active[k] = "none"} :
        active' = [k \in Keys |->
          IF k \in C \/ k \in declined THEN "none"
          ELSE IF k \in DOMAIN R THEN R[k] ELSE active[k]]
  BY DEF Report
<1>4. active' \in [Keys -> Severity \cup {"none"}]
  BY <1>3 DEF Typing
<1>5. \A k \in Keys : k[1] \notin {d, "network_anomaly_system"} =>
        active'[k] \in {active[k], "none"}
  BY <1>3
<1>6. QED
  BY <1>1, <1>2, <1>4, <1>5 DEF AfterTurn

LEMMA AfterTypes ==
  ASSUME Typing, NEW d \in Detector, AfterTurn(d),
         runaway' \in [Pids -> Time \cup {Never}], hung' \in [Pids -> Hung \cup {NoHung}],
         known' \subseteq Pids, met' \subseteq Pids, told' \in [Procs -> Nat]
  PROVE  Typing'
<1>1. /\ tick' \in [now : Time \cup {Never}, cfg : Configs,
                    snap : [Pids -> Process \cup {Gone}], todo : SUBSET Detector]
      /\ tick'.todo \subseteq tick'.cfg.on
      /\ tick'.now \in Time
  BY DEF Typing, AfterTurn
<1>2. QED
  BY <1>1 DEF Typing, AfterTurn, world, ghosts

\* Detectors share no map.
Touches(d) ==
  /\ d # "runaway_cpu" => runaway' = runaway
  /\ d # "hung_process" => hung' = hung
  /\ d # "spawn_storm" => known' = known /\ events' = events
  /\ d # "new_process" => met' = met /\ told' = told

Move(d) ==
  /\ AfterTurn(d)
  /\ Touches(d)
  /\ \A k \in DOMAIN raised' : k[1] \in {d, "network_anomaly_system"}

LEMMA AllOfRaises ==
  ASSUME NEW d, NEW S, NEW sev \in Severity
  PROVE  \A k \in DOMAIN AllOf(d, S, sev) : AllOf(d, S, sev)[k] \in Severity /\ k[1] = d
BY DEF AllOf, Of

LEMMA RunawayMoves ==
  ASSUME Typing, RunawayCPU
  PROVE  Typing' /\ Move("runaway_cpu")
<1> DEFINE d == "runaway_cpu"
           due == {p \in Over : runaway[p] # Never /\ tick.now - runaway[p] >= Duration[d]}
           R == [k \in Of(d, due) |-> Urgency(d, tick.now - runaway[k[2]])]
<1>1. d \in Detector /\ Turn(d) /\ Report(d, R, Cleared(d, Looked(d) \ Over))
  BY DEF RunawayCPU, Detector
<1>2. \A k \in DOMAIN R : R[k] \in Severity /\ k[1] \in {d, "network_anomaly_system"}
  BY DEF Urgency, Severity, Of
<1>3. raised' = R
  BY <1>1 DEF Report
<1> HIDE DEF R
<1>4. AfterTurn(d)
  BY <1>1, <1>2, ReportAfter
<1>5. runaway' \in [Pids -> Time \cup {Never}]
  <2>1. runaway' = Collected(RunawayStates, Never)
    BY DEF RunawayCPU
  <2>2. \A p \in Pids : RunawayStates[p] \in Time \cup {Never}
    BY DEF RunawayStates, Calmed, Typing
  <2>3. QED
    BY <2>1, <2>2 DEF Collected
<1>6. UNCHANGED <<hung, known, events, met, looks, told>>
  BY DEF RunawayCPU
<1>7. Typing'
  BY <1>1, <1>4, <1>5, <1>6, AfterTypes DEF Typing
<1>8. QED
  BY <1>2, <1>3, <1>4, <1>6, <1>7 DEF Move, Touches

LEMMA HungMoves ==
  ASSUME Typing, HungProcess
  PROVE  Typing' /\ Move("hung_process")
<1> DEFINE d == "hung_process"
           due == {p \in Again \ Busy :
                /\ tick.now - hung[p].since >= Duration[d]
                /\ hung[p].wasBusy \/ hung[p].peaked}
           R == [k \in Of(d, due) |-> Urgency(d, tick.now - hung[k[2]].since)]
<1>1. d \in Detector /\ Turn(d) /\ Report(d, R, Cleared(d, Busy))
  BY DEF HungProcess, Detector
<1>2. \A k \in DOMAIN R : R[k] \in Severity /\ k[1] \in {d, "network_anomaly_system"}
  BY DEF Urgency, Severity, Of
<1>3. raised' = R
  BY <1>1 DEF Report
<1> HIDE DEF R
<1>4. AfterTurn(d)
  BY <1>1, <1>2, ReportAfter
<1>5. hung' \in [Pids -> Hung \cup {NoHung}]
  <2> tick.now \in Time
    BY <1>4 DEF AfterTurn, Typing
  <2>1. hung' = Collected(HungStates, NoHung)
    BY DEF HungProcess
  <2>2. \A p \in Busy : Stirred(p) \in Hung
    <3> SUFFICES ASSUME NEW p \in Busy PROVE Stirred(p) \in Hung
      OBVIOUS
    <3>1. hung[p] \in Hung
      BY DEF Busy, Again, Looked, Live, Typing
    <3>2. QED
      BY <3>1 DEF Stirred, Hung
  <2>3. \A p : FirstLook(p) \in Hung
    BY DEF FirstLook, Hung
  <2>4. \A p \in Pids : HungStates[p] \in Hung \cup {NoHung}
    BY <2>2, <2>3 DEF HungStates, Typing
  <2>5. QED
    BY <2>1, <2>4 DEF Collected
<1>6. UNCHANGED <<runaway, known, events, met, looks, told>>
  BY DEF HungProcess
<1>7. Typing'
  BY <1>1, <1>4, <1>5, <1>6, AfterTypes DEF Typing
<1>8. QED
  BY <1>2, <1>3, <1>4, <1>6, <1>7 DEF Move, Touches

LEMMA StormMoves ==
  ASSUME Typing, SpawnStorm
  PROVE  Typing' /\ Move("spawn_storm")
<1> DEFINE d == "spawn_storm"
           counted == [p \in Pids |-> Fresh(p) \cup ChildrenFound(p)]
           storms == {p \in Looked(d) : counted[p] # {} /\ Cardinality(counted[p]) >= MaxChildren}
           R == AllOf(d, storms, "critical")
<1>1. d \in Detector /\ Turn(d) /\ Report(d, R, {})
  BY DEF SpawnStorm, Detector
<1>2. \A k \in DOMAIN R : R[k] \in Severity /\ k[1] \in {d, "network_anomaly_system"}
  <2>1. "critical" \in Severity
    BY DEF Severity
  <2> HIDE DEF storms
  <2>2. QED
    BY <2>1, AllOfRaises
<1>3. raised' = R
  BY <1>1 DEF Report
<1> HIDE DEF R
<1>4. AfterTurn(d)
  BY <1>1, <1>2, ReportAfter
<1>5. UNCHANGED <<runaway, hung, met, looks, told>> /\ known' \subseteq Pids
  BY DEF SpawnStorm, Live
<1>6. Typing'
  BY <1>1, <1>4, <1>5, AfterTypes DEF Typing
<1>7. QED
  BY <1>2, <1>3, <1>4, <1>5, <1>6 DEF Move, Touches

LEMMA NewMoves ==
  ASSUME Typing, NewProcess
  PROVE  Typing' /\ Move("new_process")
<1> DEFINE d == "new_process"
<1>0. PICK new : /\ Report(d, AllOf(d, new, "info"), {})
                 /\ told' = [x \in Procs |->
                      IF x[1] \in new /\ tick.snap[x[1]].gen = x[2] THEN told[x] + 1 ELSE told[x]]
  BY DEF NewProcess
<1> DEFINE R == AllOf(d, new, "info")
<1>1. d \in Detector /\ Turn(d) /\ Report(d, R, {})
  BY <1>0 DEF NewProcess, Detector
<1>2. \A k \in DOMAIN R : R[k] \in Severity /\ k[1] \in {d, "network_anomaly_system"}
  <2>1. "info" \in Severity
    BY DEF Severity
  <2>2. QED
    BY <2>1, AllOfRaises
<1>3. raised' = R
  BY <1>1 DEF Report
<1> HIDE DEF R
<1>4. AfterTurn(d)
  BY <1>1, <1>2, ReportAfter
<1>5. /\ UNCHANGED <<runaway, hung, known, events, looks>>
      /\ met' \subseteq Pids /\ told' \in [Procs -> Nat]
  BY <1>0 DEF NewProcess, MetNow, Live, Typing
<1>6. Typing'
  BY <1>1, <1>4, <1>5, AfterTypes DEF Typing
<1>7. QED
  BY <1>2, <1>3, <1>4, <1>5, <1>6 DEF Move, Touches

\* The detectors without a map among those above.
LEMMA PlainMoves ==
  ASSUME Typing, NEW d \in Detector, NEW R, NEW C, Turn(d), Report(d, R, C),
         \A k \in DOMAIN R : R[k] \in Severity /\ k[1] \in {d, "network_anomaly_system"},
         UNCHANGED <<runaway, hung, known, events, met, told>>
  PROVE  Typing' /\ Move(d)
<1>1. AfterTurn(d)
  BY ReportAfter
<1>2. Typing'
  BY <1>1, AfterTypes DEF Typing
<1>3. raised' = R
  BY DEF Report
<1>4. QED
  BY <1>1, <1>2, <1>3 DEF Move, Touches

Plain == Orphan \/ MemoryLeak \/ PortConflict \/ NoPortsYet \/ NetworkAnomaly

LEMMA PlainOnes ==
  ASSUME Typing, Plain
  PROVE  /\ Typing'
         /\ \E d \in Detector \ {"runaway_cpu", "hung_process", "spawn_storm", "new_process"} :
              Move(d)
<1>1. \A d, S : \A k \in DOMAIN AllOf(d, S, "info") :
        AllOf(d, S, "info")[k] \in Severity /\ k[1] = d
  BY AllOfRaises DEF Severity
<1>2. \A d, S : \A k \in DOMAIN AllOf(d, S, "warning") :
        AllOf(d, S, "warning")[k] \in Severity /\ k[1] = d
  BY AllOfRaises DEF Severity
<1>3. CASE Orphan
  <2>1. PICK S : /\ Turn("orphan") /\ Report("orphan", AllOf("orphan", S, "info"), {})
                 /\ UNCHANGED <<maps, told>>
    BY <1>3 DEF Orphan
  <2>2. "orphan" \in Detector
    BY DEF Detector
  <2>3. Typing' /\ Move("orphan")
    BY <1>1, <2>1, <2>2, PlainMoves DEF maps
  <2>4. QED
    BY <2>2, <2>3
<1>4. CASE MemoryLeak
  <2>1. PICK S : /\ Turn("memory_leak")
                 /\ Report("memory_leak", AllOf("memory_leak", S, "warning"), {})
                 /\ UNCHANGED <<maps, told>>
    BY <1>4 DEF MemoryLeak
  <2>2. "memory_leak" \in Detector
    BY DEF Detector
  <2>3. Typing' /\ Move("memory_leak")
    BY <1>2, <2>1, <2>2, PlainMoves DEF maps
  <2>4. QED
    BY <2>2, <2>3
<1>5. CASE PortConflict
  <2>1. PICK S : /\ Turn("port_conflict")
                 /\ Report("port_conflict", AllOf("port_conflict", S, "warning"), {})
                 /\ UNCHANGED <<maps, told>>
    BY <1>5 DEF PortConflict
  <2>2. "port_conflict" \in Detector
    BY DEF Detector
  <2>3. Typing' /\ Move("port_conflict")
    BY <1>2, <2>1, <2>2, PlainMoves DEF maps
  <2>4. QED
    BY <2>2, <2>3
<1>6. CASE NoPortsYet
  <2>1. "network_anomaly" \in Detector /\ \A k \in DOMAIN NoRaise : FALSE
    BY DEF Detector, NoRaise
  <2>2. /\ Turn("network_anomaly") /\ Report("network_anomaly", NoRaise, {})
        /\ UNCHANGED <<maps, told>>
    BY <1>6 DEF NoPortsYet
  <2>3. Typing' /\ Move("network_anomaly")
    BY <2>1, <2>2, PlainMoves DEF maps
  <2>4. QED
    BY <2>1, <2>3
<1>7. CASE NetworkAnomaly
  <2> DEFINE system == {<<"network_anomaly_system", 0>>}
             R(bursts, over) ==
               [k \in Of("network_anomaly", bursts) \cup (IF over THEN system ELSE {}) |->
                   IF k \in system THEN "critical" ELSE "warning"]
  <2>1. "network_anomaly" \in Detector
    BY DEF Detector
  <2>2. Turn("network_anomaly") /\ UNCHANGED <<runaway, hung, known, events, met, told>>
    BY <1>7 DEF NetworkAnomaly
  <2>3. PICK bursts, over, C : Report("network_anomaly", R(bursts, over), C)
    BY <1>7 DEF NetworkAnomaly
  <2>4. \A k \in DOMAIN R(bursts, over) :
          R(bursts, over)[k] \in Severity /\ k[1] \in {"network_anomaly", "network_anomaly_system"}
    BY DEF Of, Severity
  <2> HIDE DEF R
  <2>5. Typing' /\ Move("network_anomaly")
    BY <2>1, <2>2, <2>3, <2>4, PlainMoves
  <2>6. QED
    BY <2>1, <2>5
<1>8. QED
  BY <1>3, <1>4, <1>5, <1>6, <1>7 DEF Plain

\* A new config, a user: the alerts change and nothing the detectors keep.
Aside ==
  /\ UNCHANGED <<tick, last, maps, ghosts, told>>
  /\ raised' = NoRaise
  /\ \A k \in Keys : active'[k] \in {active[k], "none"}

LEMMA AsideSteps ==
  ASSUME Typing,
         \/ \E c \in Configs : SetConfig(c)
         \/ \E k \in Keys : Dismiss(k)
         \/ DismissAll
  PROVE  Typing' /\ Aside
<1>1. CASE \E c \in Configs : SetConfig(c)
  BY <1>1 DEF SetConfig, Typing, Aside, maps, ghosts
<1>2. CASE \E k \in Keys : Dismiss(k)
  <2>1. PICK k \in Keys : Dismiss(k)
    BY <1>2
  <2>2. /\ active' \in [Keys -> Severity \cup {"none"}]
        /\ \A l \in Keys : active'[l] \in {active[l], "none"}
    BY <2>1 DEF Dismiss, Typing
  <2>3. QED
    BY <2>1, <2>2 DEF Dismiss, Typing, Aside, world, maps, ghosts
<1>3. CASE DismissAll
  BY <1>3 DEF DismissAll, Typing, Aside, world, maps, ghosts
<1>4. QED
  BY <1>1, <1>2, <1>3

Steps ==
  \/ Aside
  \/ \E t \in Time : StartTick(t)
  \/ RunawayCPU /\ Move("runaway_cpu")
  \/ HungProcess /\ Move("hung_process")
  \/ SpawnStorm /\ Move("spawn_storm")
  \/ NewProcess /\ Move("new_process")
  \/ \E d \in Detector \ {"runaway_cpu", "hung_process", "spawn_storm", "new_process"} : Move(d)

LEMMA TypingNext == Typing /\ Next => Typing' /\ Steps
BY AsideSteps, StartTypes, RunawayMoves, HungMoves, StormMoves, NewMoves, PlainOnes
DEF Next, Analyze, Steps, Plain

LEMMA TypingStutter == Typing /\ UNCHANGED vars => Typing'
BY DEF Typing, vars, world, maps, ghosts

-----------------------------------------------------------------------------
(* New processes                                                           *)

\* A process that was told since it came in is met for as long as it stays.
MetOnce ==
  \A x \in Procs :
    /\ told[x] <= before[x] + 1
    /\ tick.snap[x[1]].gen = x[2] /\ told[x] > before[x] => x[1] \in met

LEMMA MetOnceInit == Init => MetOnce
BY DEF Init, MetOnce

\* A process the new snapshot has was in the one before, or comes in now.
LEMMA StartMet ==
  ASSUME Typing, MetOnce, NEW t \in Time, StartTick(t)
  PROVE  MetOnce'
<1>1. PICK s \in [Pids -> UNION {Sampled(q) : q \in Pids}] :
        tick'.snap = s /\ Note(t, s)
  BY DEF StartTick
<1>2. UNCHANGED <<met, told>>
  BY DEF StartTick, maps
<1>3. ASSUME NEW x \in Procs
      PROVE  /\ told[x] <= before'[x] + 1
             /\ s[x[1]].gen = x[2] /\ told[x] > before'[x] => x[1] \in met
  <2>1. told[x] \in Nat /\ before[x] \in Nat
    BY DEF Typing
  <2>2. before'[x] = IF s[x[1]].gen = x[2] /\ ~Stays(x[1], s) THEN told[x] ELSE before[x]
    BY <1>1 DEF Note
  <2>3. CASE s[x[1]].gen = x[2] /\ ~Stays(x[1], s)
    BY <2>1, <2>2, <2>3
  <2>4. CASE s[x[1]].gen = x[2] /\ Stays(x[1], s)
    BY <2>1, <2>2, <2>4 DEF Stays, MetOnce
  <2>5. CASE s[x[1]].gen # x[2]
    BY <2>1, <2>2, <2>5 DEF MetOnce
  <2>6. QED
    BY <2>3, <2>4, <2>5
<1>4. QED
  BY <1>1, <1>2, <1>3 DEF MetOnce

LEMMA NewMet ==
  ASSUME Typing, MetOnce, NewProcess, Move("new_process")
  PROVE  MetOnce'
<1>1. tick'.snap = tick.snap /\ before' = before
  BY DEF Move, AfterTurn, Typing, ghosts
<1>2. met' = Live(tick.snap)
  BY DEF NewProcess, MetNow
<1>3. PICK new \in SUBSET (Live(tick.snap) \ met) :
        told' = [x \in Procs |->
          IF x[1] \in new /\ tick.snap[x[1]].gen = x[2] THEN told[x] + 1 ELSE told[x]]
  BY DEF NewProcess, Looked
<1>4. ASSUME NEW x \in Procs
      PROVE  /\ told'[x] <= before[x] + 1
             /\ tick.snap[x[1]].gen = x[2] => x[1] \in met'
  <2>1. x[1] \in Pids /\ x[2] \in Nat \ {0} /\ told[x] \in Nat /\ before[x] \in Nat
    BY DetectorsAssumption DEF Procs, Gens, Typing
  <2>2. tick.snap[x[1]].gen = x[2] => x[1] \in met'
    BY <1>2, <2>1 DEF Live, Gone
  <2>3. CASE x[1] \in new /\ tick.snap[x[1]].gen = x[2]
    <3>1. told[x] <= before[x] /\ told'[x] = told[x] + 1
      BY <1>3, <2>1, <2>3 DEF MetOnce
    <3>2. QED
      BY <2>1, <2>2, <3>1
  <2>4. CASE ~(x[1] \in new /\ tick.snap[x[1]].gen = x[2])
    BY <1>3, <2>2, <2>4 DEF MetOnce
  <2>5. QED
    BY <2>3, <2>4
<1>5. QED
  BY <1>1, <1>4 DEF MetOnce

LEMMA MetOnceNext == Typing /\ MetOnce /\ Steps => MetOnce'
<1> SUFFICES ASSUME Typing, MetOnce, Steps PROVE MetOnce'
  OBVIOUS
<1>1. CASE Aside
  BY <1>1 DEF Aside, MetOnce, maps, ghosts
<1>2. CASE \E t \in Time : StartTick(t)
  BY <1>2, StartMet
<1>3. CASE NewProcess /\ Move("new_process")
  BY <1>3, NewMet
<1>4. CASE \E d \in Detector \ {"new_process"} : Move(d)
  <2>1. tick'.snap = tick.snap /\ UNCHANGED <<met, told, before>>
    BY <1>4 DEF Move, AfterTurn, Touches, Typing, ghosts
  <2>2. QED
    BY <2>1 DEF MetOnce
<1>5. QED
  BY <1>1, <1>2, <1>3, <1>4 DEF Steps, Detector

\* NewProcessDetector (new_process.go) keeps the pids it has met for as long as
\* they are in the snapshot, so a process is told as new once for each time it
\* comes into the snapshots, however often the detector goes off and on and
\* whoever had the pid before.
THEOREM ToldOncePerComing == Spec => []ToldOnce
<1>1. MetOnce => ToldOnce
  BY DEF MetOnce, ToldOnce
<1>2. Typing /\ MetOnce /\ [Next]_vars => (Typing /\ MetOnce)'
  <2>1. CASE UNCHANGED vars
    BY <2>1, TypingStutter DEF MetOnce, vars, maps, ghosts
  <2>2. QED
    BY <2>1, TypingNext, MetOnceNext
<1>3. QED
  BY <1>1, <1>2, TypingInit, MetOnceInit, PTL DEF Spec

-----------------------------------------------------------------------------
(* The timed detectors                                                     *)

\* Since when the map of a timed detector has a pid in its condition.
Since(d, p) == IF d = "runaway_cpu" THEN runaway[p] ELSE hung[p].since

\* A detector looks at those it has watched since some tick.
WatchedIsLooked ==
  \A d \in Timed, p \in Pids :
    seenSince[d][p] # Never <=> d \in tick.cfg.on /\ p \in Looked(d)

BrokeBefore == \A d \in Timed, p \in Pids : broke[d][p] <= tick.now

\* Since the map has it in the condition, the process left it only while it was
\* not watched, or on the tick whose turn is still to come.
Covered ==
  \A d \in Timed, p \in Pids :
    seenSince[d][p] # Never /\ Since(d, p) # Never =>
      \/ broke[d][p] <= Since(d, p)
      \/ broke[d][p] <= seenSince[d][p]
      \/ d \in tick.todo /\ broke[d][p] = tick.now /\ ~Holds(d, tick.snap[p])

\* The hung detector has an entry for each process it has looked at.
HungIsNoted ==
  \A p \in Pids :
    LET d == "hung_process"
    IN  /\ seenSince[d][p] # Never
        /\ d \notin tick.todo \/ seenSince[d][p] < tick.now
        => hung[p] # NoHung

TimedInv ==
  /\ WatchedIsLooked
  /\ BrokeBefore
  /\ Covered
  /\ HungIsNoted
  /\ CalmIsCleared
  /\ SustainedWhileWatched

LEMMA SinceTime ==
  ASSUME Typing, NEW d \in Timed, NEW p \in Pids
  PROVE  Since(d, p) \in Time \cup {Never}
<1>1. runaway[p] \in Time \cup {Never} /\ hung[p] \in Hung \cup {NoHung}
  BY DEF Typing
<1>2. CASE hung[p] \in Hung
  BY <1>1, <1>2 DEF Since, Hung
<1>3. CASE hung[p] = NoHung
  BY <1>1, <1>3 DEF Since, NoHung
<1>4. QED
  BY <1>1, <1>2, <1>3

LEMMA TimedInvInit == Init => TimedInv
<1> SUFFICES ASSUME Init PROVE TimedInv
  OBVIOUS
<1>1. \A d \in Timed, p \in Pids : seenSince[d][p] = Never /\ broke[d][p] = Never
  BY DEF Init
<1>2. \A d \in Timed : Looked(d) = {}
  BY DEF Init, Looked, Live
<1>3. "hung_process" \in Timed /\ tick.now = Never /\ DOMAIN raised = {}
  BY DEF Init, Timed, NoRaise
<1>4. QED
  BY <1>1, <1>2, <1>3 DEF TimedInv, WatchedIsLooked, BrokeBefore, Covered, HungIsNoted,
     CalmIsCleared, SustainedWhileWatched, Never

\* What a new tick does to the ghosts of a timed detector.
LEMMA TickTimed ==
  ASSUME Typing, NEW t \in Time, StartTick(t), NEW d \in Timed, NEW p \in Pids
  PROVE  /\ broke'[d][p] = IF Stays(p, tick'.snap) /\ Holds(d, tick'.snap[p])
                           THEN broke[d][p] ELSE t
         /\ seenSince'[d][p] =
              IF ~Watches(d, tick'.snap[p]) THEN Never
              ELSE IF Stays(p, tick'.snap) /\ seenSince[d][p] # Never
                   THEN seenSince[d][p] ELSE t
BY DEF StartTick, Note

LEMMA StartTimed ==
  ASSUME Typing, TimedInv, Typing', NEW t \in Time, StartTick(t)
  PROVE  TimedInv'
<1>1. /\ tick'.now = t /\ tick.now < t /\ tick'.cfg = cfg /\ tick'.todo = cfg.on
      /\ tick.todo = {} /\ raised' = NoRaise
      /\ UNCHANGED <<runaway, hung, active>>
  BY DEF StartTick, maps
<1>2. t \in Int /\ t > Never /\ tick.now \in Int
  BY Times DEF Time, Never, Typing
<1>3. ASSUME NEW d \in Timed, NEW p \in Pids
      PROVE  /\ seenSince[d][p] \in Int /\ broke[d][p] \in Int /\ Since(d, p) \in Int
             /\ broke[d][p] <= tick.now
  <2>1. seenSince[d][p] \in Int /\ broke[d][p] \in Int
    BY Times DEF Typing
  <2>2. Since(d, p) \in Int
    BY Times, SinceTime
  <2>3. QED
    BY <2>1, <2>2 DEF TimedInv, BrokeBefore
<1>4. WatchedIsLooked'
  <2> SUFFICES ASSUME NEW d \in Timed, NEW p \in Pids
               PROVE  seenSince'[d][p] # Never <=> d \in tick'.cfg.on /\ p \in Looked(d)'
    BY DEF WatchedIsLooked
  <2>1. p \in Looked(d)' <=> tick'.snap[p] # Gone /\ tick'.snap[p].name \notin cfg.skip[d]
    BY <1>1 DEF Looked, Live
  <2>2. seenSince'[d][p] # Never <=> Watches(d, tick'.snap[p])
    BY <1>2, TickTimed
  <2>3. QED
    BY <1>1, <2>1, <2>2 DEF Watches
<1>5. BrokeBefore'
  BY <1>1, <1>2, <1>3, TickTimed DEF BrokeBefore
<1>6. Covered'
  <2> SUFFICES ASSUME NEW d \in Timed, NEW p \in Pids,
                      seenSince'[d][p] # Never, Since(d, p) # Never
               PROVE  \/ broke'[d][p] <= Since(d, p)
                      \/ broke'[d][p] <= seenSince'[d][p]
                      \/ d \in tick'.todo /\ broke'[d][p] = tick'.now
                           /\ ~Holds(d, tick'.snap[p])
    BY <1>1 DEF Covered, Since
  <2>1. Watches(d, tick'.snap[p])
    BY TickTimed
  <2>2. CASE seenSince'[d][p] = t
    BY <1>1, <1>2, <1>3, <2>2, TickTimed
  <2>3. CASE Stays(p, tick'.snap) /\ seenSince[d][p] # Never /\ seenSince'[d][p] = seenSince[d][p]
    <3>1. broke[d][p] <= Since(d, p) \/ broke[d][p] <= seenSince[d][p]
      BY <1>1, <2>3 DEF TimedInv, Covered
    <3>2. CASE Holds(d, tick'.snap[p])
      BY <2>3, <3>1, <3>2, TickTimed
    <3>3. CASE ~Holds(d, tick'.snap[p])
      BY <1>1, <2>1, <3>3, TickTimed DEF Watches
    <3>4. QED
      BY <3>2, <3>3
  <2>4. QED
    BY <2>1, <2>2, <2>3, TickTimed
<1>7. HungIsNoted'
  <2> DEFINE d == "hung_process"
  <2>1. d \in Timed
    BY DEF Timed
  <2> SUFFICES ASSUME NEW p \in Pids, seenSince'[d][p] # Never,
                      d \notin tick'.todo \/ seenSince'[d][p] < tick'.now
               PROVE  hung[p] # NoHung
    BY <1>1 DEF HungIsNoted
  <2>2. Watches(d, tick'.snap[p])
    BY <2>1, TickTimed
  <2>3. seenSince'[d][p] # t
    BY <1>1, <1>2, <2>2 DEF Watches
  <2>4. seenSince[d][p] # Never
    BY <2>1, <2>2, <2>3, TickTimed
  <2>5. QED
    BY <1>1, <2>4 DEF TimedInv, HungIsNoted
<1>8. CalmIsCleared'
  BY <1>1 DEF CalmIsCleared
<1>9. SustainedWhileWatched'
  BY <1>1 DEF SustainedWhileWatched, NoRaise
<1>10. QED
  BY <1>4, <1>5, <1>6, <1>7, <1>8, <1>9 DEF TimedInv

\* The turn of a detector that keeps the entries of a timed one, and the steps
\* of others: everything about detector e and pid p is as it was.
Kept(e) ==
  /\ \A p \in Pids : Since(e, p)' = Since(e, p)
  /\ e = "hung_process" => hung' = hung
  /\ \A p \in Pids : active'[<<e, p>>] \in {active[<<e, p>>], "none"}
  /\ e \in tick'.todo <=> e \in tick.todo
  /\ \A k \in DOMAIN raised' : k[1] # e

\* Of a timed detector nothing else changes but in its turn.
SameTick ==
  /\ tick'.now = tick.now /\ tick'.cfg = tick.cfg /\ tick'.snap = tick.snap
  /\ broke' = broke /\ seenSince' = seenSince

\* The invariant for one detector.
TimedOf(d) ==
  \A p \in Pids :
    /\ seenSince[d][p] # Never /\ Since(d, p) # Never =>
         \/ broke[d][p] <= Since(d, p)
         \/ broke[d][p] <= seenSince[d][p]
         \/ d \in tick.todo /\ broke[d][p] = tick.now /\ ~Holds(d, tick.snap[p])
    /\ d = "hung_process" /\ seenSince[d][p] # Never
         /\ (d \notin tick.todo \/ seenSince[d][p] < tick.now) => hung[p] # NoHung
    /\ d \in tick.cfg.on \ tick.todo /\ seenSince[d][p] # Never
         /\ (d = "hung_process" => seenSince[d][p] < tick.now)
         /\ ~Holds(d, tick.snap[p]) => active[<<d, p>>] = "none"

SustainedOf(d) ==
  \A k \in DOMAIN raised : k[1] = d =>
    \/ broke[k[1]][k[2]] <= tick.now - Claimed(k)
    \/ seenSince[k[1]][k[2]] > tick.now - Claimed(k)

LEMMA TimedParts ==
  TimedInv <=> /\ WatchedIsLooked /\ BrokeBefore
               /\ \A d \in Timed : TimedOf(d) /\ SustainedOf(d)
<1>1. "hung_process" \in Timed
  BY DEF Timed
<1>2. Covered /\ HungIsNoted /\ CalmIsCleared <=> \A d \in Timed : TimedOf(d)
  BY <1>1 DEF Covered, HungIsNoted, CalmIsCleared, TimedOf
<1>3. SustainedWhileWatched <=> \A d \in Timed : SustainedOf(d)
  BY DEF SustainedWhileWatched, SustainedOf
<1>4. QED
  BY <1>2, <1>3 DEF TimedInv

LEMMA SameWatched ==
  ASSUME WatchedIsLooked, BrokeBefore, SameTick
  PROVE  WatchedIsLooked' /\ BrokeBefore'
BY DEF WatchedIsLooked, BrokeBefore, SameTick, Looked, Live

LEMMA KeptTimed ==
  ASSUME NEW e \in Timed, TimedOf(e), SameTick, Kept(e)
  PROVE  TimedOf(e)' /\ SustainedOf(e)'
<1>1. SustainedOf(e)'
  BY DEF SustainedOf, Kept
<1>2. TimedOf(e)'
  BY DEF TimedOf, SameTick, Kept
<1>3. QED
  BY <1>1, <1>2

\* A turn leaves the entries of the other timed detectors alone.
LEMMA MoveKeeps ==
  ASSUME Typing, NEW d \in Detector, Move(d)
  PROVE  SameTick /\ \A e \in Timed \ {d} : Kept(e)
<1>1. /\ tick' = [tick EXCEPT !.todo = @ \ {d}]
      /\ UNCHANGED <<broke, seenSince>>
  BY DEF Move, AfterTurn, ghosts
<1>2. SameTick /\ tick'.todo = tick.todo \ {d}
  BY <1>1 DEF SameTick, Typing
<1>3. ASSUME NEW e \in Timed \ {d} PROVE Kept(e)
  <2>1. e # "network_anomaly_system" /\ e \in AlertTypes
    BY DEF Timed, AlertTypes, Detector
  <2>2. \A p \in Pids : Since(e, p)' = Since(e, p)
    BY DEF Move, Touches, Since, Timed
  <2>3. e = "hung_process" => hung' = hung
    BY DEF Move, Touches
  <2>4. \A p \in Pids : active'[<<e, p>>] \in {active[<<e, p>>], "none"}
    <3> TAKE p \in Pids
    <3>1. <<e, p>> \in Keys
      BY <2>1 DEF Keys
    <3>2. QED
      BY <2>1, <3>1 DEF Move, AfterTurn
  <2>5. \A k \in DOMAIN raised' : k[1] # e
    BY <2>1 DEF Move
  <2>6. QED
    BY <1>2, <2>2, <2>3, <2>4, <2>5 DEF Kept
<1>4. QED
  BY <1>2, <1>3

LEMMA AsideKeeps ==
  ASSUME Aside
  PROVE  SameTick /\ \A e \in Timed : Kept(e)
<1>1. ASSUME NEW e \in Timed, NEW p \in Pids
      PROVE  active'[<<e, p>>] \in {active[<<e, p>>], "none"}
  <2>1. <<e, p>> \in Keys
    BY DEF Keys, AlertTypes, Timed, Detector
  <2>2. QED
    BY <2>1 DEF Aside
<1>2. QED
  BY <1>1 DEF Aside, SameTick, Kept, Since, maps, ghosts, NoRaise

\* What an Analyze clears is not active after it.
LEMMA ReportClears ==
  ASSUME NEW d, NEW R, NEW C, Report(d, R, C), NEW k \in Keys, k \in C
  PROVE  active'[k] = "none"
BY DEF Report

LEMMA SinceIsTime ==
  ASSUME Typing, TimedInv, NEW d \in Timed, d \in tick.todo, NEW p \in Pids,
         seenSince[d][p] # Never
  PROVE  /\ broke[d][p] \in Int /\ seenSince[d][p] \in Int /\ Since(d, p) \in Int
         /\ tick.now \in Int /\ broke[d][p] <= tick.now /\ tick.now # Never
BY Times, SinceTime DEF Typing, TimedInv, BrokeBefore, Time, Never

\* A report claims no longer than its state says, and the state covers it.
LEMMA ClaimCovered ==
  ASSUME Typing, TimedInv, NEW d \in Timed, d \in tick.todo, NEW p \in Looked(d),
         Since(d, p) # Never, tick.now - Since(d, p) >= Duration[d], Holds(d, tick.snap[p]),
         raised'[<<d, p>>] = Urgency(d, tick.now - Since(d, p))
  PROVE  \/ broke[d][p] <= tick.now - Claimed(<<d, p>>)'
         \/ seenSince[d][p] > tick.now - Claimed(<<d, p>>)'
<1>1. p \in Pids /\ d \in tick.cfg.on
  BY DEF Looked, Live, Typing
<1>2. seenSince[d][p] # Never
  BY <1>1 DEF TimedInv, WatchedIsLooked
<1>3. broke[d][p] <= Since(d, p) \/ broke[d][p] <= seenSince[d][p]
  BY <1>1, <1>2 DEF TimedInv, Covered
<1>4. Claimed(<<d, p>>)' \in Nat /\ Claimed(<<d, p>>)' <= tick.now - Since(d, p)
  BY <1>1, <1>2, SinceIsTime, DetectorsAssumption DEF Claimed, Urgency
<1>5. QED
  BY <1>1, <1>2, <1>3, <1>4, SinceIsTime

LEMMA RunawayTimed ==
  ASSUME Typing, TimedInv, RunawayCPU, Move("runaway_cpu")
  PROVE  TimedOf("runaway_cpu")' /\ SustainedOf("runaway_cpu")'
<1> DEFINE d == "runaway_cpu"
           due == {p \in Over : runaway[p] # Never /\ tick.now - runaway[p] >= Duration[d]}
           R == [k \in Of(d, due) |-> Urgency(d, tick.now - runaway[k[2]])]
<1>1. /\ d \in Timed /\ d \in tick.todo /\ d \in Detector
      /\ Report(d, R, Cleared(d, Looked(d) \ Over))
  BY DEF RunawayCPU, Turn, Timed, Detector
<1>2. /\ tick'.now = tick.now /\ tick'.cfg = tick.cfg /\ tick'.snap = tick.snap
      /\ tick'.todo = tick.todo \ {d}
      /\ broke' = broke /\ seenSince' = seenSince /\ raised' = R
  BY <1>1 DEF Report, ghosts, Typing
<1>3. \A p \in Pids : seenSince[d][p] # Never => p \in Looked(d)
  BY <1>1 DEF TimedInv, WatchedIsLooked
<1>4. ASSUME NEW p \in Pids, seenSince[d][p] # Never, runaway'[p] # Never
      PROVE  broke[d][p] <= runaway'[p] \/ broke[d][p] <= seenSince[d][p]
  <2>1. p \in Over /\ runaway'[p] = (IF runaway[p] = Never THEN tick.now ELSE runaway[p])
    BY <1>3, <1>4 DEF RunawayCPU, Collected, RunawayStates, Calmed
  <2>2. CASE runaway[p] = Never
    BY <1>1, <1>4, <2>1, <2>2, SinceIsTime
  <2>3. CASE runaway[p] # Never
    <3>1. Holds(d, tick.snap[p])
      BY <2>1 DEF Over, Holds
    <3>2. QED
      BY <1>1, <1>4, <2>1, <2>3, <3>1 DEF TimedInv, Covered, Since
  <2>4. QED
    BY <2>2, <2>3
<1>5. ASSUME NEW p \in Pids, seenSince[d][p] # Never, ~Holds(d, tick.snap[p])
      PROVE  active'[<<d, p>>] = "none"
  <2>1. p \in Looked(d) \ Over
    BY <1>3, <1>5 DEF Over, Holds
  <2>2. <<d, p>> \in Keys /\ <<d, p>> \in Cleared(d, Looked(d) \ Over)
    BY <1>1, <2>1 DEF Keys, AlertTypes, Cleared, Of
  <2>3. QED
    BY <1>1, <2>2, ReportClears
<1>6. TimedOf(d)'
  BY <1>1, <1>2, <1>4, <1>5 DEF TimedOf, Since
<1>7. ASSUME NEW k \in DOMAIN raised'
      PROVE  \/ broke'[k[1]][k[2]] <= tick'.now - Claimed(k)'
             \/ seenSince'[k[1]][k[2]] > tick'.now - Claimed(k)'
  <2>1. PICK p \in due : k = <<d, p>>
    BY <1>2 DEF Of
  <2>2. raised'[<<d, p>>] = Urgency(d, tick.now - Since(d, p))
    BY <1>2, <2>1 DEF Since
  <2>3. /\ p \in Looked(d) /\ Holds(d, tick.snap[p])
        /\ Since(d, p) # Never /\ tick.now - Since(d, p) >= Duration[d]
    BY <2>1 DEF Over, Holds, Since
  <2>4. \/ broke[d][p] <= tick.now - Claimed(<<d, p>>)'
        \/ seenSince[d][p] > tick.now - Claimed(<<d, p>>)'
    BY <1>1, <2>2, <2>3, ClaimCovered
  <2>5. QED
    BY <1>2, <2>1, <2>4
<1>8. QED
  BY <1>6, <1>7 DEF SustainedOf

LEMMA HungTimed ==
  ASSUME Typing, TimedInv, HungProcess, Move("hung_process")
  PROVE  TimedOf("hung_process")' /\ SustainedOf("hung_process")'
<1> DEFINE d == "hung_process"
           due == {p \in Again \ Busy :
                /\ tick.now - hung[p].since >= Duration[d]
                /\ hung[p].wasBusy \/ hung[p].peaked}
           R == [k \in Of(d, due) |-> Urgency(d, tick.now - hung[k[2]].since)]
<1>1. /\ d \in Timed /\ d \in tick.todo /\ d \in Detector
      /\ Report(d, R, Cleared(d, Busy))
  BY DEF HungProcess, Turn, Timed, Detector
<1>2. /\ tick'.now = tick.now /\ tick'.cfg = tick.cfg /\ tick'.snap = tick.snap
      /\ tick'.todo = tick.todo \ {d}
      /\ broke' = broke /\ seenSince' = seenSince /\ raised' = R
  BY <1>1 DEF Report, ghosts, Typing
<1>3. \A p \in Pids : seenSince[d][p] # Never => p \in Looked(d)
  BY <1>1 DEF TimedInv, WatchedIsLooked
<1>4. ASSUME NEW p \in Pids, p \in Looked(d)
      PROVE  /\ hung'[p] = IF p \in Busy THEN Stirred(p)
                           ELSE IF p \notin Again THEN FirstLook(p) ELSE hung[p]
             /\ p \in Busy \/ p \notin Again => hung'[p].since = tick.now /\ hung'[p] # NoHung
  <2>1. hung'[p] = IF p \in Busy THEN Stirred(p)
                   ELSE IF p \notin Again THEN FirstLook(p) ELSE hung[p]
    BY <1>4 DEF HungProcess, Collected, HungStates, Looked
  <2>2. tick.now # Never
    BY <1>1, Times DEF Typing, Time, Never
  <2>3. Stirred(p).since = tick.now /\ FirstLook(p).since = tick.now
    BY DEF Stirred, FirstLook
  <2>4. NoHung.since = Never
    BY DEF NoHung
  <2>5. QED
    BY <2>1, <2>2, <2>3, <2>4
<1>5. ASSUME NEW p \in Pids, seenSince[d][p] # Never
      PROVE  /\ broke[d][p] <= hung'[p].since \/ broke[d][p] <= seenSince[d][p]
             /\ hung'[p] # NoHung
  <2>1. p \in Looked(d)
    BY <1>3, <1>5
  <2>2. CASE p \in Busy \/ p \notin Again
    BY <1>1, <1>4, <1>5, <2>1, <2>2, SinceIsTime
  <2>3. CASE p \in Again \ Busy
    <3>1. hung'[p] = hung[p] /\ hung[p] # NoHung /\ Holds(d, tick.snap[p])
      BY <1>4, <2>1, <2>3 DEF Again, Busy, Holds
    <3>2. hung[p].since # Never
      BY <3>1, Times DEF Typing, Hung, Time, Never
    <3>3. QED
      BY <1>1, <1>5, <3>1, <3>2 DEF TimedInv, Covered, Since
  <2>4. QED
    BY <2>2, <2>3
<1>6. ASSUME NEW p \in Pids, seenSince[d][p] # Never, seenSince[d][p] < tick.now,
             ~Holds(d, tick.snap[p])
      PROVE  active'[<<d, p>>] = "none"
  <2>1. hung[p] # NoHung
    BY <1>6 DEF TimedInv, HungIsNoted
  <2>2. p \in Busy
    BY <1>3, <1>6, <2>1 DEF Again, Busy, Holds
  <2>3. <<d, p>> \in Keys /\ <<d, p>> \in Cleared(d, Busy)
    BY <1>1, <2>2 DEF Keys, AlertTypes, Cleared, Of
  <2>4. QED
    BY <1>1, <2>3, ReportClears
<1>7. TimedOf(d)'
  BY <1>1, <1>2, <1>5, <1>6 DEF TimedOf, Since
<1>8. ASSUME NEW k \in DOMAIN raised'
      PROVE  \/ broke'[k[1]][k[2]] <= tick'.now - Claimed(k)'
             \/ seenSince'[k[1]][k[2]] > tick'.now - Claimed(k)'
  <2>1. PICK p \in due : k = <<d, p>>
    BY <1>2 DEF Of
  <2>2. raised'[<<d, p>>] = Urgency(d, tick.now - Since(d, p))
    BY <1>2, <2>1 DEF Since
  <2>3. /\ p \in Looked(d) /\ Holds(d, tick.snap[p]) /\ p \in Pids /\ hung[p] # NoHung
        /\ tick.now - Since(d, p) >= Duration[d]
    BY <2>1 DEF Again, Busy, Looked, Live, Holds, Since
  <2>4. Since(d, p) # Never
    BY <2>3, Times DEF Typing, Hung, Time, Never, Since
  <2>5. \/ broke[d][p] <= tick.now - Claimed(<<d, p>>)'
        \/ seenSince[d][p] > tick.now - Claimed(<<d, p>>)'
    BY <1>1, <2>2, <2>3, <2>4, ClaimCovered
  <2>6. QED
    BY <1>2, <2>1, <2>5
<1>9. QED
  BY <1>7, <1>8 DEF SustainedOf

LEMMA TimedInvNext ==
  ASSUME Typing, TimedInv, Typing', Steps
  PROVE  TimedInv'
<1>0. (WatchedIsLooked /\ BrokeBefore /\ \A d \in Timed : TimedOf(d) /\ SustainedOf(d))'
        => TimedInv'
  BY TimedParts, PTL
<1>1. CASE Aside
  BY <1>0, <1>1, AsideKeeps, SameWatched, KeptTimed, TimedParts
<1>2. CASE \E t \in Time : StartTick(t)
  BY <1>2, StartTimed
<1>3. ASSUME NEW d \in Detector, Move(d),
             d \in Timed => TimedOf(d)' /\ SustainedOf(d)'
      PROVE  TimedInv'
  <2>1. SameTick /\ \A e \in Timed \ {d} : Kept(e)
    BY <1>3, MoveKeeps
  <2>2. WatchedIsLooked' /\ BrokeBefore'
    BY <2>1, SameWatched, TimedParts
  <2>3. \A e \in Timed : TimedOf(e)' /\ SustainedOf(e)'
    BY <1>3, <2>1, KeptTimed, TimedParts
  <2>4. QED
    BY <1>0, <2>2, <2>3
<1>4. CASE RunawayCPU /\ Move("runaway_cpu")
  BY <1>3, <1>4, RunawayTimed DEF Detector
<1>5. CASE HungProcess /\ Move("hung_process")
  BY <1>3, <1>5, HungTimed DEF Detector
<1>6. CASE \E d \in Detector \ Timed : Move(d)
  BY <1>3, <1>6
<1>7. QED
  BY <1>1, <1>2, <1>4, <1>5, <1>6 DEF Steps, Detector, Timed

LEMMA TimedInvAlways == Spec => [](Typing /\ TimedInv)
<1>1. Typing /\ TimedInv /\ [Next]_vars => (Typing /\ TimedInv)'
  <2>1. CASE UNCHANGED vars
    <3>1. SameTick /\ WatchedIsLooked' = WatchedIsLooked /\ TimedInv' = TimedInv
      BY <2>1 DEF SameTick, TimedInv, WatchedIsLooked, BrokeBefore, Covered, HungIsNoted,
         CalmIsCleared, SustainedWhileWatched, Since, Looked, Live, Claimed,
         vars, world, maps, ghosts
    <3>2. QED
      BY <2>1, <3>1, TypingStutter
  <2>2. QED
    BY <2>1, TypingNext, TimedInvNext
<1>2. QED
  BY <1>1, TypingInit, TimedInvInit, PTL DEF Spec

\* RunawayCPUDetector and HungProcessDetector keep the state of a pid across
\* ticks (runaway_cpu.go, hung_process.go): what they report has lasted as long
\* as they say, on every tick of it, or they have not watched it for so long.
THEOREM ReportsHaveLasted == Spec => []SustainedWhileWatched
<1>1. TimedInv => SustainedWhileWatched
  BY DEF TimedInv
<1>2. QED
  BY <1>1, TimedInvAlways, PTL

\* ClearAlert in the same two: past its detector's turn, a process that a tick
\* found calm has no alert of it.
THEOREM CalmHasNoAlert == Spec => []CalmIsCleared
<1>1. TimedInv => CalmIsCleared
  BY DEF TimedInv
<1>2. QED
  BY <1>1, TimedInvAlways, PTL

-----------------------------------------------------------------------------
(* Storms                                                                  *)

Storm == "spawn_storm"

ParentsFixed ==
  \A p \in Pids : /\ last[p] # Gone => last[p].parent = Parent[p]
                  /\ tick.snap[p] # Gone => tick.snap[p].parent = Parent[p]

OnIsOn == /\ tick.now # Never => (onSince # Never <=> Storm \in tick.cfg.on)
          /\ onSince <= tick.now

\* A detector that is on knows the processes of the tick before, so those it
\* does not know have come in with this one.
KnownSeen ==
  onSince # Never =>
    IF Storm \notin tick.todo THEN known = Live(tick.snap)
    ELSE onSince < tick.now =>
           \A c \in Newborn : <<c, tick.snap[c].gen, tick.now>> \in came

\* From the tick on that follows the one that switched it on, its events are
\* comings of the parent's children.
EventsCame ==
  \A p \in Pids : \A e \in events[p] :
    /\ e \in Pids \X Gens \X Time /\ e[3] <= tick.now
    /\ onSince # Never /\ e[3] > onSince => e \in came /\ Parent[e[1]] = p

StormInv ==
  /\ ParentsFixed
  /\ OnIsOn
  /\ KnownSeen
  /\ events \in [Pids -> SUBSET (Pids \X Gens \X Time)]
  /\ EventsCame

LEMMA StormInvInit == Init => StormInv
<1> SUFFICES ASSUME Init PROVE StormInv
  OBVIOUS
<1>1. /\ \A p \in Pids : tick.snap[p] = Gone /\ last[p] = Gone /\ events[p] = {}
      /\ events \in [Pids -> SUBSET (Pids \X Gens \X Time)]
  BY DEF Init
<1>2. ParentsFixed /\ EventsCame
  BY <1>1 DEF ParentsFixed, EventsCame
<1>3. KnownSeen
  BY DEF Init, KnownSeen
<1>4. OnIsOn
  BY DEF Init, OnIsOn, Never
<1>5. QED
  BY <1>1, <1>2, <1>3, <1>4 DEF StormInv

LEMMA StartStorm ==
  ASSUME Typing, StormInv, Typing', NEW t \in Time, StartTick(t)
  PROVE  StormInv'
<1>1. PICK s \in [Pids -> UNION {Sampled(q) : q \in Pids}] :
        /\ \A p \in Pids : s[p] \in Sampled(p)
        /\ tick'.snap = s /\ Note(t, s)
        /\ last' = [p \in Pids |-> IF s[p] = Gone THEN last[p] ELSE s[p]]
        /\ tick' = [now |-> t, cfg |-> cfg, snap |-> s, todo |-> cfg.on]
  BY DEF StartTick
<1>2. /\ tick'.now = t /\ tick.now < t /\ tick'.cfg = cfg /\ tick'.todo = cfg.on
      /\ tick.todo = {} /\ tick.now \in Int /\ t \in Int /\ t > Never
      /\ UNCHANGED <<known, events>>
  BY <1>1, Times DEF StartTick, maps, Typing, Time, Never
<1>3. /\ onSince' = IF Storm \notin cfg.on THEN Never ELSE IF onSince = Never THEN t ELSE onSince
      /\ onSince \in Int /\ onSince <= tick.now
      /\ came' = came \cup {<<p, s[p].gen, t>> : p \in {p \in Live(s) : ~Stays(p, s)}}
  BY <1>1, Times DEF Note, Storm, StormInv, OnIsOn, Typing
<1>5. ParentsFixed'
  <2> SUFFICES ASSUME NEW p \in Pids, s[p] # Gone PROVE s[p].parent = Parent[p]
    BY <1>1 DEF StormInv, ParentsFixed
  <2>1. CASE \E l \in IF last[p] = Gone THEN {} ELSE scene.loads[p] :
               s[p] = [last[p] EXCEPT !.load = l]
    <3>1. PICK l : last[p] # Gone /\ s[p] = [last[p] EXCEPT !.load = l]
      BY <2>1
    <3>2. last[p] \in Process /\ last[p].parent = Parent[p]
      BY <3>1 DEF Typing, StormInv, ParentsFixed
    <3>3. QED
      BY <3>1, <3>2 DEF Process
  <2>2. QED
    BY <1>1, <2>1 DEF Sampled
<1>7. OnIsOn'
  <2>1. onSince' <= t
    BY <1>2, <1>3 DEF Never
  <2>2. onSince' # Never <=> Storm \in cfg.on
    BY <1>2, <1>3
  <2>3. QED
    BY <1>2, <2>1, <2>2 DEF OnIsOn
<1>8. KnownSeen'
  <2> SUFFICES ASSUME onSince' # Never, onSince' < t, NEW c \in Pids, s[c] # Gone, c \notin known
               PROVE  <<c, s[c].gen, t>> \in came'
    BY <1>1, <1>2, <1>3 DEF KnownSeen, Newborn, Live
  <2>1. onSince # Never
    BY <1>2, <1>3
  <2>2. tick.snap[c] = Gone
    BY <1>2, <2>1 DEF StormInv, KnownSeen, Live
  <2>3. s[c].gen \in Nat \ {0}
    BY <1>1, TickTypes, DetectorsAssumption DEF Gens
  <2>4. ~Stays(c, s)
    BY <2>2, <2>3 DEF Stays, Gone
  <2>5. QED
    BY <1>3, <2>4 DEF Live
<1>9. EventsCame'
  <2> SUFFICES ASSUME NEW p \in Pids, NEW e \in events[p]
               PROVE  /\ e \in Pids \X Gens \X Time /\ e[3] <= t
                      /\ onSince' # Never /\ e[3] > onSince' => e \in came' /\ Parent[e[1]] = p
    BY <1>2 DEF EventsCame
  <2>1. /\ e \in Pids \X Gens \X Time /\ e[3] <= tick.now
        /\ onSince # Never /\ e[3] > onSince => e \in came /\ Parent[e[1]] = p
    BY DEF StormInv, EventsCame
  <2>2. e[3] \in Int /\ e[3] # Never
    BY <2>1, Times DEF Time, Never
  <2>3. ASSUME onSince' # Never, e[3] > onSince'
        PROVE  onSince' = onSince /\ onSince # Never
    BY <1>2, <1>3, <2>1, <2>2, <2>3
  <2>4. QED
    BY <1>2, <1>3, <2>1, <2>2, <2>3
<1>10. QED
  BY <1>2, <1>5, <1>7, <1>8, <1>9 DEF StormInv

LEMMA RecentFinite ==
  ASSUME Typing, NEW p
  PROVE  IsFiniteSet(Recent(p))
<1>1. IsFiniteSet(Gens) /\ IsFiniteSet(Time)
  BY FS_Interval, DetectorsAssumption DEF Gens, Time
<1>2. IsFiniteSet(Pids \X Gens)
  BY <1>1, FS_Product, DetectorsAssumption
<1>3. IsFiniteSet((Pids \X Gens) \X Time)
  BY <1>1, <1>2, FS_Product
<1> DEFINE S == Pids \X Gens \X Time
           T == (Pids \X Gens) \X Time
           f == [e \in S |-> <<<<e[1], e[2]>>, e[3]>>]
<1>4. f \in [S -> T]
  OBVIOUS
<1>5. ASSUME NEW a \in S, NEW b \in S, f[a] = f[b] PROVE a = b
  <2>1. a = <<a[1], a[2], a[3]>> /\ b = <<b[1], b[2], b[3]>>
    OBVIOUS
  <2>2. a[1] = b[1] /\ a[2] = b[2] /\ a[3] = b[3]
    BY <1>5
  <2>3. QED
    BY <2>1, <2>2
<1>6. f \in Injection(S, T)
  BY <1>4, <1>5 DEF Injection, IsInjective
<1>7. IsFiniteSet(S)
  BY <1>3, <1>6, FS_Injection
<1>8. Recent(p) \subseteq S
  BY DEF Recent, Typing
<1>9. QED
  BY <1>7, <1>8, FS_Subset

LEMMA StormTurn ==
  ASSUME Typing, StormInv, SpawnStorm, Move(Storm)
  PROVE  StormInv' /\ StormsAreRecent'
<1> DEFINE counted == [p \in Pids |-> Fresh(p) \cup ChildrenFound(p)]
<1>1. /\ Storm \in tick.todo /\ tick' = [tick EXCEPT !.todo = @ \ {Storm}]
      /\ UNCHANGED <<last, onSince, came>>
      /\ known' = Live(tick.snap) /\ events' = counted
  BY DEF SpawnStorm, Move, AfterTurn, world, ghosts, Storm
<1>2. /\ tick'.now = tick.now /\ tick'.snap = tick.snap /\ tick'.cfg = tick.cfg
      /\ Storm \notin tick'.todo /\ tick.now \in Time /\ tick.now \in Int /\ onSince \in Int
  BY <1>1, Times DEF Typing
<1>3. onSince # Never
  <2>1. Storm \in tick.cfg.on /\ tick.now # Never
    BY <1>1, <1>2, Times DEF Typing, Time, Never
  <2>2. QED
    BY <2>1 DEF StormInv, OnIsOn
<1>4. ASSUME NEW p \in Pids, NEW e \in counted[p]
      PROVE  /\ e \in Pids \X Gens \X Time /\ e[3] <= tick.now /\ e[3] > tick.now - Window
             /\ e[3] > onSince => e \in came /\ Parent[e[1]] = p
  <2>1. CASE e \in Fresh(p)
    <3>1. e \in events[p] /\ e[3] > tick.now - Window
      BY <2>1 DEF Fresh
    <3>2. QED
      BY <1>3, <3>1 DEF StormInv, EventsCame
  <2>2. CASE e \in ChildrenFound(p)
    <3>1. PICK c \in Newborn : e = <<c, tick.snap[c].gen, tick.now>> /\ tick.snap[c].parent = p
      BY <2>2 DEF ChildrenFound
    <3>2. c \in Pids /\ tick.snap[c] # Gone
      BY <3>1 DEF Newborn, Live
    <3>3. tick.snap[c].gen \in Gens
      BY <3>2 DEF Typing, Process
    <3>4. Parent[c] = p
      BY <3>1, <3>2 DEF StormInv, ParentsFixed
    <3>5. onSince < tick.now => <<c, tick.snap[c].gen, tick.now>> \in came
      BY <1>1, <1>3, <3>1 DEF StormInv, KnownSeen
    <3>6. /\ e[1] = c /\ e[2] = tick.snap[c].gen /\ e[3] = tick.now
          /\ e \in Pids \X Gens \X Time
      BY <1>2, <3>1, <3>2, <3>3
    <3>7. Window \in Nat \ {0}
      BY DetectorsAssumption
    <3>8. QED
      BY <1>2, <3>4, <3>5, <3>6, <3>7
  <2>3. QED
    BY <1>4, <2>1, <2>2
<1> HIDE DEF counted
<1>5. StormInv'
  <2>1. ParentsFixed' /\ OnIsOn'
    BY <1>1, <1>2 DEF StormInv, ParentsFixed, OnIsOn
  <2>2. KnownSeen'
    BY <1>1, <1>2 DEF KnownSeen, Live
  <2>3. EventsCame'
    BY <1>1, <1>2, <1>4 DEF EventsCame
  <2>4. events' \in [Pids -> SUBSET (Pids \X Gens \X Time)]
    <3>1. \A p \in Pids : counted[p] \subseteq Pids \X Gens \X Time
      BY <1>4
    <3>2. counted = [p \in Pids |-> counted[p]]
      BY DEF counted
    <3>3. QED
      BY <1>1, <3>1, <3>2
  <2>5. QED
    BY <2>1, <2>2, <2>3, <2>4 DEF StormInv
<1>6. ASSUME NEW k \in DOMAIN raised', ~(onSince > tick.now - Window)
      PROVE  Cardinality(Recent(k[2])) >= MaxChildren
  <2>1. k[2] \in Pids /\ Cardinality(counted[k[2]]) >= MaxChildren
    <3> DEFINE storms == {p \in Looked(Storm) :
                            counted[p] # {} /\ Cardinality(counted[p]) >= MaxChildren}
    <3>1. raised' = AllOf(Storm, storms, "critical")
      BY DEF SpawnStorm, Report, Storm, counted
    <3>2. storms \subseteq Pids
      BY DEF Looked, Live
    <3>3. PICK p \in storms : k = <<Storm, p>>
      BY <3>1 DEF AllOf, Of
    <3>4. QED
      BY <3>2, <3>3
  <2>2. counted[k[2]] \subseteq Recent(k[2])
    <3> SUFFICES ASSUME NEW e \in counted[k[2]] PROVE e \in Recent(k[2])
      OBVIOUS
    <3>1. e \in Pids \X Gens \X Time /\ e[3] > tick.now - Window
      BY <1>4, <2>1
    <3>2. e[3] \in Int /\ Window \in Nat
      BY <3>1, Times, DetectorsAssumption
    <3>3. e[3] > onSince
      BY <1>2, <1>6, <3>1, <3>2
    <3>4. QED
      BY <1>4, <2>1, <3>1, <3>3 DEF Recent
  <2>3. /\ IsFiniteSet(counted[k[2]]) /\ IsFiniteSet(Recent(k[2]))
        /\ Cardinality(counted[k[2]]) <= Cardinality(Recent(k[2]))
    BY <2>2, RecentFinite, FS_Subset
  <2>4. Cardinality(counted[k[2]]) \in Nat /\ Cardinality(Recent(k[2])) \in Nat
    BY <2>3, FS_CardinalityType
  <2>5. QED
    BY <2>1, <2>3, <2>4, DetectorsAssumption
<1>7. QED
  BY <1>1, <1>2, <1>5, <1>6 DEF StormsAreRecent, Recent

LEMMA StormInvNext ==
  ASSUME Typing, StormInv, Typing', Steps
  PROVE  StormInv' /\ StormsAreRecent'
<1>1. CASE Aside
  BY <1>1 DEF Aside, StormInv, ParentsFixed, OnIsOn, KnownSeen, Newborn,
     Live, EventsCame, StormsAreRecent, NoRaise, maps, ghosts
<1>2. CASE \E t \in Time : StartTick(t)
  BY <1>2, StartStorm DEF StartTick, StormsAreRecent, NoRaise
<1>3. CASE SpawnStorm /\ Move("spawn_storm")
  BY <1>3, StormTurn DEF Storm
<1>4. CASE \E d \in Detector \ {Storm} : Move(d)
  <2>1. PICK d \in Detector \ {Storm} : Move(d)
    BY <1>4
  <2>2. /\ tick'.now = tick.now /\ tick'.snap = tick.snap /\ tick'.cfg = tick.cfg
        /\ Storm \in tick'.todo <=> Storm \in tick.todo
        /\ UNCHANGED <<last, known, events, onSince, came>>
        /\ \A k \in DOMAIN raised' : k[1] # Storm
    BY <2>1 DEF Move, AfterTurn, Touches, Typing, world, ghosts, Storm
  <2>3. StormInv'
    BY <2>2 DEF StormInv, ParentsFixed, OnIsOn, KnownSeen, Newborn,
       Live, EventsCame
  <2>4. QED
    BY <2>2, <2>3 DEF StormsAreRecent, Storm
<1>5. QED
  BY <1>1, <1>2, <1>3, <1>4 DEF Steps, Detector, Storm

\* SpawnStormDetector (spawn_storm.go) counts each pid it does not know as a
\* child of this moment; once it has been on for a window, the children of a
\* storm it reports have come into the snapshots that often within the window.
THEOREM StormChildrenCameIn == Spec => []StormsAreRecent
<1> DEFINE Inv == Typing /\ StormInv /\ StormsAreRecent
<1>1. Init => Inv
  <2>1. Init => StormsAreRecent
    BY DEF Init, StormsAreRecent, NoRaise
  <2>2. QED
    BY <2>1, TypingInit, StormInvInit
<1>2. Inv /\ [Next]_vars => Inv'
  <2>1. CASE UNCHANGED vars
    <3>1. StormInv' = StormInv /\ StormsAreRecent' = StormsAreRecent
      BY <2>1 DEF StormInv, ParentsFixed, OnIsOn, KnownSeen, Newborn,
         Live, EventsCame, StormsAreRecent, Recent, vars, world, maps, ghosts
    <3>2. QED
      BY <2>1, <3>1, TypingStutter
  <2>2. QED
    BY <2>1, TypingNext, StormInvNext
<1>3. Inv => StormsAreRecent
  OBVIOUS
<1>4. QED
  BY <1>1, <1>2, <1>3, PTL DEF Spec

=============================================================================
