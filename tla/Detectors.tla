------------------------------- MODULE Detectors -------------------------------
(***************************************************************************)
(* The built-in detectors of internal/anomaly, as the engine runs them:    *)
(* one after the other on every tick, over the time, the snapshot and the  *)
(* config the tick captured.                                               *)
(*                                                                         *)
(* A detector's maps are touched by the engine's goroutine only, and an    *)
(* Analyze visits each alert key once, so a whole Analyze is one action.   *)
(* Of the alert store only the active set is kept: AlertStore models the   *)
(* rest, and what its snoozes and its cap do here is to turn down a raise. *)
(*                                                                         *)
(* Pids are reused: a process is a pid and its generation.  It has a name, *)
(* a parent pid and, in each snapshot, a load.  A snapshot may lack a      *)
(* process that lives: it was not enumerated, or trimmed.  A judgement     *)
(* that is arithmetic on readings (connections, history, sockets) is left  *)
(* open.                                                                   *)
(***************************************************************************)
EXTENDS Integers, FiniteSets

CONSTANTS
  Pids,         \* process ids, without 0
  Names,        \* executables
  Suspicious,   \* those that lie in one of cfg.SuspiciousPaths
  Configs,      \* configs: the detectors switched on, and whom each passes over
  Parent,       \* bound: the parent pid each pid's processes have, 0 for none
  Scenes,       \* bound: configs and names that go together, and for each pid
                \* the loads its processes may have and how many there may be
  Duration, Critical,  \* thresholds of the runaway and the hung detector
  Window,       \* the minute over which children are counted
  MaxChildren,  \* MaxChildrenPerMinute
  WarmUp,       \* connection counts seen before one can be a burst
  MaxGens,      \* bound: processes with the same pid
  MaxChanges,   \* bound: new configs
  MaxTime       \* bound: clock

Detector == {"spawn_storm", "memory_leak", "hung_process", "orphan",
             "runaway_cpu", "port_conflict", "network_anomaly", "new_process"}
Timed == {"hung_process", "runaway_cpu"}
Load == {"idle", "busy", "high"}  \* high is over every CPU threshold

ASSUME DetectorsAssumption ==
  /\ Pids \subseteq Nat \ {0} /\ IsFiniteSet(Pids)
  /\ Suspicious \subseteq Names
  /\ Configs \subseteq [on : SUBSET Detector, skip : [Detector -> SUBSET Names]]
  /\ Parent \in [Pids -> Pids \cup {0}]
  /\ Scenes \subseteq [configs : SUBSET Configs, names : SUBSET Names,
                       loads : [Pids -> SUBSET Load],
                       gens : [Pids -> 0..MaxGens]]
  /\ Duration \in [Timed -> Nat] /\ Critical \in [Timed -> Nat]
  /\ Window \in Nat \ {0} /\ MaxChildren \in Nat /\ WarmUp \in Nat
  /\ MaxGens \in Nat /\ MaxChanges \in Nat /\ MaxTime \in Nat

VARIABLES
  scene,    \* bound: the scene this behaviour plays in
  changes,  \* new configs so far
  last,     \* the last process a snapshot had of each pid, or Gone
  cfg,      \* Engine.cfg
  tick,     \* what analyzeOnce captured, and the detectors still to run
  runaway,  \* RunawayCPUDetector.states: since when a pid is over, or Never
  hung,     \* HungProcessDetector.states
  known,    \* SpawnStormDetector.knownPIDs
  events,   \* SpawnStormDetector.parentEvents: children and when they were found
  met,      \* NewProcessDetector.known
  looks,    \* NetworkAnomalyDetector.stats: counts taken, 0 for no entry
  active,   \* the active set of the alert store: a severity or "none"
  raised,   \* the raises of the last Analyze: a severity for each key
  broke,    \* ghost: the last tick that found a pid not in a detector's condition
  seenSince,\* ghost: the tick since which a detector has looked at a pid's process
  onSince,  \* ghost: the tick since which the storm detector has been on
  came,     \* ghost: the ticks at which processes came into the snapshot
  before,   \* ghost: the times a process was raised before it last came in
  told      \* ghost: the times a process was raised as new

world == <<scene, changes, last, cfg>>
maps == <<runaway, hung, known, events, met, looks>>
ghosts == <<broke, seenSince, onSince, came, before>>
vars == <<world, tick, maps, active, raised, ghosts, told>>

Never == -1
Time == 0..MaxTime
Gens == 1..MaxGens
Procs == Pids \X Gens
Gone == [gen |-> 0]
Process == [gen : Gens, name : Names, parent : Pids \cup {0}, load : Load]
Live(s) == {p \in Pids : s[p] # Gone}

\* The order in which registerDefaults lists the detectors.
Order == <<"spawn_storm", "memory_leak", "hung_process", "orphan",
           "runaway_cpu", "port_conflict", "network_anomaly", "new_process">>

Severity == {"info", "warning", "critical"}
AlertTypes == Detector \cup {"network_anomaly_system"}
Keys == AlertTypes \X (Pids \cup {0})
NoRaise == [k \in {} |-> "info"]

-----------------------------------------------------------------------------
(* Mutants of the operations below, used by the sensitivity checks only.   *)

\* A load that dips below the threshold and keeps its state.
KeepState(p) == runaway[p]
\* A window that keeps the children of the minute before.
FreshForTwo(p) == {e \in events[p] : e[3] > tick.now - 2 * Window}
\* A collection that is not put in place of the last one.
MetAsBefore == met
\* A calm process whose alert stays.
ClearNobody(d, S) == {}

-----------------------------------------------------------------------------
(* The machine, the config and the other users of the alert store          *)

Init ==
  /\ scene \in Scenes
  /\ changes = 0
  /\ last = [p \in Pids |-> Gone]
  /\ cfg \in scene.configs
  /\ tick = [now |-> Never, cfg |-> cfg, snap |-> [p \in Pids |-> Gone], todo |-> {}]
  /\ runaway = [p \in Pids |-> Never]
  /\ hung = [p \in Pids |-> [since |-> Never]]
  /\ known = {}
  /\ events = [p \in Pids |-> {}]
  /\ met = {}
  /\ looks = [p \in Pids |-> 0]
  /\ active = [k \in Keys |-> "none"]
  /\ raised = NoRaise
  /\ broke = [d \in Timed |-> [p \in Pids |-> Never]]
  /\ seenSince = [d \in Timed |-> [p \in Pids |-> Never]]
  /\ onSince = Never
  /\ came = {}
  /\ before = [x \in Procs |-> 0]
  /\ told = [x \in Procs |-> 0]

Off(c) == (Detector \ c.on) \cup
          (IF "network_anomaly" \in c.on THEN {} ELSE {"network_anomaly_system"})

\* applyConfig: the engine's config, and clearDisabledDetectorAlerts.
SetConfig(c) ==
  /\ changes < MaxChanges
  /\ c \in scene.configs \ {cfg}
  /\ changes' = changes + 1
  /\ cfg' = c
  /\ active' = [k \in Keys |-> IF k[1] \in Off(c) THEN "none" ELSE active[k]]
  /\ raised' = NoRaise
  /\ UNCHANGED <<scene, last, tick, maps, ghosts, told>>

\* A user dismisses or snoozes an alert.
Dismiss(k) ==
  /\ active[k] # "none"
  /\ active' = [active EXCEPT ![k] = "none"]
  /\ raised' = NoRaise
  /\ UNCHANGED <<world, tick, maps, ghosts, told>>

DismissAll ==
  /\ active' = [k \in Keys |-> "none"]
  /\ raised' = NoRaise
  /\ UNCHANGED <<world, tick, maps, ghosts, told>>

-----------------------------------------------------------------------------
(* The engine                                                              *)

\* What the latest snapshot may say of a pid: nothing, the process that had it
\* when it was last in a snapshot, or another one.  A snapshot lacks whoever has
\* ended, but also a process that lives: the enumeration failed or broke off, or
\* the list was cut to the largest.  That process is back with a later snapshot.
Sampled(p) ==
  {Gone}
  \cup {[last[p] EXCEPT !.load = l] : l \in IF last[p] = Gone THEN {} ELSE scene.loads[p]}
  \cup [gen : {last[p].gen + 1} \cap (1..scene.gens[p]), name : scene.names, parent : {Parent[p]},
        load : scene.loads[p]]

Stays(p, s) == s[p] # Gone /\ s[p].gen = tick.snap[p].gen

\* What a detector looks for in a process: no activity, or too much.
Holds(d, proc) == IF d = "hung_process" THEN proc.load = "idle" ELSE proc.load = "high"

Watches(d, proc) ==
  d \in cfg.on /\ proc # Gone /\ proc.name \notin cfg.skip[d]

\* The ghosts take note of what a tick sees.
Note(t, s) ==
  /\ broke' = [d \in Timed |-> [p \in Pids |->
       IF Stays(p, s) /\ Holds(d, s[p]) THEN broke[d][p] ELSE t]]
  /\ seenSince' = [d \in Timed |-> [p \in Pids |->
       IF ~Watches(d, s[p]) THEN Never
       ELSE IF Stays(p, s) /\ seenSince[d][p] # Never THEN seenSince[d][p] ELSE t]]
  /\ onSince' = IF "spawn_storm" \notin cfg.on THEN Never
                ELSE IF onSince = Never THEN t ELSE onSince
  /\ came' = came \cup {<<p, s[p].gen, t>> : p \in {p \in Live(s) : ~Stays(p, s)}}
  /\ before' = [x \in Procs |->
       IF s[x[1]].gen = x[2] /\ ~Stays(x[1], s) THEN told[x] ELSE before[x]]

\* analyzeOnce captures the time, the latest snapshot and the config.  Ticks
\* come at any distance.  Detectors that are off return at once, and leave
\* their maps as they are.
StartTick(t) ==
  /\ tick.todo = {}
  /\ tick.now < t
  /\ \E s \in [Pids -> UNION {Sampled(p) : p \in Pids}] :
       /\ \A p \in Pids : s[p] \in Sampled(p)
       /\ tick' = [now |-> t, cfg |-> cfg, snap |-> s, todo |-> cfg.on]
       /\ last' = [p \in Pids |-> IF s[p] = Gone THEN last[p] ELSE s[p]]
       /\ Note(t, s)
  /\ raised' = NoRaise
  /\ UNCHANGED <<scene, changes, cfg, maps, active, told>>

\* It is the turn of detector d.
Turn(d) ==
  /\ d \in tick.todo
  /\ \E i \in DOMAIN Order :
       Order[i] = d /\ \A j \in 1..(i - 1) : Order[j] \notin tick.todo

\* The processes d looks at: whitelists and the ignore list are one here.
Looked(d) == {p \in Live(tick.snap) : tick.snap[p].name \notin tick.cfg.skip[d]}

\* What an Analyze does to the store: RaiseAlert for the keys of R, ClearAlert
\* for those of C.  A snooze or the cap may turn down an alert that is new.
Report(d, R, C) ==
  /\ \E declined \in SUBSET {k \in DOMAIN R : active[k] = "none"} :
       active' = [k \in Keys |->
         IF k \in C \/ k \in declined THEN "none"
         ELSE IF k \in DOMAIN R THEN R[k] ELSE active[k]]
  /\ raised' = R
  /\ tick' = [tick EXCEPT !.todo = @ \ {d}]
  /\ UNCHANGED <<world, ghosts>>

Of(d, S) == {<<d, p>> : p \in S}
AllOf(d, S, sev) == [k \in Of(d, S) |-> sev]
Cleared(d, S) == Of(d, S)

-----------------------------------------------------------------------------
(* RunawayCPUDetector                                                      *)

Over == {p \in Looked("runaway_cpu") : tick.snap[p].load = "high"}

\* A pid that is below the threshold loses its state.
Calmed(p) == Never

RunawayStates ==
  [p \in Pids |->
    IF p \in Looked("runaway_cpu")
    THEN IF p \notin Over THEN Calmed(p)
         ELSE IF runaway[p] = Never THEN tick.now ELSE runaway[p]
    ELSE runaway[p]]

\* The collection that ends an Analyze.
Collected(states, none) ==
  [p \in Pids |-> IF p \in Live(tick.snap) THEN states[p] ELSE none]

Urgency(d, t) == IF t >= Critical[d] THEN "critical" ELSE "warning"

RunawayCPU ==
  LET d == "runaway_cpu"
      due == {p \in Over : runaway[p] # Never /\ tick.now - runaway[p] >= Duration[d]}
  IN  /\ Turn(d)
      /\ Report(d, [k \in Of(d, due) |-> Urgency(d, tick.now - runaway[k[2]])],
                Cleared(d, Looked(d) \ Over))
      /\ runaway' = Collected(RunawayStates, Never)
      /\ UNCHANGED <<hung, known, events, met, looks, told>>

-----------------------------------------------------------------------------
(* HungProcessDetector                                                     *)

NoHung == [since |-> Never]
Hung == [since : Time, wasBusy : BOOLEAN, peaked : BOOLEAN]

\* The first look only takes notes, whatever it sees.
FirstLook(p) ==
  [since |-> tick.now, wasBusy |-> FALSE, peaked |-> tick.snap[p].load = "high"]

\* A busy process has its idle time start over.
Stirred(p) ==
  [since |-> tick.now, wasBusy |-> TRUE,
   peaked |-> hung[p].peaked \/ tick.snap[p].load = "high"]

Again == {p \in Looked("hung_process") : hung[p] # NoHung}
Busy == {p \in Again : tick.snap[p].load # "idle"}

HungStates ==
  [p \in Pids |->
    IF p \in Busy THEN Stirred(p)
    ELSE IF p \in Looked("hung_process") \ Again THEN FirstLook(p)
    ELSE hung[p]]

\* Prior-activity gate: a process never seen active is a daemon, not a hang.
\* Bytes moved since the first look imply wasBusy, so they need no test.
HungProcess ==
  LET d == "hung_process"
      due == {p \in Again \ Busy :
                /\ tick.now - hung[p].since >= Duration[d]
                /\ hung[p].wasBusy \/ hung[p].peaked}
  IN  /\ Turn(d)
      /\ Report(d, [k \in Of(d, due) |-> Urgency(d, tick.now - hung[k[2]].since)],
                Cleared(d, Busy))
      /\ hung' = Collected(HungStates, NoHung)
      /\ UNCHANGED <<runaway, known, events, met, looks, told>>

-----------------------------------------------------------------------------
(* SpawnStormDetector                                                      *)

\* Every pid the detector does not know counts as a new child of its parent.
Newborn == Live(tick.snap) \ known
ChildrenFound(p) ==
  {<<c, tick.snap[c].gen, tick.now>> : c \in {c \in Newborn : tick.snap[c].parent = p}}

\* Children found longer ago than the window are dropped.
Fresh(p) == {e \in events[p] : e[3] > tick.now - Window}

SpawnStorm ==
  LET d == "spawn_storm"
      counted == [p \in Pids |-> Fresh(p) \cup ChildrenFound(p)]
      storms == {p \in Looked(d) : counted[p] # {} /\ Cardinality(counted[p]) >= MaxChildren}
  IN  /\ Turn(d)
      /\ Report(d, AllOf(d, storms, "critical"), {})
      /\ known' = Live(tick.snap)
      /\ events' = counted
      /\ UNCHANGED <<runaway, hung, met, looks, told>>

-----------------------------------------------------------------------------
(* NewProcessDetector                                                      *)

\* Who is met, and stays known while the snapshots have it.
MetNow == Live(tick.snap)

\* A process whose path could not be read is met without a word.
NewProcess ==
  LET d == "new_process"
  IN  /\ Turn(d)
      /\ \E new \in SUBSET {p \in Looked(d) \ met : tick.snap[p].name \in Suspicious} :
           /\ Report(d, AllOf(d, new, "info"), {})
           /\ told' = [x \in Procs |->
                IF x[1] \in new /\ tick.snap[x[1]].gen = x[2] THEN told[x] + 1 ELSE told[x]]
      /\ met' = MetNow
      /\ UNCHANGED <<runaway, hung, known, events, looks>>

-----------------------------------------------------------------------------
(* The detectors that keep no map, and the one for connections             *)

\* OrphanDetector: a parent that is not in the snapshot, and a load.
Orphan ==
  LET d == "orphan"
      orphans == {p \in Looked(d) :
        /\ tick.snap[p].parent # 0
        /\ tick.snap[p].parent \notin Live(tick.snap)
        /\ tick.snap[p].load = "high"}
  IN  /\ Turn(d)
      /\ Report(d, AllOf(d, orphans, "info"), {})
      /\ UNCHANGED <<maps, told>>

\* MemoryLeakDetector: the regression over the history of a pid.
MemoryLeak ==
  /\ Turn("memory_leak")
  /\ \E leaks \in SUBSET Looked("memory_leak") :
       Report("memory_leak", AllOf("memory_leak", leaks, "warning"), {})
  /\ UNCHANGED <<maps, told>>

\* Who may hold a socket in this scene, 0 being the system.
Holders == {p \in Pids : scene.gens[p] > 0}

\* PortConflictDetector: the age of a waiting socket; the list of ports may
\* name a process that is gone, and knows no ignore list.
PortConflict ==
  /\ Turn("port_conflict")
  /\ \E stuck \in SUBSET (Holders \cup {0}) :
       Report("port_conflict", AllOf("port_conflict", stuck, "warning"), {})
  /\ UNCHANGED <<maps, told>>

\* Before ports are sampled for the first time there is nothing to count.
NoPortsYet ==
  /\ Turn("network_anomaly")
  /\ Report("network_anomaly", NoRaise, {})
  /\ UNCHANGED <<maps, told>>

\* NetworkAnomalyDetector: a count over the system's cap, and bursts of pids
\* whose counts it has seen often enough.
NetworkAnomaly ==
  LET d == "network_anomaly"
      system == {<<"network_anomaly_system", 0>>}
  IN  /\ Turn(d)
      /\ \E over \in BOOLEAN, connected \in SUBSET Holders :
         \E bursts \in SUBSET {p \in connected : looks[p] >= WarmUp
                                 /\ (p \in Live(tick.snap) => p \in Looked(d))} :
           /\ Report(d,
                [k \in Of(d, bursts) \cup (IF over THEN system ELSE {}) |->
                   IF k \in system THEN "critical" ELSE "warning"],
                IF over THEN {} ELSE system)
           /\ looks' = [p \in Pids |->
                IF p \notin connected THEN 0
                ELSE IF looks[p] < WarmUp THEN looks[p] + 1 ELSE WarmUp]
      /\ UNCHANGED <<runaway, hung, known, events, met, told>>

Analyze ==
  \/ SpawnStorm \/ MemoryLeak \/ HungProcess \/ Orphan
  \/ RunawayCPU \/ PortConflict \/ NoPortsYet \/ NetworkAnomaly \/ NewProcess

Next ==
  \/ \E c \in Configs : SetConfig(c)
  \/ \E k \in Keys : Dismiss(k)
  \/ DismissAll
  \/ \E t \in Time : StartTick(t)
  \/ Analyze

Spec == Init /\ [][Next]_vars

-----------------------------------------------------------------------------
(* Properties                                                              *)

TypeOK ==
  /\ scene \in Scenes
  /\ changes \in 0..MaxChanges
  /\ last \in [Pids -> Process \cup {Gone}]
  /\ cfg \in Configs
  /\ tick \in [now : Time \cup {Never}, cfg : Configs,
               snap : [Pids -> Process \cup {Gone}], todo : SUBSET Detector]
  /\ tick.todo \subseteq tick.cfg.on
  /\ runaway \in [Pids -> Time \cup {Never}]
  /\ hung \in [Pids -> Hung \cup {NoHung}]
  /\ known \subseteq Pids /\ met \subseteq Pids
  /\ events \in [Pids -> SUBSET (Pids \X Gens \X Time)]
  /\ looks \in [Pids -> 0..WarmUp]
  /\ active \in [Keys -> Severity \cup {"none"}]
  /\ DOMAIN raised \subseteq Keys
  /\ \A k \in DOMAIN raised : raised[k] \in Severity
  /\ broke \in [Timed -> [Pids -> Time \cup {Never}]]
  /\ seenSince \in [Timed -> [Pids -> Time \cup {Never}]]
  /\ onSince \in Time \cup {Never}
  /\ came \subseteq Pids \X Gens \X Time
  /\ before \in [Procs -> Nat]
  /\ told \in [Procs -> Nat]

\* How long a raise of a timed detector claims the condition has lasted.
Claimed(k) ==
  IF raised[k] = "critical" /\ Critical[k[1]] >= Duration[k[1]]
  THEN Critical[k[1]] ELSE Duration[k[1]]

\* A process is reported as running away or hung only if every tick of the time
\* claimed found that same process over the threshold, or idle.  The one way
\* out is a detector that did not look all that time: it was off, it passed the
\* process over, or the pid belonged to another one.
SustainedWhileWatched ==
  \A k \in DOMAIN raised : k[1] \in Timed =>
    \/ broke[k[1]][k[2]] <= tick.now - Claimed(k)
    \/ seenSince[k[1]][k[2]] > tick.now - Claimed(k)

\* The comings of a pid's children into the snapshot within the last window.
Recent(p) == {e \in came : Parent[e[1]] = p /\ e[3] > tick.now - Window}

\* A storm is reported only for a process whose children came into the snapshot
\* that often within the window, once the detector has been on for a window:
\* no child is counted twice for one coming, and those counted before a
\* pause have been forgotten by then.
StormsAreRecent ==
  \A k \in DOMAIN raised : k[1] = "spawn_storm" =>
    \/ Cardinality(Recent(k[2])) >= MaxChildren
    \/ onSince > tick.now - Window

\* When the tick is past a detector, no process it found calm has its alert,
\* whatever was dismissed or switched meanwhile.  The hung detector clears from
\* its second look on.
CalmIsCleared ==
  \A d \in Timed, p \in Pids :
    /\ d \in tick.cfg.on \ tick.todo
    /\ seenSince[d][p] # Never
    /\ d = "hung_process" => seenSince[d][p] < tick.now
    /\ ~Holds(d, tick.snap[p])
    => active[<<d, p>>] = "none"

\* No process is reported as new twice while the snapshots have it without a
\* break, however often the detector is switched and whoever had the pid before.
ToldOnce == \A x \in Procs : told[x] <= before[x] + 1

\* "Each PID alerts at most once": whoever had it before.
AlertedOnce == \A x \in Procs : told[x] <= 1

\* The children of a pid that no snapshot had before the last window.
Comings(x) == {e \in came : <<e[1], e[2]>> = x}
Spawned(p) == {x \in Procs : Comings(x) # {} /\ Comings(x) \subseteq Recent(p)}

\* "flags processes spawning excessive children rapidly", once the detector has
\* been on for a window.
StormsAreStorms ==
  \A k \in DOMAIN raised : k[1] = "spawn_storm" =>
    \/ Cardinality(Spawned(k[2])) >= MaxChildren
    \/ onSince > tick.now - Window

\* "flags processes that sustain >= cpuThreshold for duration >=
\* durationThreshold": every tick of that time found the process over it.
SustainedAlways ==
  \A k \in DOMAIN raised : k[1] = "runaway_cpu" =>
    broke[k[1]][k[2]] <= tick.now - Duration[k[1]]

=============================================================================
