---------------------------- MODULE CollectorProofs ----------------------------
(***************************************************************************)
(* What the collector and its store keep to for every set of pids and      *)
(* adapters, any scenes, and histories of any length.                      *)
(***************************************************************************)
EXTENDS Collector, WellFoundedInduction, TLAPS

-----------------------------------------------------------------------------
(* The queries                                                             *)

QueryInv ==
  /\ perf \in [Queries -> BOOLEAN] /\ opened \in [Queries -> Nat]
  /\ QueriesAreHeld

LEMMA QueryInvNext == QueryInv /\ [Next]_vars => QueryInv'
<1> SUFFICES ASSUME QueryInv, [Next]_vars PROVE QueryInv'
  OBVIOUS
<1>1. CASE UNCHANGED <<perf, opened>>
  BY <1>1 DEF QueryInv, QueriesAreHeld
<1>2. CASE \E q \in Queries : ReadQuery(q)
  <2>1. PICK q \in Queries : ReadQuery(q)
    BY <1>2
  <2>2. CASE ~perf[q] /\ perf' = [perf EXCEPT ![q] = TRUE]
             /\ opened' = [opened EXCEPT ![q] = @ + 1]
    <3>1. perf' \in [Queries -> BOOLEAN] /\ opened' \in [Queries -> Nat]
      BY <2>2 DEF QueryInv
    <3>2. ASSUME NEW r \in Queries PROVE opened'[r] = IF perf'[r] THEN 1 ELSE 0
      <4>1. opened[r] = IF perf[r] THEN 1 ELSE 0
        BY DEF QueryInv, QueriesAreHeld
      <4>2. QED
        BY <2>2, <4>1 DEF QueryInv
    <3>3. QED
      BY <3>1, <3>2 DEF QueryInv, QueriesAreHeld
  <2>3. QED
    BY <1>1, <2>1, <2>2 DEF ReadQuery, FailedOpen
<1>3. QED
  BY <1>1, <1>2
  DEF Next, System, FastSample, CarryForward, Publish, Prune, TreeRead, TreeUpdate,
      PortsScan, PortsUpdate, Tick, meters, vars

\* newDiskPerfCounters and newGPUPerfCounters close the query they opened when
\* a counter cannot be added, so a collector holds one query or none, however
\* often it has to try.
THEOREM NoQueryLeaks == Spec => []QueriesAreHeld
<1>1. Init => QueryInv
  BY DEF Init, ReadingsInit, QueryInv, QueriesAreHeld
<1>2. QueryInv => QueriesAreHeld
  BY DEF QueryInv
<1>3. QED
  BY <1>1, <1>2, QueryInvNext, PTL DEF Spec

-----------------------------------------------------------------------------
(* The system                                                              *)

Process == [gen : Nat \ {0}, parent : Pids \cup {0}, start : Nat,
            used : Nat, spent : Nat, read : Nat]

\* A process is not the parent of itself, unless it is the idle process.
WellBorn(node, p) == node.start \in Nat /\ (node.parent = p => p = 0)

World ==
  /\ scene \in Scenes
  /\ clock \in Nat /\ born \in Nat
  /\ procs \in [Pids -> Process \cup {Gone}]
  /\ \A p \in Pids : procs[p] # Gone =>
       WellBorn(procs[p], p) /\ procs[p].spent <= procs[p].used /\ procs[p].used <= MaxUse

\* What may become of a pid between two samples.
Lives(p) ==
  \/ procs'[p] = procs[p]
  \/ procs'[p] = Gone
  \/ /\ procs[p] = Gone /\ procs'[p] \in Process /\ WellBorn(procs'[p], p)
     /\ procs'[p].used = 0 /\ procs'[p].spent = 0 /\ procs'[p].read = 0
  \/ /\ procs[p] # Gone /\ procs[p].used < MaxUse
     /\ procs'[p] = [procs[p] EXCEPT !.used = @ + 1, !.spent = @ + 1]

LEMMA WorldInit == Init => World
BY DEF Init, ReadingsInit, World

LEMMA SpawnLives ==
  ASSUME World, NEW p \in Pids, NEW parent \in Pids \cup {0}, Spawn(p, parent)
  PROVE  born' \in Nat /\ procs' \in [Pids -> Process \cup {Gone}] /\ \A q \in Pids : Lives(q)
<1> DEFINE new == [gen |-> born + 1, parent |-> parent, start |-> clock + 1,
                   used |-> 0, spent |-> 0, read |-> 0]
<1>1. new \in Process
  BY DEF Process, World
<1>2. procs' = [procs EXCEPT ![p] = new] /\ procs[p] = Gone /\ born' = born + 1
  BY DEF Spawn, Alive
<1>3. parent = p => p = 0
  BY DEF Spawn, Alive
<1>4. /\ new.used = 0 /\ new.spent = 0 /\ new.read = 0
      /\ new.start \in Nat /\ new.parent = parent
  BY DEF World
<1> HIDE DEF new
<1>5. procs' \in [Pids -> Process \cup {Gone}] /\ born' \in Nat
  BY <1>1, <1>2 DEF World
<1>6. ASSUME NEW q \in Pids PROVE Lives(q)
  <2>1. CASE q = p
    BY <1>1, <1>2, <1>3, <1>4, <2>1 DEF Lives, World, WellBorn
  <2>2. CASE q # p
    BY <1>2, <2>2 DEF Lives, World
  <2>3. QED
    BY <2>1, <2>2
<1>7. QED
  BY <1>5, <1>6

LEMMA WorkLives ==
  ASSUME World, NEW p \in Pids, Work(p)
  PROVE  procs' \in [Pids -> Process \cup {Gone}] /\ \A q \in Pids : Lives(q)
<1> DEFINE new == [procs[p] EXCEPT !.used = @ + 1, !.spent = @ + 1]
<1>1. procs[p] # Gone /\ procs[p] \in Process /\ procs[p].used < MaxUse
  <2>1. procs[p] # Gone /\ procs[p].used < scene.uses
    BY DEF Work, Alive
  <2>2. procs[p] \in Process /\ procs[p].used \in Nat
    BY <2>1 DEF World, Process
  <2>3. QED
    BY <2>1, <2>2, ReadingsAssumption DEF World
<1>2. procs' = [procs EXCEPT ![p] = new]
  BY DEF Work
<1>3. new \in Process
  <2>1. procs[p].used + 1 \in Nat /\ procs[p].spent + 1 \in Nat
    BY <1>1 DEF Process
  <2>2. QED
    BY <1>1, <2>1 DEF Process
<1>4. procs' \in [Pids -> Process \cup {Gone}]
  BY <1>2, <1>3 DEF World
<1>5. ASSUME NEW q \in Pids PROVE Lives(q)
  <2> HIDE DEF new
  <2>1. CASE q = p
    <3>1. procs'[p] = new
      BY <1>2 DEF World
    <3>2. QED
      BY <1>1, <2>1, <3>1 DEF Lives, new
  <2>2. CASE q # p
    BY <1>2, <2>2 DEF Lives, World
  <2>3. QED
    BY <2>1, <2>2
<1>6. QED
  BY <1>4, <1>5

LEMMA SystemLives ==
  ASSUME World, System
  PROVE  /\ World' /\ \A p \in Pids : Lives(p)
         /\ UNCHANGED <<scene, clock, meters>>
<1>1. UNCHANGED <<scene, clock, meters>>
  BY DEF System
<1>2. born' \in Nat /\ procs' \in [Pids -> Process \cup {Gone}] /\ \A q \in Pids : Lives(q)
  <2>1. CASE \E p \in Pids : \E parent \in Pids \cup {0} : Spawn(p, parent)
    BY <2>1, SpawnLives
  <2>2. CASE \E p \in Pids : Exit(p)
    BY <2>2 DEF Exit, World, Lives
  <2>3. CASE \E p \in Pids : Work(p)
    BY <2>3, WorkLives DEF Work, World
  <2>4. CASE \E n \in Nics : Transfer(n)
    BY <2>4 DEF Transfer, World, Lives
  <2>5. QED
    BY <2>1, <2>2, <2>3, <2>4 DEF System
<1>3. ASSUME NEW p \in Pids, procs'[p] # Gone
      PROVE  /\ WellBorn(procs'[p], p)
             /\ procs'[p].spent <= procs'[p].used /\ procs'[p].used <= MaxUse
  <2>1. CASE procs'[p] = procs[p]
    BY <1>3, <2>1 DEF World
  <2>2. CASE procs'[p] \in Process /\ WellBorn(procs'[p], p)
             /\ procs'[p].used = 0 /\ procs'[p].spent = 0
    BY <2>2, ReadingsAssumption
  <2>3. CASE /\ procs[p] # Gone /\ procs[p].used < MaxUse
             /\ procs'[p] = [procs[p] EXCEPT !.used = @ + 1, !.spent = @ + 1]
    <3>1. procs[p] \in Process
      BY <2>3 DEF World
    <3>2. /\ procs'[p].start = procs[p].start /\ procs'[p].parent = procs[p].parent
          /\ procs'[p].used = procs[p].used + 1 /\ procs'[p].spent = procs[p].spent + 1
          /\ procs[p].used \in Nat /\ procs[p].spent \in Nat
      BY <2>3, <3>1 DEF Process
    <3>3. QED
      BY <2>3, <3>2, ReadingsAssumption DEF World, WellBorn
  <2>4. QED
    BY <1>2, <1>3, <2>1, <2>2, <2>3 DEF Lives
<1>4. QED
  BY <1>1, <1>2, <1>3 DEF World

LEMMA ReadWorld ==
  ASSUME World, NEW D, ReadProcesses(D), UNCHANGED <<scene, clock, born>>
  PROVE  World'
<1>1. ASSUME NEW p \in Pids, procs[p] # Gone
      PROVE  /\ procs'[p] \in Process /\ WellBorn(procs'[p], p)
             /\ procs'[p].spent <= procs'[p].used /\ procs'[p].used <= MaxUse
  <2> DEFINE r == IF p \in D THEN 0 ELSE clock + 1
  <2>1. procs[p] \in Process /\ r \in Nat
    BY <1>1 DEF World
  <2>2. procs'[p] = [procs[p] EXCEPT !.spent = 0, !.read = r]
    BY <1>1 DEF ReadProcesses, Alive
  <2> HIDE DEF r
  <2>3. [procs[p] EXCEPT !.spent = 0, !.read = r] \in Process
    <3> DEFINE q == [procs[p] EXCEPT !.spent = 0]
    <3>1. q \in Process
      BY <2>1 DEF Process
    <3> HIDE DEF q
    <3>2. [q EXCEPT !.read = r] \in Process
      BY <2>1, <3>1 DEF Process
    <3>3. QED
      BY <3>2 DEF q
  <2>4. /\ procs'[p].start = procs[p].start /\ procs'[p].parent = procs[p].parent
        /\ procs'[p].used = procs[p].used /\ procs'[p].spent = 0 /\ procs[p].used \in Nat
    BY <2>1, <2>2 DEF Process
  <2>5. QED
    BY <1>1, <2>2, <2>3, <2>4 DEF World, WellBorn
<1>2. procs' = [p \in Pids |-> procs'[p]] /\ \A p \in Pids : procs[p] = Gone => procs'[p] = Gone
  BY DEF ReadProcesses, Alive
<1>3. procs' \in [Pids -> Process \cup {Gone}]
  BY <1>1, <1>2
<1>4. QED
  BY <1>1, <1>2, <1>3 DEF World

\* The steps, by what they do to the processes and to the readings.
Others ==
  \/ CarryForward \/ Publish \/ Prune \/ TreeRead \/ TreeUpdate \/ PortsScan \/ PortsUpdate
  \/ Tick \/ UNCHANGED vars

LEMMA OthersKeep ==
  ASSUME World, Others
  PROVE  UNCHANGED <<scene, world, meters>> /\ clock' \in Nat
BY DEF Others, World, CarryForward, Publish, Prune, TreeRead, TreeUpdate, PortsScan,
   PortsUpdate, Tick, vars

LEMMA StepKinds ==
  [Next]_vars =>
    \/ System /\ UNCHANGED <<store, names, since, loops, samples>>
    \/ FastSample
    \/ Others
BY DEF Next, Others

\* What a sample takes and holds.
Took(D, T, N) ==
  /\ T \subseteq Alive
  /\ IF T = {} THEN UNCHANGED <<prev, procs>> ELSE ReadProcesses(D)
  /\ IF N = {} THEN UNCHANGED <<netPrev, octets>> ELSE ReadNetwork(N)
  /\ N \subseteq Nics
  /\ fast' = [at |-> "sampled", snap |->
       [at |-> clock, procs |-> [p \in T |-> Info(p, D)],
        rates |-> [n \in N |-> [rate |-> Rate(n), due |-> DueRate(n)]],
        tree |-> NoTree, ports |-> {}]]

LEMMA SampleTakes ==
  ASSUME FastSample
  PROVE  /\ \E D, T, N : Took(D, T, N)
         /\ UNCHANGED <<scene, clock, born, store, since, tree, ports>>
<1>1. PICK D \in SUBSET (IF "deny" \in scene.does THEN Alive ELSE {}) :
        \E T \in Trimmed(D) \cup (IF "deny" \in scene.does THEN {{}} ELSE {}) :
          /\ IF T = {} THEN UNCHANGED <<prev, procs>> ELSE ReadProcesses(D)
          /\ \E N \in IF "transfer" \in scene.does THEN SUBSET Nics ELSE {{}} :
               /\ IF N = {} THEN UNCHANGED <<netPrev, octets>> ELSE ReadNetwork(N)
               /\ fast' = [at |-> "sampled", snap |->
                    [at |-> clock, procs |-> [p \in T |-> Info(p, D)],
                     rates |-> [n \in N |-> [rate |-> Rate(n), due |-> DueRate(n)]],
                     tree |-> NoTree, ports |-> {}]]
          /\ names' = [p \in T |-> procs[p].gen]
  BY DEF FastSample
<1>2. PICK T \in Trimmed(D) \cup {{}} :
          /\ IF T = {} THEN UNCHANGED <<prev, procs>> ELSE ReadProcesses(D)
          /\ \E N \in IF "transfer" \in scene.does THEN SUBSET Nics ELSE {{}} :
               /\ IF N = {} THEN UNCHANGED <<netPrev, octets>> ELSE ReadNetwork(N)
               /\ fast' = [at |-> "sampled", snap |->
                    [at |-> clock, procs |-> [p \in T |-> Info(p, D)],
                     rates |-> [n \in N |-> [rate |-> Rate(n), due |-> DueRate(n)]],
                     tree |-> NoTree, ports |-> {}]]
  BY <1>1
<1>3. T \subseteq Alive
  BY DEF Trimmed
<1>4. PICK N \in SUBSET Nics :
        /\ IF N = {} THEN UNCHANGED <<netPrev, octets>> ELSE ReadNetwork(N)
        /\ fast' = [at |-> "sampled", snap |->
             [at |-> clock, procs |-> [p \in T |-> Info(p, D)],
              rates |-> [n \in N |-> [rate |-> Rate(n), due |-> DueRate(n)]],
              tree |-> NoTree, ports |-> {}]]
  BY <1>2
<1>5. Took(D, T, N)
  BY <1>2, <1>3, <1>4 DEF Took
<1>6. QED
  BY <1>5 DEF FastSample

LEMMA WorldNext == World /\ [Next]_vars => World'
<1> SUFFICES ASSUME World, [Next]_vars PROVE World'
  OBVIOUS
<1>1. CASE FastSample
  <2>1. PICK D : \E T, N : Took(D, T, N)
    BY <1>1, SampleTakes
  <2>2. UNCHANGED <<scene, clock, born>>
    BY <1>1, SampleTakes
  <2>3. CASE UNCHANGED procs
    BY <2>2, <2>3 DEF World
  <2>4. CASE ReadProcesses(D)
    BY <2>2, <2>4, ReadWorld
  <2>5. QED
    BY <2>1, <2>3, <2>4 DEF Took
<1>2. CASE Others
  BY <1>2, OthersKeep DEF World, world
<1>3. QED
  BY <1>1, <1>2, SystemLives, StepKinds

-----------------------------------------------------------------------------
(* The tree                                                                *)

GoodNodes(nodes) == \A p \in DOMAIN nodes : p \in Pids /\ WellBorn(nodes[p], p)

IsSnap(s) ==
  s = [at |-> s.at, procs |-> s.procs, rates |-> s.rates, tree |-> s.tree, ports |-> s.ports]

\* What the loops hold came from the system.
FastGood ==
  fast # Waits => /\ fast = [at |-> fast.at, snap |-> fast.snap]
                  /\ IsSnap(fast.snap) /\ GoodNodes(fast.snap.procs)
LatestGood == latest # Waits => IsSnap(latest) /\ GoodNodes(latest.procs)
TreeGood == tree # Waits => GoodNodes(tree.of) /\ tree.tree = BuildProcessTree(tree.of)
LatestComesFirst == tree # Waits \/ ports # Waits => latest # Waits

TreeInv == FastGood /\ LatestGood /\ TreeGood /\ LatestComesFirst

LEMMA TreeInvInit == Init => TreeInv
BY DEF Init, ReadingsInit, TreeInv, FastGood, LatestGood, TreeGood, LatestComesFirst

LEMMA SampleGood ==
  ASSUME World, NEW D, NEW T, NEW N, Took(D, T, N)
  PROVE  FastGood'
<1> DEFINE nodes == [p \in T |-> Info(p, D)]
<1>1. GoodNodes(nodes)
  <2> SUFFICES ASSUME NEW p \in T PROVE p \in Pids /\ WellBorn(Info(p, D), p)
    BY DEF GoodNodes
  <2>1. p \in Pids /\ WellBorn(procs[p], p)
    BY DEF Took, Alive, World
  <2>2. Info(p, D).start = (IF p \in D THEN 0 ELSE procs[p].start)
        /\ Info(p, D).parent = procs[p].parent
    BY DEF Info
  <2>3. QED
    BY <2>1, <2>2 DEF WellBorn
<1> HIDE DEF nodes
<1>2. fast' = [at |-> "sampled", snap |->
       [at |-> clock, procs |-> nodes,
        rates |-> [n \in N |-> [rate |-> Rate(n), due |-> DueRate(n)]],
        tree |-> NoTree, ports |-> {}]]
  BY DEF Took, nodes
<1>3. QED
  BY <1>1, <1>2 DEF FastGood, IsSnap

LEMMA TreeInvNext ==
  ASSUME World, TreeInv, [Next]_vars
  PROVE  TreeInv'
<1>1. CASE FastSample
  <2>1. UNCHANGED <<latest, tree, ports>>
    BY <1>1, SampleTakes DEF store
  <2>2. FastGood'
    BY <1>1, SampleTakes, SampleGood
  <2>3. QED
    BY <2>1, <2>2 DEF TreeInv, LatestGood, TreeGood, LatestComesFirst
<1>2. CASE CarryForward
  <2>1. fast # Waits /\ UNCHANGED <<latest, tree, ports>>
    BY <1>2 DEF CarryForward, Waits, store
  <2>2. PICK t, r : fast' = [fast EXCEPT !.at = "carried", !.snap.tree = t, !.snap.ports = r]
    BY <1>2 DEF CarryForward
  <2>3. /\ fast' = [at |-> fast'.at, snap |-> fast'.snap]
        /\ fast'.snap = [fast.snap EXCEPT !.tree = t, !.ports = r]
    BY <2>1, <2>2 DEF TreeInv, FastGood
  <2>4. IsSnap(fast'.snap) /\ fast'.snap.procs = fast.snap.procs
    BY <2>1, <2>3 DEF TreeInv, FastGood, IsSnap
  <2>5. QED
    BY <2>1, <2>3, <2>4 DEF TreeInv, FastGood, LatestGood, TreeGood, LatestComesFirst
<1>3. CASE Publish
  <2>1. /\ fast # Waits /\ latest' = fast.snap /\ fast' = Waits /\ UNCHANGED <<tree, ports>>
    BY <1>3 DEF Publish, SetLatest, Waits
  <2>2. latest' # Waits
    BY <2>1 DEF TreeInv, FastGood, IsSnap, Waits
  <2>3. QED
    BY <2>1, <2>2 DEF TreeInv, FastGood, LatestGood, TreeGood, LatestComesFirst
<1>4. CASE TreeRead
  <2>1. /\ latest # Waits /\ UNCHANGED <<latest, fast, ports>>
        /\ tree' = [at |-> "built", of |-> latest.procs, tree |-> BuildProcessTree(latest.procs)]
    BY <1>4 DEF TreeRead, store
  <2>2. tree'.of = latest.procs /\ tree'.tree = BuildProcessTree(latest.procs)
    BY <2>1
  <2>3. QED
    BY <2>1, <2>2 DEF TreeInv, FastGood, LatestGood, TreeGood, LatestComesFirst
<1>5. CASE TreeUpdate \/ PortsUpdate
  <2>1. latest # Waits
    BY <1>5 DEF TreeUpdate, PortsUpdate, TreeInv, LatestComesFirst, Waits
  <2>2. PICK x : latest' = [latest EXCEPT !.tree = x] \/ latest' = [latest EXCEPT !.ports = x]
    BY <1>5 DEF TreeUpdate, PortsUpdate, UpdateLatest
  <2>3. IsSnap(latest') /\ latest'.procs = latest.procs /\ latest' # Waits
    BY <2>1, <2>2 DEF TreeInv, LatestGood, IsSnap, Waits
  <2>4. fast' = fast /\ (tree' = tree \/ tree' = Waits)
    BY <1>5 DEF TreeUpdate, PortsUpdate
  <2>5. QED
    BY <2>1, <2>3, <2>4 DEF TreeInv, FastGood, LatestGood, TreeGood, LatestComesFirst
<1>6. CASE PortsScan
  BY <1>6 DEF PortsScan, TreeInv, FastGood, LatestGood, TreeGood, LatestComesFirst, store
<1>7. CASE UNCHANGED <<latest, fast, tree, ports>>
  BY <1>7 DEF TreeInv, FastGood, LatestGood, TreeGood, LatestComesFirst
<1>8. QED
  BY <1>1, <1>2, <1>3, <1>4, <1>5, <1>6, <1>7, StepKinds
  DEF Others, Prune, Tick, vars, store, loops

\* Of any processes there is one that no other of them can have above it.
LEMMA Eldest ==
  ASSUME NEW nodes, GoodNodes(nodes), StartsKnown(nodes),
         NEW S \in SUBSET DOMAIN nodes, S # {}
  PROVE  \E p \in S : \A q \in S : nodes[p].start <= nodes[q].start
<1> DEFINE starts == {nodes[p].start : p \in S}
<1>1. starts \subseteq Nat /\ starts # {}
  BY DEF GoodNodes, WellBorn
<1>2. PICK x \in starts : \A y \in starts : ~(<<y, x>> \in OpToRel(<, Nat))
  BY <1>1, NatLessThanWellFounded, WFMin
<1>3. \A y \in starts : ~(y < x)
  <2> HIDE DEF starts
  <2> SUFFICES ASSUME NEW y \in starts, y < x PROVE FALSE
    OBVIOUS
  <2>1. <<y, x>> \in {ss \in Nat \X Nat : ss[1] < ss[2]}
    BY <1>1
  <2>2. QED
    BY <1>2, <2>1, Zenon DEF OpToRel
<1>4. PICK p \in S : nodes[p].start = x
  BY <1>2
<1>5. ASSUME NEW q \in S PROVE nodes[p].start <= nodes[q].start
  <2>1. nodes[q].start \in starts /\ x \in Nat
    BY <1>1
  <2>2. ~(nodes[q].start < x) /\ nodes[q].start \in Nat
    BY <1>1, <1>3, <2>1
  <2>3. QED
    BY <1>4, <2>1, <2>2
<1>6. QED
  BY <1>5

\* BuildProcessTree (tree.go) makes a root of a process whose parent started
\* after it, so no processes hide each other in a cycle of pids used again, as
\* long as the starts of all are known and differ.
THEOREM NobodyIsLost == Spec => []TreeHasAll
<1>1. TreeInv => TreeHasAll
  <2> SUFFICES ASSUME TreeInv, tree # Waits, StartsKnown(tree.of),
                      NEW S \in (SUBSET DOMAIN tree.of) \ {{}}
               PROVE  \E p \in S : \/ p \in tree.tree.roots
                                  \/ \E q \in DOMAIN tree.of \ S : p \in tree.tree.under[q]
    BY DEF TreeHasAll
  <2> DEFINE nodes == tree.of
  <2>1. GoodNodes(nodes) /\ tree.tree = BuildProcessTree(nodes)
    BY DEF TreeInv, TreeGood
  <2>2. PICK p \in S : \A q \in S : nodes[p].start <= nodes[q].start
    <3>1. S \in SUBSET DOMAIN nodes /\ S # {} /\ StartsKnown(nodes)
      OBVIOUS
    <3> HIDE DEF nodes
    <3>2. QED
      BY <2>1, <3>1, Eldest
  <2>3. CASE IsRoot(nodes, p)
    BY <2>1, <2>2, <2>3 DEF BuildProcessTree
  <2>4. CASE ~IsRoot(nodes, p)
    <3> DEFINE q == nodes[p].parent
    <3>1. q # 0 /\ q \in DOMAIN nodes /\ ~Orphan(nodes, p)
      BY <2>4 DEF IsRoot
    <3>2. q # p
      BY <2>1, <2>2, <3>1 DEF GoodNodes, WellBorn
    <3>3. nodes[q].start < nodes[p].start
      <4>1. nodes[q].start <= nodes[p].start
        BY <2>1, <2>2, <3>1 DEF Orphan, StartsKnown, GoodNodes, WellBorn
      <4>2. nodes[q].start # nodes[p].start
        BY <2>2, <3>1, <3>2 DEF StartsKnown
      <4>3. QED
        BY <2>1, <2>2, <3>1, <4>1, <4>2 DEF GoodNodes, WellBorn
    <3>4. q \notin S
      BY <2>1, <2>2, <3>1, <3>3 DEF GoodNodes, WellBorn
    <3>5. p \in tree.tree.under[q]
      BY <2>1, <2>2, <2>4, <3>1 DEF BuildProcessTree
    <3>6. QED
      BY <2>2, <3>1, <3>4, <3>5
  <2>5. QED
    BY <2>3, <2>4
<1>2. World /\ TreeInv /\ [Next]_vars => (World /\ TreeInv)'
  BY WorldNext, TreeInvNext
<1>3. QED
  BY <1>1, <1>2, WorldInit, TreeInvInit, PTL DEF Spec

-----------------------------------------------------------------------------
(* The readings                                                            *)

LEMMA SmallMod ==
  ASSUME NEW n \in Nat \ {0}, NEW x \in Nat, x < n
  PROVE  x % n = x
OBVIOUS

\* What the collector subtracts is what a process had used when it was read.
Baseline ==
  \A p \in Pids : procs[p] # Gone /\ procs[p].read # 0 =>
    /\ p \in DOMAIN prev
    /\ prev[p] = [used |-> procs[p].used - procs[p].spent, at |-> procs[p].read - 1]

UsageInv == Baseline /\ UsageIsMeasured

LEMMA UsageInvInit == Init => UsageInv
BY DEF Init, ReadingsInit, UsageInv, Baseline, UsageIsMeasured

LEMMA LivesBaseline ==
  ASSUME World, Baseline, \A p \in Pids : Lives(p), UNCHANGED prev
  PROVE  Baseline'
<1> SUFFICES ASSUME NEW p \in Pids, procs'[p] # Gone, procs'[p].read # 0
             PROVE  /\ p \in DOMAIN prev
                    /\ prev[p] = [used |-> procs'[p].used - procs'[p].spent,
                                  at |-> procs'[p].read - 1]
  BY DEF Baseline
<1>1. CASE procs'[p] = procs[p]
  BY <1>1 DEF Baseline
<1>2. CASE /\ procs[p] # Gone
           /\ procs'[p] = [procs[p] EXCEPT !.used = @ + 1, !.spent = @ + 1]
  <2>1. procs[p] \in Process
    BY <1>2 DEF World
  <2>2. /\ procs'[p].used = procs[p].used + 1 /\ procs'[p].spent = procs[p].spent + 1
        /\ procs'[p].read = procs[p].read
        /\ procs[p].used \in Nat /\ procs[p].spent \in Nat
    BY <1>2, <2>1 DEF Process
  <2>3. procs'[p].used - procs'[p].spent = procs[p].used - procs[p].spent
    BY <2>2
  <2>4. QED
    BY <1>2, <2>2, <2>3 DEF Baseline
<1>3. QED
  BY <1>1, <1>2 DEF Lives

LEMMA ReadBaseline ==
  ASSUME World, NEW D, ReadProcesses(D)
  PROVE  Baseline'
<1> SUFFICES ASSUME NEW p \in Pids, procs'[p] # Gone, procs'[p].read # 0
             PROVE  /\ p \in DOMAIN prev'
                    /\ prev'[p] = [used |-> procs'[p].used - procs'[p].spent,
                                   at |-> procs'[p].read - 1]
  BY DEF Baseline
<1>1. p \in Alive /\ procs[p] \in Process
  BY DEF ReadProcesses, Alive, World
<1>2. procs'[p] = [procs[p] EXCEPT !.spent = 0, !.read = IF p \in D THEN 0 ELSE clock + 1]
  BY <1>1 DEF ReadProcesses
<1>3. p \notin D
  BY <1>1, <1>2 DEF Process
<1>4. procs'[p].used = procs[p].used /\ procs'[p].spent = 0 /\ procs'[p].read = clock + 1
  BY <1>1, <1>2, <1>3 DEF Process
<1>5. p \in DOMAIN prev' /\ prev'[p] = [used |-> procs[p].used, at |-> clock]
  BY <1>1, <1>3 DEF ReadProcesses, Baselines
<1>6. procs[p].used \in Nat /\ clock \in Nat
  BY <1>1 DEF World, Process
<1>7. procs'[p].used - procs'[p].spent = procs[p].used /\ procs'[p].read - 1 = clock
  BY <1>4, <1>6
<1>8. QED
  BY <1>5, <1>7

\* The difference the collector computes is the time the process has used.
LEMMA UsageIsDue ==
  ASSUME World, Baseline, NEW p \in Alive, NEW D, Due(p, D) # -1
  PROVE  Usage(p, D) = Due(p, D)
<1>1. p \in Pids /\ procs[p] \in Process /\ procs[p] # Gone
  BY DEF Alive, World
<1>2. p \notin D /\ procs[p].read # 0 /\ procs[p].read # clock + 1
  BY DEF Due
<1>3. /\ p \in DOMAIN prev
      /\ prev[p].used = procs[p].used - procs[p].spent /\ prev[p].at = procs[p].read - 1
  <2>1. /\ p \in DOMAIN prev
        /\ prev[p] = [used |-> procs[p].used - procs[p].spent, at |-> procs[p].read - 1]
    BY <1>1, <1>2 DEF Baseline
  <2>2. QED
    BY <2>1
<1>4. /\ procs[p].used \in Nat /\ procs[p].spent \in Nat /\ procs[p].read \in Nat
      /\ clock \in Nat /\ procs[p].spent <= MaxUse
  BY <1>1, ReadingsAssumption DEF World, Process
<1>5. clock # prev[p].at /\ clock - prev[p].at = clock + 1 - procs[p].read
  BY <1>2, <1>3, <1>4
<1>6. procs[p].used - prev[p].used = procs[p].spent
  BY <1>3, <1>4
<1>7. procs[p].spent % Wrap = procs[p].spent
  BY <1>4, SmallMod, ReadingsAssumption
<1>8. QED
  BY <1>2, <1>3, <1>5, <1>6, <1>7 DEF Usage, Due

\* A step that takes no sample keeps the readings that were taken.
LEMMA OthersFast ==
  ASSUME FastGood, Others
  PROVE  fast' # Waits => /\ fast # Waits /\ fast'.snap.at = fast.snap.at
                          /\ fast'.snap.procs = fast.snap.procs
                          /\ fast'.snap.rates = fast.snap.rates
<1>1. CASE CarryForward
  <2>1. fast # Waits
    BY <1>1 DEF CarryForward, Waits
  <2>2. PICK t, r : fast' = [fast EXCEPT !.at = "carried", !.snap.tree = t, !.snap.ports = r]
    BY <1>1 DEF CarryForward
  <2>3. fast'.snap = [fast.snap EXCEPT !.tree = t, !.ports = r]
    BY <2>1, <2>2 DEF FastGood
  <2>4. QED
    BY <2>1, <2>3 DEF FastGood, IsSnap
<1>2. QED
  BY <1>1 DEF Others, Publish, Prune, TreeRead, TreeUpdate, PortsScan, PortsUpdate,
     Tick, vars, loops

LEMMA UsageInvNext ==
  ASSUME World, FastGood, UsageInv, [Next]_vars
  PROVE  UsageInv'
<1>1. CASE System /\ UNCHANGED <<store, names, since, loops, samples>>
  <2>1. Baseline'
    BY <1>1, SystemLives, LivesBaseline DEF UsageInv, meters
  <2>2. QED
    BY <1>1, <2>1 DEF UsageInv, UsageIsMeasured, loops
<1>2. CASE FastSample
  <2>1. PICK D : \E T, N : Took(D, T, N)
    BY <1>2, SampleTakes
  <2>2. PICK T, N : Took(D, T, N)
    BY <2>1
  <2>3. Baseline'
    BY <2>2, ReadBaseline DEF Took, UsageInv, Baseline
  <2>4. fast'.snap.procs = [p \in T |-> Info(p, D)]
    BY <2>2 DEF Took
  <2>5. ASSUME NEW p \in T, Info(p, D).due >= 0
        PROVE  Info(p, D).cpu = Info(p, D).due
    <3>1. Info(p, D).due = Due(p, D) /\ Info(p, D).cpu = Usage(p, D)
      BY DEF Info
    <3>2. Due(p, D) # -1
      BY <2>5, <3>1
    <3>3. p \in Alive
      BY <2>2 DEF Took
    <3>4. QED
      BY <3>1, <3>2, <3>3, UsageIsDue DEF UsageInv
  <2>6. QED
    BY <2>3, <2>4, <2>5 DEF UsageInv, UsageIsMeasured
<1>3. CASE Others
  <2>1. Baseline'
    BY <1>3, OthersKeep DEF UsageInv, Baseline, world, meters
  <2>2. QED
    BY <1>3, <2>1, OthersFast DEF UsageInv, UsageIsMeasured
<1>4. QED
  BY <1>1, <1>2, <1>3, StepKinds

\* What the collector subtracts is what an adapter had moved in the table.
RateBase ==
  /\ octets \in [Nics -> [count : Nat, moved : Nat, read : Nat]]
  /\ \A n \in Nics : octets[n].read # 0 =>
       /\ n \in DOMAIN netPrev
       /\ netPrev[n] = [count |-> octets[n].count - octets[n].moved, at |-> octets[n].read - 1]

RateInv == RateBase /\ RatesAreMeasured

LEMMA RateInvInit == Init => RateInv
BY DEF Init, ReadingsInit, RateInv, RateBase, RatesAreMeasured

LEMMA TransferBase ==
  ASSUME RateBase, NEW n \in Nics, Transfer(n), UNCHANGED netPrev
  PROVE  RateBase'
<1> DEFINE new == [octets[n] EXCEPT !.count = @ + 1, !.moved = @ + 1]
<1>1. octets' = [octets EXCEPT ![n] = new]
  BY DEF Transfer
<1>2. octets[n] \in [count : Nat, moved : Nat, read : Nat]
  BY DEF RateBase
<1>3. /\ new.count = octets[n].count + 1 /\ new.moved = octets[n].moved + 1
      /\ new.read = octets[n].read
  BY <1>2
<1>4. new \in [count : Nat, moved : Nat, read : Nat]
  <2>1. octets[n].count + 1 \in Nat /\ octets[n].moved + 1 \in Nat
    BY <1>2
  <2>2. QED
    BY <1>2, <2>1
<1> HIDE DEF new
<1>5. octets' \in [Nics -> [count : Nat, moved : Nat, read : Nat]]
  BY <1>1, <1>4 DEF RateBase
<1>6. ASSUME NEW m \in Nics, octets'[m].read # 0
      PROVE  /\ m \in DOMAIN netPrev
             /\ netPrev[m] = [count |-> octets'[m].count - octets'[m].moved,
                              at |-> octets'[m].read - 1]
  <2>1. CASE m = n
    <3>1. octets'[m] = new
      BY <1>1, <2>1 DEF RateBase
    <3>2. new.count - new.moved = octets[n].count - octets[n].moved
      BY <1>2, <1>3
    <3>3. QED
      BY <1>3, <1>6, <2>1, <3>1, <3>2 DEF RateBase
  <2>2. CASE m # n
    BY <1>1, <1>6, <2>2 DEF RateBase
  <2>3. QED
    BY <2>1, <2>2
<1>7. QED
  BY <1>5, <1>6 DEF RateBase

LEMMA ReadBase ==
  ASSUME World, RateBase, NEW N, ReadNetwork(N)
  PROVE  RateBase'
<1>1. ASSUME NEW n \in Nics
      PROVE  /\ octets'[n] \in [count : Nat, moved : Nat, read : Nat]
             /\ octets'[n].read # 0 =>
                  /\ n \in DOMAIN netPrev'
                  /\ netPrev'[n] = [count |-> octets'[n].count - octets'[n].moved,
                                    at |-> octets'[n].read - 1]
  <2> DEFINE r == IF n \in N THEN clock + 1 ELSE 0
  <2>1. octets[n] \in [count : Nat, moved : Nat, read : Nat] /\ clock \in Nat
    BY DEF RateBase, World
  <2>2. octets'[n] = [octets[n] EXCEPT !.moved = 0, !.read = r]
    BY DEF ReadNetwork
  <2>3. r \in Nat
    BY <2>1
  <2>4. /\ octets'[n].count = octets[n].count /\ octets'[n].moved = 0 /\ octets'[n].read = r
        /\ octets'[n] \in [count : Nat, moved : Nat, read : Nat]
    <3> HIDE DEF r
    <3> DEFINE q == [octets[n] EXCEPT !.moved = 0]
    <3>1. q \in [count : Nat, moved : Nat, read : Nat]
      BY <2>1
    <3>2. q.count = octets[n].count /\ q.moved = 0 /\ octets'[n] = [q EXCEPT !.read = r]
      BY <2>1, <2>2
    <3> HIDE DEF q
    <3>3. QED
      BY <2>3, <3>1, <3>2
  <2>5. CASE n \in N
    <3>1. n \in DOMAIN netPrev' /\ netPrev'[n] = [count |-> octets[n].count, at |-> clock]
      BY <2>5 DEF ReadNetwork
    <3>2. /\ octets'[n].count - octets'[n].moved = octets[n].count
          /\ octets'[n].read - 1 = clock
      BY <2>1, <2>4, <2>5
    <3>3. QED
      BY <2>4, <3>1, <3>2
  <2>6. CASE n \notin N
    BY <2>4, <2>6
  <2>7. QED
    BY <2>5, <2>6
<1>2. octets' = [n \in Nics |-> octets'[n]]
  BY DEF ReadNetwork
<1>3. octets' \in [Nics -> [count : Nat, moved : Nat, read : Nat]]
  BY <1>1, <1>2
<1>4. QED
  BY <1>1, <1>3 DEF RateBase

LEMMA RateIsDue ==
  ASSUME World, RateBase, NEW n \in Nics, DueRate(n) # -1
  PROVE  Rate(n) = DueRate(n)
<1>1. octets[n].read # 0 /\ octets[n].read # clock + 1
  BY DEF DueRate
<1>2. n \in DOMAIN netPrev /\ netPrev[n] =
        [count |-> octets[n].count - octets[n].moved, at |-> octets[n].read - 1]
  BY <1>1 DEF RateBase
<1>3. netPrev[n].count = octets[n].count - octets[n].moved /\ netPrev[n].at = octets[n].read - 1
  BY <1>2
<1>4. /\ octets[n].count \in Nat /\ octets[n].moved \in Nat /\ octets[n].read \in Nat
      /\ clock \in Nat
  BY DEF RateBase, World
<1>5. /\ octets[n].count - netPrev[n].count = octets[n].moved /\ clock # netPrev[n].at
      /\ clock - netPrev[n].at = clock + 1 - octets[n].read
  BY <1>1, <1>3, <1>4
<1>6. QED
  BY <1>1, <1>2, <1>5 DEF Rate, Moved, DueRate

LEMMA RateInvNext ==
  ASSUME World, FastGood, RateInv, [Next]_vars
  PROVE  RateInv'
<1>1. CASE System /\ UNCHANGED <<store, names, since, loops, samples>>
  <2>1. RateBase'
    <3>1. CASE \E n \in Nics : Transfer(n)
      BY <1>1, <3>1, TransferBase DEF RateInv, System, meters
    <3>2. CASE UNCHANGED octets
      BY <1>1, <3>2 DEF RateInv, RateBase, System, meters
    <3>3. QED
      BY <1>1, <3>1, <3>2 DEF System, Spawn, Exit, Work
  <2>2. QED
    BY <1>1, <2>1 DEF RateInv, RatesAreMeasured, loops
<1>2. CASE FastSample
  <2>1. PICK D : \E T, N : Took(D, T, N)
    BY <1>2, SampleTakes
  <2>2. PICK T, N : Took(D, T, N)
    BY <2>1
  <2>3. RateBase'
    BY <2>2, ReadBase DEF Took, RateInv, RateBase
  <2>4. fast'.snap.rates = [n \in N |-> [rate |-> Rate(n), due |-> DueRate(n)]] /\ N \subseteq Nics
    BY <2>2 DEF Took
  <2>5. ASSUME NEW n \in N, DueRate(n) >= 0 PROVE Rate(n) = DueRate(n)
    BY <2>4, <2>5, RateIsDue DEF RateInv
  <2>6. QED
    BY <2>3, <2>4, <2>5 DEF RateInv, RatesAreMeasured
<1>3. CASE Others
  <2>1. RateBase'
    BY <1>3, OthersKeep DEF RateInv, RateBase, world, meters
  <2>2. QED
    BY <1>3, <2>1, OthersFast DEF RateInv, RatesAreMeasured
<1>4. QED
  BY <1>1, <1>2, <1>3, StepKinds

\* The CPU of a process and the rate of an adapter are differences to what the
\* collector keeps from an earlier sample (process.go, network.go).  Where that
\* was a reading of this very process or adapter the difference is what was
\* used or moved since; whatever exited, denied access or failed in between.
THEOREM NoReadingIsInvented == Spec => []ReadingsAreMeasured
<1> DEFINE Inv == World /\ TreeInv /\ UsageInv /\ RateInv
<1>1. Init => Inv
  BY WorldInit, TreeInvInit, UsageInvInit, RateInvInit
<1>2. Inv /\ [Next]_vars => Inv'
  BY WorldNext, TreeInvNext, UsageInvNext, RateInvNext DEF TreeInv
<1>3. Inv => ReadingsAreMeasured
  BY DEF UsageInv, RateInv, ReadingsAreMeasured
<1>4. QED
  BY <1>1, <1>2, <1>3, PTL DEF Spec

-----------------------------------------------------------------------------
(* The histories                                                           *)

LEMMA LargeMod ==
  ASSUME NEW n \in Nat \ {0}, NEW x \in Nat, n <= x, x < 2 * n
  PROVE  x % n = x - n
OBVIOUS

\* The place of the i-th sample: a ring that is not full yet begins at zero.
Place(rb, i) ==
  IF rb.count < HistoryCap THEN i - 1
  ELSE IF rb.head + i - 1 < HistoryCap THEN rb.head + i - 1 ELSE rb.head + i - 1 - HistoryCap

Entry == [at : Nat, gen : Nat]

IsRing(rb) == rb \in Rings(Entry, HistoryCap)

\* A ring holds the last entries of a log.
Holds(rb, l) ==
  /\ IsRing(rb)
  /\ rb.count = Lesser(Len(l), HistoryCap)
  /\ \A i \in 1..rb.count : rb.data[Place(rb, i)] = l[Len(l) - rb.count + i]

LEMMA PlaceIs ==
  ASSUME NEW rb, IsRing(rb), NEW i \in 1..rb.count
  PROVE  (Start(rb) + i - 1) % rb.capacity = Place(rb, i)
<1> DEFINE N == HistoryCap
<1>1. /\ N \in Nat \ {0} /\ rb.capacity = N /\ rb.head \in 0..(N - 1) /\ rb.count \in 0..N
      /\ i \in Nat /\ 1 <= i /\ i <= rb.count
      /\ rb.count < N => rb.head = rb.count
  BY CollectorAssumption DEF IsRing, Rings
<1> HIDE DEF N
<1>2. CASE rb.count < N
  <2>1. rb.head - rb.count + N = N
    BY <1>1, <1>2
  <2>2. Start(rb) = 0
    BY <1>1, <2>1, LargeMod DEF Start
  <2>3. 0 + i - 1 = i - 1 /\ i - 1 \in Nat /\ i - 1 < N
    BY <1>1, <1>2
  <2>4. (i - 1) % N = i - 1
    BY <1>1, <2>3, SmallMod
  <2>5. QED
    BY <1>1, <1>2, <2>2, <2>3, <2>4 DEF Place, N
<1>3. CASE rb.count = N
  <2>1. rb.head - rb.count + N = rb.head /\ rb.head \in Nat /\ rb.head < N
    BY <1>1, <1>3
  <2>2. Start(rb) = rb.head
    BY <1>1, <2>1, SmallMod DEF Start
  <2> DEFINE x == rb.head + i - 1
  <2>3. x \in Nat /\ x < 2 * N
    BY <1>1, <1>3
  <2>4. x % N = IF x < N THEN x ELSE x - N
    <3> HIDE DEF x
    <3>1. CASE x < N
      BY <1>1, <2>3, <3>1, SmallMod
    <3>2. CASE N <= x
      <4>1. x % N = x - N
        BY <1>1, <2>3, <3>2, LargeMod
      <4>2. QED
        BY <1>1, <2>3, <3>2, <4>1
    <3>3. QED
      BY <1>1, <2>3, <3>1, <3>2
  <2>5. QED
    BY <1>1, <1>3, <2>2, <2>4 DEF Place, N
<1>4. QED
  BY <1>1, <1>2, <1>3

LEMMA AddHolds ==
  ASSUME NEW l \in Seq(Entry), NEW item \in Entry, NEW rb, Holds(rb, l)
  PROVE  Holds(Add(rb, item), l \o <<item>>)
<1> DEFINE N == HistoryCap
           r == Add(rb, item)
           m == l \o <<item>>
<1>1. /\ N \in Nat \ {0} /\ rb.capacity = N /\ rb.head \in 0..(N - 1) /\ rb.count \in 0..N
      /\ rb.count < N => rb.head = rb.count
      /\ DOMAIN rb.data = 0..(N - 1)
      /\ rb.count = Lesser(Len(l), N)
      /\ \A i \in 1..rb.count : rb.data[Place(rb, i)] = l[Len(l) - rb.count + i]
  BY CollectorAssumption DEF Holds, IsRing, Rings
<1>2. /\ Len(l) \in Nat /\ Len(m) = Len(l) + 1 /\ m[Len(m)] = item
      /\ \A i \in 1..Len(l) : m[i] = l[i]
  OBVIOUS
<1>3. rb \in [data : [0..(N - 1) -> Entry], capacity : {N}, head : 0..(N - 1), count : 0..N]
  BY DEF Holds, IsRing, Rings
<1>4. /\ r.data = [rb.data EXCEPT ![rb.head] = item] /\ r.capacity = N
      /\ r.head = (rb.head + 1) % N
      /\ r.count = IF rb.count < N THEN rb.count + 1 ELSE rb.count
  BY <1>1, <1>3 DEF Add
<1>5. r.head = IF rb.head + 1 < N THEN rb.head + 1 ELSE 0
  <2>1. CASE rb.head + 1 < N
    BY <1>1, <1>4, <2>1, SmallMod
  <2>2. CASE rb.head + 1 = N
    <3>1. N % N = N - N
      BY <1>1, LargeMod
    <3>2. QED
      BY <1>1, <1>4, <2>2, <3>1
  <2>3. QED
    BY <1>1, <2>1, <2>2
<1>6. /\ DOMAIN r.data = 0..(N - 1) /\ r.data[rb.head] = item
      /\ \A j \in 0..(N - 1) : j # rb.head => r.data[j] = rb.data[j]
  BY <1>1, <1>4
<1>7. IsRing(r)
  <2>1. /\ r.data \in [0..(N - 1) -> Entry] /\ r.capacity = N
        /\ r.head \in 0..(N - 1) /\ r.count \in 0..N
        /\ r.count < N => r.head = r.count
    BY <1>1, <1>3, <1>4, <1>5
  <2>2. r \in [data : [0..(N - 1) -> Entry], capacity : {N}, head : 0..(N - 1), count : 0..N]
    <3> DEFINE d2 == [rb.data EXCEPT ![rb.head] = item]
               h2 == (rb.head + 1) % N
               n2 == IF rb.count < N THEN rb.count + 1 ELSE rb.count
    <3>1. d2 \in [0..(N - 1) -> Entry] /\ h2 \in 0..(N - 1) /\ n2 \in 0..N
      BY <1>4, <2>1
    <3>2. r = [rb EXCEPT !.data = d2, !.head = h2, !.count = n2]
      BY <1>1 DEF Add
    <3> HIDE DEF d2, h2, n2, r
    <3>3. QED
      BY <1>3, <3>1, <3>2
  <2> HIDE DEF r
  <2>3. QED
    BY <2>1, <2>2 DEF IsRing, Rings
<1> HIDE DEF r, m
<1>8. r.count = Lesser(Len(m), N)
  BY <1>1, <1>2, <1>4 DEF Lesser
<1>9. ASSUME NEW i \in 1..r.count
      PROVE  r.data[Place(r, i)] = m[Len(m) - r.count + i]
  <2>1. r.count \in 0..N /\ i \in Nat /\ 1 <= i /\ i <= r.count
    BY <1>1, <1>4
  <2>2. CASE rb.count < N
    <3>1. /\ rb.count = Len(l) /\ rb.head = rb.count /\ r.count = rb.count + 1
          /\ Len(m) - r.count + i = i
      BY <1>1, <1>2, <1>4, <2>1, <2>2 DEF Lesser
    <3>2. Place(r, i) = i - 1
      BY <1>1, <1>5, <2>1, <2>2, <3>1 DEF Place, N
    <3>3. CASE i = r.count
      BY <1>2, <1>6, <3>1, <3>2, <3>3
    <3>4. CASE i < r.count
      <4>1. i \in 1..rb.count /\ i \in 1..Len(l) /\ Len(l) - rb.count + i = i
        BY <1>1, <1>2, <2>1, <3>1, <3>4
      <4>2. Place(rb, i) = i - 1
        BY <2>2 DEF Place, N
      <4>3. i - 1 \in 0..(N - 1) /\ i - 1 # rb.head
        BY <1>1, <2>1, <2>2, <3>1, <3>4
      <4>4. QED
        BY <1>1, <1>2, <1>6, <3>1, <3>2, <4>1, <4>2, <4>3
    <3>5. QED
      BY <2>1, <3>1, <3>3, <3>4
  <2>3. CASE rb.count = N
    <3>1. r.count = N /\ Len(l) >= N
      BY <1>1, <1>2, <1>4, <2>3 DEF Lesser
    <3>2. CASE i = N
      <4>1. Place(r, i) = rb.head
        BY <1>1, <1>5, <3>1, <3>2 DEF Place, N
      <4>2. Len(m) - r.count + i = Len(m)
        BY <1>1, <1>2, <3>1, <3>2
      <4>3. QED
        BY <1>2, <1>6, <4>1, <4>2
    <3>3. CASE i < N
      <4>1. i + 1 \in 1..rb.count
        BY <1>1, <2>1, <2>3, <3>3
      <4>2. /\ Place(r, i) = Place(rb, i + 1)
            /\ Place(r, i) \in 0..(N - 1) /\ Place(r, i) # rb.head
        <5>1. /\ Place(r, i) = IF r.head + i - 1 < N THEN r.head + i - 1 ELSE r.head + i - 1 - N
              /\ Place(rb, i + 1) = IF rb.head + (i + 1) - 1 < N THEN rb.head + (i + 1) - 1
                                    ELSE rb.head + (i + 1) - 1 - N
          BY <1>1, <2>3, <3>1 DEF Place, N
        <5>2. CASE rb.head + 1 < N
          <6> DEFINE x == rb.head + i
          <6>1. /\ rb.head \in Nat /\ rb.head < N /\ i \in Nat /\ 1 <= i /\ i < N /\ N \in Nat
                /\ r.head = rb.head + 1
            BY <1>1, <1>5, <2>1, <3>3, <5>2
          <6>2. /\ rb.head + 1 + i - 1 = x /\ rb.head + (i + 1) - 1 = x
                /\ x \in Nat /\ x > rb.head /\ x - N < rb.head /\ x - N \in Int
            BY <6>1
          <6>3. /\ Place(r, i) = IF x < N THEN x ELSE x - N
                /\ Place(rb, i + 1) = IF x < N THEN x ELSE x - N
            BY <5>1, <6>1, <6>2
          <6> HIDE DEF x
          <6>4. CASE x < N
            BY <6>1, <6>2, <6>3, <6>4
          <6>5. CASE x >= N
            BY <6>1, <6>2, <6>3, <6>5
          <6>6. QED
            BY <6>1, <6>2, <6>4, <6>5
        <5>3. CASE rb.head + 1 = N
          BY <1>1, <1>5, <2>1, <3>3, <5>1, <5>3
        <5>4. rb.head + 1 < N \/ rb.head + 1 = N
          BY <1>1
        <5>5. QED
          BY ONLY <5>2, <5>3, <5>4
      <4>3. /\ Len(m) - r.count + i = Len(l) - rb.count + (i + 1)
            /\ Len(l) - rb.count + (i + 1) \in 1..Len(l)
        <5>1. /\ Len(m) = Len(l) + 1 /\ Len(l) \in Nat /\ N \in Nat /\ i \in Nat
              /\ 1 <= i /\ i < N /\ r.count = N /\ rb.count = N /\ Len(l) >= N
          BY <1>1, <1>2, <2>1, <2>3, <3>1, <3>3
        <5>2. QED
          BY ONLY <5>1
      <4>4. QED
        BY <1>1, <1>2, <1>6, <4>1, <4>2, <4>3
    <3>4. QED
      BY <1>1, <2>1, <3>1, <3>2, <3>3
  <2>4. QED
    BY <1>1, <2>2, <2>3
<1>10. Holds(r, m)
  BY <1>7, <1>8, <1>9 DEF Holds, N
<1>11. QED
  BY <1>10 DEF r, m

LEMMA NewRingHolds == Holds(NewRing(HistoryCap, Blank), <<>>)
<1> DEFINE N == HistoryCap
           r == NewRing(N, Blank)
           data == [i \in 0..(N - 1) |-> Blank]
<1>1. N \in Nat \ {0}
  BY CollectorAssumption
<1>2. data \in [0..(N - 1) -> Entry]
  BY DEF Blank, Entry
<1> HIDE DEF data
<1>3. r = [data |-> data, capacity |-> N, head |-> 0, count |-> 0]
  BY DEF NewRing, data
<1> HIDE DEF r, N
<1>4. r \in [data : [0..(N - 1) -> Entry], capacity : {N}, head : 0..(N - 1), count : 0..N]
  BY <1>1, <1>2, <1>3
<1>5. r.count = 0 /\ r.head = 0 /\ Len(<<>>) = 0
  BY <1>3
<1>6. QED
  BY <1>1, <1>4, <1>5 DEF Holds, IsRing, Rings, Lesser, r, N

\* What a ring reads as is the end of the log it holds.
LEMMA HeldIsRead ==
  ASSUME NEW l \in Seq(Entry), NEW rb, Holds(rb, l)
  PROVE  LET n == Lesser(Len(l), HistoryCap)
         IN  Slice(rb) = SubSeq(l, Len(l) - n + 1, Len(l))
<1> DEFINE n == Lesser(Len(l), HistoryCap)
           s == Slice(rb)
           t == SubSeq(l, Len(l) - n + 1, Len(l))
<1>1. n \in Nat /\ n <= Len(l) /\ rb.count = n /\ Len(l) \in Nat
  BY CollectorAssumption DEF Holds, Lesser
<1>2. s = [i \in 1..n |-> rb.data[(Start(rb) + i - 1) % rb.capacity]]
  BY <1>1 DEF Slice
<1>3. t = [i \in 1..n |-> l[Len(l) - n + i]]
  <2> HIDE DEF n
  <2>1. t = [i \in 1..(Len(l) - (Len(l) - n + 1) + 1) |-> l[(Len(l) - n + 1) + i - 1]]
    BY <1>1
  <2>2. Len(l) - (Len(l) - n + 1) + 1 = n
    BY <1>1
  <2>3. \A i \in 1..n : (Len(l) - n + 1) + i - 1 = Len(l) - n + i
    BY <1>1
  <2>4. QED
    BY <2>1, <2>2, <2>3
<1> HIDE DEF n
<1>4. ASSUME NEW i \in 1..n
      PROVE  rb.data[(Start(rb) + i - 1) % rb.capacity] = l[Len(l) - n + i]
  <2>1. IsRing(rb) /\ i \in 1..rb.count
    BY <1>1 DEF Holds
  <2>2. (Start(rb) + i - 1) % rb.capacity = Place(rb, i)
    BY <2>1, PlaceIs
  <2>3. rb.data[Place(rb, i)] = l[Len(l) - rb.count + i]
    BY <2>1 DEF Holds
  <2>4. QED
    BY <1>1, <2>2, <2>3
<1>5. QED
  BY <1>2, <1>3, <1>4 DEF n

\* What is recorded has a time and a process.
FastTyped ==
  fast # Waits => /\ fast.snap.at \in Nat
                  /\ \A p \in DOMAIN fast.snap.procs : fast.snap.procs[p].gen \in Nat

RingInv ==
  /\ FastTyped
  /\ DOMAIN log = DOMAIN history /\ DOMAIN seen = DOMAIN history
  /\ \A p \in DOMAIN history : log[p] \in Seq(Entry) /\ Holds(history[p], log[p])

LEMMA RingInvInit == Init => RingInv
BY DEF Init, RingInv, FastTyped

LEMMA FastTypedNext ==
  ASSUME World, FastGood, FastTyped, [Next]_vars
  PROVE  FastTyped'
<1>1. CASE FastSample
  <2>1. PICK D : \E T, N : Took(D, T, N)
    BY <1>1, SampleTakes
  <2>2. PICK T, N : Took(D, T, N)
    BY <2>1
  <2>3. fast'.snap.at = clock /\ fast'.snap.procs = [p \in T |-> Info(p, D)]
    BY <2>2 DEF Took
  <2>4. ASSUME NEW p \in T PROVE Info(p, D).gen \in Nat
    <3>1. p \in Pids /\ procs[p] \in Process
      BY <2>2 DEF Took, Alive, World
    <3>2. QED
      BY <3>1 DEF Info, Process
  <2>5. QED
    BY <2>3, <2>4 DEF FastTyped, World
<1>2. CASE Others
  BY <1>2, OthersFast DEF FastTyped
<1>3. QED
  BY <1>1, <1>2, StepKinds DEF FastTyped, loops

LEMMA PublishRings ==
  ASSUME RingInv, Publish
  PROVE  /\ DOMAIN log' = DOMAIN history' /\ DOMAIN seen' = DOMAIN history'
         /\ \A p \in DOMAIN history' : log'[p] \in Seq(Entry) /\ Holds(history'[p], log'[p])
<1> DEFINE snap == fast.snap
           listed == DOMAIN snap.procs
<1>1. snap.at \in Nat /\ \A p \in listed : snap.procs[p].gen \in Nat
  BY DEF Publish, RingInv, FastTyped, Waits
<1>2. /\ history' = [p \in DOMAIN history \cup listed |->
            IF p \notin listed THEN history[p]
            ELSE Add(IF p \in DOMAIN history THEN history[p] ELSE NewRing(HistoryCap, Blank),
                     Sample(snap, p))]
      /\ log' = [p \in DOMAIN history \cup listed |->
            (IF p \in DOMAIN history THEN log[p] ELSE <<>>)
            \o (IF p \in listed THEN <<Sample(snap, p)>> ELSE <<>>)]
      /\ DOMAIN seen' = DOMAIN seen \cup listed
  BY DEF Publish, SetLatest, Recorded, Noted
<1> HIDE DEF snap, listed
<1>3. ASSUME NEW p \in DOMAIN history \cup listed
      PROVE  log'[p] \in Seq(Entry) /\ Holds(history'[p], log'[p])
  <2> DEFINE l == IF p \in DOMAIN history THEN log[p] ELSE <<>>
             rb == IF p \in DOMAIN history THEN history[p] ELSE NewRing(HistoryCap, Blank)
             item == Sample(snap, p)
  <2>1. l \in Seq(Entry) /\ Holds(rb, l)
    <3>1. CASE p \in DOMAIN history
      BY <3>1 DEF RingInv
    <3>2. CASE p \notin DOMAIN history
      <4>1. <<>> \in Seq(Entry)
        OBVIOUS
      <4>2. QED
        BY <3>2, <4>1, NewRingHolds
    <3>3. QED
      BY <3>1, <3>2
  <2>2. CASE p \in listed
    <3>1. item \in Entry
      BY <1>1, <2>2 DEF Sample, Entry
    <3>2. history'[p] = Add(rb, item) /\ log'[p] = l \o <<item>>
      BY <1>2, <2>2
    <3> HIDE DEF l, rb, item
    <3>3. l \o <<item>> \in Seq(Entry)
      BY <2>1, <3>1
    <3>4. QED
      BY <2>1, <3>1, <3>2, <3>3, AddHolds
  <2>3. CASE p \notin listed
    <3>1. history'[p] = history[p] /\ log'[p] = log[p] \o <<>> /\ p \in DOMAIN history
      BY <1>2, <2>3
    <3>2. log[p] \in Seq(Entry)
      BY <3>1 DEF RingInv
    <3>3. log[p] \o <<>> = log[p]
      BY <3>2
    <3>4. QED
      BY <3>1, <3>2, <3>3 DEF RingInv
  <2>4. QED
    BY <2>2, <2>3
<1>4. DOMAIN history' = DOMAIN history \cup listed /\ DOMAIN log' = DOMAIN history \cup listed
  BY <1>2
<1>5. QED
  BY <1>2, <1>3, <1>4 DEF RingInv

LEMMA RingInvNext ==
  ASSUME World, FastGood, RingInv, [Next]_vars
  PROVE  RingInv'
<1>1. FastTyped'
  BY FastTypedNext DEF RingInv
<1>2. CASE Publish
  BY <1>1, <1>2, PublishRings DEF RingInv
<1>3. CASE Prune
  <2> DEFINE kept == DOMAIN seen \ Stale(clock - Keep)
  <2>1. /\ history' = [p \in kept |-> history[p]] /\ seen' = [p \in kept |-> seen[p]]
        /\ log' = [p \in kept |-> log[p]]
    BY <1>3 DEF Prune
  <2>2. kept \subseteq DOMAIN history
    BY DEF RingInv
  <2> HIDE DEF kept
  <2>3. QED
    BY <1>1, <2>1, <2>2 DEF RingInv
<1>4. CASE UNCHANGED <<history, seen, log>>
  BY <1>1, <1>4 DEF RingInv
<1>5. QED
  BY <1>2, <1>3, <1>4, StepKinds, SampleTakes
  DEF Others, CarryForward, TreeRead, TreeUpdate, PortsScan, PortsUpdate, UpdateLatest,
      Tick, vars, store

\* RingBuffer.Add and Slice: whatever exits, is listed again or is pruned, the
\* history of a pid reads as the last samples of it, in the order they were
\* taken in, for rings of any capacity.
THEOREM HistoriesAreLogs == Spec => []RingsAreLogs
<1> DEFINE Inv == World /\ TreeInv /\ RingInv
<1>1. Init => Inv
  BY WorldInit, TreeInvInit, RingInvInit
<1>2. Inv /\ [Next]_vars => Inv'
  BY WorldNext, TreeInvNext, RingInvNext DEF TreeInv
<1>3. Inv => RingsAreLogs
  BY HeldIsRead DEF RingInv, RingsAreLogs
<1>4. QED
  BY <1>1, <1>2, <1>3, PTL DEF Spec

=============================================================================
