-------------------------------- MODULE Collector --------------------------------
(***************************************************************************)
(* The Manager of internal/collector with its three loops, and the Store   *)
(* of internal/storage they meet in.  The fast loop samples the system,    *)
(* takes tree and ports from the latest snapshot and puts its own in place *)
(* of that; the tree loop and the ports loop read the store, compute and   *)
(* write into whatever snapshot is the latest by then.                     *)
(*                                                                         *)
(* main takes the first sample before it starts the loops.  A snapshot is  *)
(* its time, processes, rates, tree and bindings; the order of siblings by *)
(* CPU and the depths are left out.  External: the system, its port table. *)
(***************************************************************************)
EXTENDS Readings, Ring, Sequences

CONSTANTS
  Sockets,     \* address, port and state of a binding
  HistoryCap,  \* samples kept of a process
  Keep         \* two minutes

ASSUME CollectorAssumption ==
  /\ {HistoryCap, Keep} \subseteq Nat \ {0}
  /\ \A s \in Scenes : s.samples \in Nat

VARIABLES
  latest,   \* Store.latest
  history,  \* Store.procHistory
  seen,     \* Store.procSeen
  names,    \* Manager.latestPID
  since,    \* PortCollector.since
  fast, tree, ports,  \* what each loop holds
  samples,  \* ghost: samples taken
  log       \* ghost: for each pid with a history, all its samples

store == <<latest, history, seen, log>>
loops == <<fast, tree, ports>>
vars == <<scene, clock, world, meters, store, names, since, loops, samples>>

Waits == [at |-> "waits"]
NoTree == [roots |-> {}, under |-> [p \in {} |-> {}]]
Blank == [at |-> 0, gen |-> 0]

-----------------------------------------------------------------------------
(* Mutants of the operations below, used by the sensitivity checks only.   *)

\* A tree that trusts the pids of parents, whoever has them by now.
NoOrphans(nodes, p) == FALSE

-----------------------------------------------------------------------------
(* Store                                                                   *)

Noted(snap) ==
  [p \in DOMAIN seen \cup DOMAIN snap.procs |->
     IF p \in DOMAIN snap.procs THEN snap.at ELSE seen[p]]

Sample(snap, p) == [at |-> snap.at, gen |-> snap.procs[p].gen]

\* recordSnapshotLocked: a pid has one history, whatever process it is of.
Recorded(snap) ==
  [p \in DOMAIN history \cup DOMAIN snap.procs |->
     IF p \notin DOMAIN snap.procs THEN history[p]
     ELSE Add(IF p \in DOMAIN history THEN history[p] ELSE NewRing(HistoryCap, Blank),
              Sample(snap, p))]

SetLatest(snap) ==
  /\ latest' = snap
  /\ history' = Recorded(snap)
  /\ seen' = Noted(snap)
  /\ log' = [p \in DOMAIN history \cup DOMAIN snap.procs |->
       (IF p \in DOMAIN history THEN log[p] ELSE <<>>)
       \o (IF p \in DOMAIN snap.procs THEN <<Sample(snap, p)>> ELSE <<>>)]

\* UpdateLatest changes the latest snapshot, and no history.
UpdateLatest(snap) ==
  /\ latest' = snap
  /\ UNCHANGED <<history, seen, log>>

Stale(cutoff) == {p \in DOMAIN seen : seen[p] < cutoff}

-----------------------------------------------------------------------------
(* The fast loop                                                           *)

\* The readings of a sample.  The enumeration of processes or the table of
\* adapters may fail: the snapshot is then without them.
FastSample ==
  /\ fast = Waits
  /\ samples < scene.samples
  /\ samples' = samples + 1
  /\ \E D \in SUBSET (IF "deny" \in scene.does THEN Alive ELSE {}) :
     \E T \in Trimmed(D) \cup (IF "deny" \in scene.does THEN {{}} ELSE {}) :
       /\ IF T = {} THEN UNCHANGED <<prev, procs>> ELSE ReadProcesses(D)
       /\ \E N \in IF "transfer" \in scene.does THEN SUBSET Nics ELSE {{}} :
            /\ IF N = {} THEN UNCHANGED <<netPrev, octets>> ELSE ReadNetwork(N)
            /\ fast' = [at |-> "sampled", snap |->
                 [at |-> clock, procs |-> [p \in T |-> Info(p, D)],
                  rates |-> [n \in N |-> [rate |-> Rate(n), due |-> DueRate(n)]],
                  tree |-> NoTree, ports |-> {}]]
       /\ names' = [p \in T |-> procs[p].gen]
  /\ IF "query" \in scene.does THEN \E q \in Queries : ReadQuery(q)
     ELSE UNCHANGED <<perf, opened>>
  /\ UNCHANGED <<scene, clock, born, store, since, tree, ports>>

\* It carries tree and ports of the latest snapshot forward ...
CarryForward ==
  /\ fast.at = "sampled"
  /\ fast' = [fast EXCEPT !.at = "carried",
       !.snap.tree = IF latest = Waits THEN NoTree ELSE latest.tree,
       !.snap.ports = IF latest = Waits THEN {} ELSE latest.ports]
  /\ UNCHANGED <<scene, clock, world, meters, store, names, since, tree, ports, samples>>

\* ... which another loop may have changed when it puts its own in place.
Publish ==
  /\ fast.at = "carried"
  /\ SetLatest(fast.snap)
  /\ fast' = Waits
  /\ UNCHANGED <<scene, clock, world, meters, names, since, tree, ports, samples>>

Prune ==
  /\ "prune" \in scene.does
  /\ fast = Waits /\ latest # Waits
  /\ LET kept == DOMAIN seen \ Stale(clock - Keep)
     IN  /\ history' = [p \in kept |-> history[p]]
         /\ seen' = [p \in kept |-> seen[p]]
         /\ log' = [p \in kept |-> log[p]]
  /\ UNCHANGED <<scene, clock, world, meters, latest, names, since, loops, samples>>

-----------------------------------------------------------------------------
(* The process tree                                                        *)

\* The parent started after the process: its pid has been used again.
Orphan(nodes, p) ==
  LET parent == nodes[nodes[p].parent]
  IN  parent.start > nodes[p].start /\ parent.start > 0 /\ nodes[p].start > 0

IsRoot(nodes, p) ==
  nodes[p].parent = 0 \/ nodes[p].parent \notin DOMAIN nodes \/ Orphan(nodes, p)

BuildProcessTree(nodes) ==
  LET roots == {p \in DOMAIN nodes : IsRoot(nodes, p)}
  IN  [roots |-> roots,
       under |-> [q \in DOMAIN nodes |->
                    {p \in DOMAIN nodes \ roots : nodes[p].parent = q}]]

TreeRead ==
  /\ "tree" \in scene.does
  /\ tree = Waits /\ latest # Waits
  /\ tree' = [at |-> "built", of |-> latest.procs, tree |-> BuildProcessTree(latest.procs)]
  /\ UNCHANGED <<scene, clock, world, meters, store, names, since, fast, ports, samples>>

TreeUpdate ==
  /\ tree.at = "built"
  /\ UpdateLatest([latest EXCEPT !.tree = tree.tree])
  /\ tree' = Waits
  /\ UNCHANGED <<scene, clock, world, meters, names, since, fast, ports, samples>>

-----------------------------------------------------------------------------
(* The port bindings                                                       *)

\* Collect: a binding that the last scan had keeps the time it was first seen.
\* Its process is named by the last sample.  A table that cannot be read has
\* no rows, and its bindings are new in the next scan.
PortsScan ==
  /\ "scan" \in scene.does
  /\ ports = Waits /\ latest # Waits
  /\ \E rows \in SUBSET (Sockets \X Alive) :
       LET first == [r \in rows |-> IF r \in DOMAIN since THEN since[r] ELSE clock]
       IN  /\ since' = first
           /\ ports' = [at |-> "scanned", rows |->
                {[row |-> r, since |-> first[r],
                  process |-> IF r[2] \in DOMAIN names THEN names[r[2]] ELSE 0] : r \in rows}]
  /\ UNCHANGED <<scene, clock, world, meters, store, names, fast, tree, samples>>

PortsUpdate ==
  /\ ports.at = "scanned"
  /\ UpdateLatest([latest EXCEPT !.ports = ports.rows])
  /\ ports' = Waits
  /\ UNCHANGED <<scene, clock, world, meters, names, since, fast, tree, samples>>

-----------------------------------------------------------------------------

Init ==
  /\ ReadingsInit
  /\ latest = Waits
  /\ history = [p \in {} |-> 0]
  /\ seen = [p \in {} |-> 0]
  /\ names = [p \in {} |-> 0]
  /\ since = [r \in {} |-> 0]
  /\ fast = Waits /\ tree = Waits /\ ports = Waits
  /\ samples = 0
  /\ log = [p \in {} |-> <<>>]

Tick ==
  /\ clock < scene.time
  /\ clock' = clock + 1
  /\ UNCHANGED <<scene, world, meters, store, names, since, loops, samples>>

Next ==
  \/ System /\ UNCHANGED <<store, names, since, loops, samples>>
  \/ FastSample \/ CarryForward \/ Publish \/ Prune
  \/ TreeRead \/ TreeUpdate
  \/ PortsScan \/ PortsUpdate
  \/ Tick

Spec == Init /\ [][Next]_vars

-----------------------------------------------------------------------------
(* Properties                                                              *)

TypeOK ==
  /\ scene \in Scenes /\ clock \in 0..scene.time
  /\ born \in 0..MaxUse
  /\ DOMAIN prev \subseteq Pids /\ DOMAIN netPrev \subseteq Nics
  /\ perf \in [Queries -> BOOLEAN]
  /\ DOMAIN history = DOMAIN seen /\ DOMAIN log = DOMAIN seen
  /\ DOMAIN seen \subseteq Pids
  /\ \A p \in DOMAIN history :
       history[p] \in Rings([at : 0..clock, gen : 0..MaxUse], HistoryCap)
  /\ fast.at \in {"waits", "sampled", "carried"}
  /\ tree.at \in {"waits", "built"} /\ ports.at \in {"waits", "scanned"}

\* The ring of a process, however full and however often begun anew, reads as
\* the last samples taken since its history began, in order.
RingsAreLogs ==
  \A p \in DOMAIN history :
    LET n == Lesser(Len(log[p]), HistoryCap)
    IN  Slice(history[p]) = SubSeq(log[p], Len(log[p]) - n + 1, Len(log[p]))

\* The CPU of a process the last sample has read too is what it used since:
\* exits, denials, failed enumerations and other processes of the pid in
\* between never make a share out of another's time.
UsageIsMeasured ==
  fast # Waits =>
    \A p \in DOMAIN fast.snap.procs :
      fast.snap.procs[p].due >= 0 => fast.snap.procs[p].cpu = fast.snap.procs[p].due

\* So is the rate of an adapter: tables that could not be read in between make
\* the interval longer, and never a burst out of it.
RatesAreMeasured ==
  fast # Waits =>
    \A n \in DOMAIN fast.snap.rates :
      fast.snap.rates[n].due >= 0 => fast.snap.rates[n].rate = fast.snap.rates[n].due

ReadingsAreMeasured == UsageIsMeasured /\ RatesAreMeasured

\* A collector holds the query it opened, and no failed attempt leaves another
\* one open.
QueriesAreHeld == \A q \in Queries : opened[q] = IF perf[q] THEN 1 ELSE 0

StartsKnown(nodes) ==
  /\ \A p \in DOMAIN nodes : nodes[p].start > 0
  /\ \A p, q \in DOMAIN nodes : nodes[p].start = nodes[q].start => p = q

\* When the start of every process is known and no two are the same, each has
\* its place below a root, reused pids or not: among any of them is one that
\* is a root or has its parent elsewhere, so no cycle of parents hides them.
TreeHasAll ==
  tree # Waits /\ StartsKnown(tree.of) =>
    \A S \in (SUBSET DOMAIN tree.of) \ {{}} :
      \E p \in S : \/ p \in tree.tree.roots
                  \/ \E q \in DOMAIN tree.of \ S : p \in tree.tree.under[q]

\* Pruning never drops the history of a process that a recent snapshot lists,
\* however long ago its history began.
PruneSparesListed ==
  [][latest' = latest /\ latest # Waits /\ clock - latest.at <= Keep
     => DOMAIN latest.procs \subseteq DOMAIN history']_vars

\* A sample that is put in place has a tree if the one before it has: it is
\* carried forward, "if available".
TreeIsCarried ==
  [][fast.at = "carried" /\ fast' = Waits /\ latest # Waits /\ latest.tree # NoTree
     => latest'.tree # NoTree]_vars

=============================================================================
