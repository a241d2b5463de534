-------------------------------- MODULE Readings --------------------------------
(***************************************************************************)
(* What the collectors of internal/collector read from Windows in one      *)
(* sample of the fast loop: the processes and their share of the CPU, the  *)
(* throughput of the network adapters, and the performance queries of disk *)
(* and GPU.  Each keeps the counters of an earlier sample to subtract.     *)
(*                                                                         *)
(* One unit of used time is what Full of them make 100 percent per unit of *)
(* clock; a pid is used again by later processes.  Pids 0 and 4, which are *)
(* never opened, behave as a process that denies access.  One counter      *)
(* stands for kernel and user time, one for the octets of an adapter.      *)
(***************************************************************************)
EXTENDS Integers, FiniteSets

CONSTANTS
  Pids, Nics,
  Queries,     \* the collectors that read a performance query: disk and GPU
  Weight,      \* working set of the processes of a pid
  Full,        \* capacity of all cores
  Wrap,        \* 2^64
  Scenes,      \* bound: what happens in a run of the program
  MaxUse       \* bound: used time, octets and processes in any scene

ASSUME ReadingsAssumption ==
  /\ {Full, Wrap} \subseteq Nat \ {0}
  /\ MaxUse \in Nat /\ Wrap > MaxUse
  /\ Weight \in [Pids -> Nat]
  /\ \A s \in Scenes : s.pids \subseteq Pids /\ s.time \in Nat /\ s.uses \in 0..MaxUse
       /\ s.max \in Nat \ {0}

VARIABLES
  scene,   \* its pids, operations, max_processes and bounds
  clock,
  born,    \* number of processes so far
  procs,   \* the processes of the system, by pid
  prev,    \* ProcessCollector.prev
  octets,  \* the counters of the adapters
  netPrev, \* NetworkCollector.prev
  perf,    \* the queries the collectors hold
  opened   \* the queries that are open

world == <<born, procs, octets>>
meters == <<prev, netPrev, perf, opened>>
Gone == [gen |-> 0]
Alive == {p \in Pids : procs[p] # Gone}
Lesser(a, b) == IF a < b THEN a ELSE b

-----------------------------------------------------------------------------
(* Mutants of the operations below, used by the sensitivity checks only.   *)

\* Baselines that keep what an earlier sample has left of a pid.
FirstBaseline(D) ==
  [p \in Alive |-> IF p \in DOMAIN prev /\ p \notin D THEN prev[p]
                   ELSE [used |-> 0, at |-> clock]]
\* A constructor that forgets to close what it opened.
LeftOpen(q) == opened' = [opened EXCEPT ![q] = @ + 1] /\ UNCHANGED perf

-----------------------------------------------------------------------------
(* The system                                                              *)

Spawn(p, parent) ==
  /\ p \in scene.pids /\ p \notin Alive
  /\ parent \in Alive \cup {0}
  /\ born < scene.uses
  /\ born' = born + 1
  /\ procs' = [procs EXCEPT ![p] =
       [gen |-> born + 1, parent |-> parent, start |-> clock + 1,
        used |-> 0, spent |-> 0, read |-> 0]]
  /\ UNCHANGED octets

Exit(p) ==
  /\ p \in Alive
  /\ procs' = [procs EXCEPT ![p] = Gone]
  /\ UNCHANGED <<born, octets>>

\* spent is used time since the collector read the process, at time read - 1.
Work(p) ==
  /\ "work" \in scene.does
  /\ p \in Alive /\ procs[p].used < scene.uses
  /\ procs' = [procs EXCEPT ![p].used = @ + 1, ![p].spent = @ + 1]
  /\ UNCHANGED <<born, octets>>

Transfer(n) ==
  /\ "transfer" \in scene.does
  /\ octets[n].count < scene.uses
  /\ octets' = [octets EXCEPT ![n].count = @ + 1, ![n].moved = @ + 1]
  /\ UNCHANGED <<born, procs>>

-----------------------------------------------------------------------------
(* Processes                                                               *)

Share(used, elapsed) == Lesser(100, (100 * used) \div (Full * elapsed))

\* collectOne; D are the processes that deny access.  The difference wraps.
Usage(p, D) ==
  IF p \in D \/ p \notin DOMAIN prev \/ clock = prev[p].at THEN 0
  ELSE Share((procs[p].used - prev[p].used) % Wrap, clock - prev[p].at)

\* Ghost: what Usage ought to be, known if the last sample read this process.
Due(p, D) ==
  IF p \in D \/ procs[p].read \in {0, clock + 1} THEN -1
  ELSE Share(procs[p].spent, clock + 1 - procs[p].read)

Info(p, D) ==
  [gen |-> procs[p].gen, parent |-> procs[p].parent,
   start |-> IF p \in D THEN 0 ELSE procs[p].start,
   cpu |-> Usage(p, D), due |-> Due(p, D)]

\* A process that cannot be read leaves a baseline of zero.
Baselines(D) ==
  [p \in Alive |-> [used |-> IF p \in D THEN 0 ELSE procs[p].used, at |-> clock]]

\* trimByWorkingSet keeps the heaviest; ties fall either way.
Size(p, D) == IF p \in D THEN 0 ELSE Weight[p]
Trimmed(D) ==
  {T \in SUBSET Alive :
     /\ Cardinality(T) = Lesser(Cardinality(Alive), scene.max)
     /\ \A p \in T, q \in Alive \ T : Size(p, D) >= Size(q, D)}

ReadProcesses(D) ==
  /\ prev' = Baselines(D)
  /\ procs' = [p \in Pids |->
       IF p \notin Alive THEN Gone
       ELSE [procs[p] EXCEPT !.spent = 0, !.read = IF p \in D THEN 0 ELSE clock + 1]]

-----------------------------------------------------------------------------
(* Network                                                                 *)

Moved(n) == (octets[n].count - netPrev[n].count) \div (clock - netPrev[n].at)

\* bpsDelta, of the octets since the last sample that had the adapter.
Rate(n) ==
  IF n \notin DOMAIN netPrev \/ clock = netPrev[n].at THEN 0 ELSE Moved(n)

DueRate(n) ==
  IF octets[n].read \in {0, clock + 1} THEN -1
  ELSE octets[n].moved \div (clock + 1 - octets[n].read)

\* N are the adapters in the table; a failed call changes nothing.
ReadNetwork(N) ==
  /\ netPrev' = [n \in N |-> [count |-> octets[n].count, at |-> clock]]
  /\ octets' = [n \in Nics |->
       IF n \in N THEN [octets[n] EXCEPT !.moved = 0, !.read = clock + 1]
       ELSE [octets[n] EXCEPT !.moved = 0, !.read = 0]]

-----------------------------------------------------------------------------
(* Performance queries                                                     *)

\* newDiskPerfCounters and newGPUPerfCounters: a counter that cannot be added
\* closes the query again, and the next sample tries anew.
FailedOpen(q) == UNCHANGED <<perf, opened>>

\* A sample of q: it opens the query unless it holds one.
ReadQuery(q) ==
  \/ ~perf[q] /\ perf' = [perf EXCEPT ![q] = TRUE]
     /\ opened' = [opened EXCEPT ![q] = @ + 1]
  \/ ~perf[q] /\ FailedOpen(q)
  \/ perf[q] /\ UNCHANGED <<perf, opened>>

-----------------------------------------------------------------------------

ReadingsInit ==
  /\ scene \in Scenes
  /\ clock = 0
  /\ born = 0
  /\ procs = [p \in Pids |-> Gone]
  /\ prev = [p \in {} |-> 0]
  /\ octets = [n \in Nics |-> [count |-> 0, moved |-> 0, read |-> 0]]
  /\ netPrev = [n \in {} |-> 0]
  /\ perf = [q \in Queries |-> FALSE]
  /\ opened = [q \in Queries |-> 0]

System ==
  /\ \/ \E p \in Pids : \E parent \in Pids \cup {0} : Spawn(p, parent)
     \/ \E p \in Pids : Exit(p) \/ Work(p)
     \/ \E n \in Nics : Transfer(n)
  /\ UNCHANGED <<scene, clock, meters>>

=============================================================================
