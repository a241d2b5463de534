------------------------------ MODULE Controller ------------------------------
(***************************************************************************)
(* The process controller of internal/controller: kill, kill tree,         *)
(* suspend, resume, priority and affinity, job limits.                     *)
(*                                                                         *)
(* A request names a pid.  It looks the pid up in the latest snapshot,     *)
(* which is older than the machine, asks the safety policy about the entry *)
(* it found, and opens whichever process holds the pid by then.  Requests  *)
(* run in goroutines of HTTP handlers, of the bot and of the rules engine; *)
(* only the table of job objects has a lock.                               *)
(*                                                                         *)
(* The machine is external: processes start, exit and leave their pid to   *)
(* others, a process keeps the pid of its parent after the parent is gone, *)
(* and threads come and go with ids that are reused as well.  Identities   *)
(* of processes (id) are ghosts: the code has pids only.                   *)
(***************************************************************************)
EXTENDS Integers, FiniteSets

CONSTANTS
  Pids, Self,  \* process ids, the one of WTM among them
  Tids,        \* thread ids of the machine
  Requests,    \* goroutines that carry out an action
  Scenes,      \* bound: what each of them may be asked for and whether confirmed, the
               \* pids and thread ids in use, the kinds and number of processes that start
  None,        \* no process
  MaxStarts,   \* bound: processes that start
  MaxSuspends  \* suspend count of a thread at which SuspendThread fails

\* What the safety policy sees of a process: flagged critical by the system,
\* named on the protected list, under the system's directory, none of these.
AllKinds == {"critical", "protected", "system", "plain"}

AllOps == {"kill", "tree", "suspend", "resume", "tune", "limit"}

ASSUME ControllerAssumption ==
  /\ IsFiniteSet(Pids)
  /\ Self \in Pids
  /\ None \notin Pids
  /\ Scenes \subseteq [ops : [Requests -> SUBSET AllOps], confirms : SUBSET BOOLEAN,
                       pids : SUBSET Pids, tids : SUBSET Tids,
                       kinds : SUBSET AllKinds, starts : 0..MaxStarts]
  /\ MaxStarts \in Nat
  /\ MaxSuspends \in Nat

VARIABLES
  os,        \* the process that holds each pid, or NoProcess
  starts,    \* processes started so far
  threads,   \* the thread that holds each thread id, or NoThread
  snap,      \* Store.Latest: an entry for each process at the last sample
  strict,    \* config: it has a protected list and asks to confirm for system paths
  req,       \* each request: where it is and what it works on
  limited,   \* Controller.jobs: the pids that have an entry
  openJobs,  \* job handles WTM holds
  scene,     \* the scene, fixed from the start
  torn,      \* ghost: processes a resume failed on, that a suspend and a resume worked
             \* on at the same time, or that was suspended in place of another
  held       \* ghost: the suspends that listed each process, less the resumes that ended

machine == <<os, starts, threads>>
jobs == <<limited, openJobs>>
ghosts == <<torn, held>>
vars == <<machine, snap, strict, req, jobs, ghosts, scene>>

Ids == 0..MaxStarts

Process(id, parent, kind) == [id |-> id, parent |-> parent, kind |-> kind]
NoProcess == Process(-1, None, "none")
NoThread == [of |-> -1, count |-> 0]

Alive == {p \in Pids : os[p] # NoProcess}

\* What a sample keeps of a process.  Pid, parent and name come from the enumeration;
\* the flag and the path are missing when the process could not be queried for them.
Entry(x, read) ==
  [id |-> x.id, parent |-> x.parent, read |-> read,
   kind |-> IF read \/ x.kind = "protected" THEN x.kind ELSE "plain"]
NoEntry == Entry(NoProcess, TRUE)

\* The parents a snapshot shows; collectDescendants works on nothing else.
Parents(s) == [p \in Pids |-> s[p].parent]
Children(tree, p) == {c \in Pids : tree[c] = p}

\* Ghost: everything below a pid, as the smallest set closed under Children.
Below(tree, root) ==
  {p \in Pids : \A S \in SUBSET Pids :
     Children(tree, root) \subseteq S /\ (\A q \in S : Children(tree, q) \subseteq S)
       => p \in S}

\* Where a request is: it walks the tree, checks its next target, has passed the
\* check, goes through the target's threads.
Resting ==
  [at |-> "idle", op |-> "none", pid |-> Self, confirm |-> FALSE, ok |-> FALSE,
   tree |-> [p \in Pids |-> None], stack |-> {}, todo |-> {},
   on |-> Self, of |-> -1, blind |-> FALSE, left |-> {}, listed |-> {}]

-----------------------------------------------------------------------------
(* Mutants of the operations below, used by the sensitivity checks only.   *)

\* A tree kill that answers with the result of the root alone.
PastLastResult(r, p, good) ==
  LET q == req[r] IN
  IF q.todo \ {p} = {} /\ p = q.pid
  THEN [Resting EXCEPT !.ok = good, !.listed = q.listed]
  ELSE [q EXCEPT !.at = "check", !.todo = @ \ {p}, !.on = Self, !.of = -1, !.blind = FALSE]
\* A safety policy without the critical flag.
AllowedCritical(p, confirm) ==
  /\ snap[p] # NoEntry
  /\ p # Self
  /\ strict => snap[p].kind # "protected" /\ (snap[p].kind = "system" => confirm)
\* A Limit that drops the entry of the old job but not the handle.
KeepHandle(p) == openJobs

-----------------------------------------------------------------------------
(* The machine, external, and the collector's sample                       *)

Init ==
  /\ os = [p \in Pids |-> IF p = Self THEN Process(0, None, "plain") ELSE NoProcess]
  /\ starts = 0
  /\ threads = [t \in Tids |-> NoThread]
  /\ snap = [p \in Pids |-> NoEntry]
  /\ strict \in BOOLEAN
  /\ req = [r \in Requests |-> Resting]
  /\ limited = {}
  /\ openJobs = 0
  /\ torn = {}
  /\ held = [i \in Ids |-> 0]
  /\ scene \in Scenes

Spawn(p, parent) ==
  /\ starts < scene.starts
  /\ p \notin Alive
  /\ parent \in Alive
  /\ starts' = starts + 1
  /\ \E kind \in scene.kinds : os' = [os EXCEPT ![p] = Process(starts + 1, parent, kind)]
  /\ UNCHANGED <<threads, snap, strict, req, jobs, ghosts>>

\* A process goes with all of its threads.
Gone(p) ==
  /\ os' = [os EXCEPT ![p] = NoProcess]
  /\ threads' = [t \in Tids |-> IF threads[t].of = os[p].id THEN NoThread ELSE threads[t]]

Exit(p) ==
  /\ p \in Alive \ {Self}
  /\ Gone(p)
  /\ UNCHANGED <<starts, snap, strict, req, jobs, ghosts>>

StartThread(t, p) ==
  /\ threads[t] = NoThread
  /\ p \in Alive
  /\ threads' = [threads EXCEPT ![t] = [of |-> os[p].id, count |-> 0]]
  /\ UNCHANGED <<os, starts, snap, strict, req, jobs, ghosts>>

\* A process that loses its last thread exits.
EndThread(t) ==
  /\ threads[t] # NoThread
  /\ \E u \in Tids \ {t} : threads[u].of = threads[t].of
  /\ threads' = [threads EXCEPT ![t] = NoThread]
  /\ UNCHANGED <<os, starts, snap, strict, req, jobs, ghosts>>

\* The enumeration may fail at once or half-way, and of a long list those with the
\* smallest working sets are dropped, so any process may be missing.
Sample ==
  /\ \E seen \in SUBSET Alive :
     \E unread \in SUBSET {p \in seen : os[p].kind \in {"critical", "system"}} :
       snap' = [p \in Pids |-> IF p \in seen THEN Entry(os[p], p \notin unread) ELSE NoEntry]
  /\ UNCHANGED <<machine, strict, req, jobs, ghosts>>

-----------------------------------------------------------------------------
(* Requests                                                                *)

\* Every kind of request but a tree starts with its one target; Resume alone
\* does not look it up.
Ask(r, op, p, confirm) ==
  /\ req[r].at = "idle"
  /\ req' = [req EXCEPT ![r] =
       [Resting EXCEPT !.at = IF op = "resume" THEN "cleared" ELSE "check",
                       !.op = op, !.pid = p, !.confirm = confirm, !.ok = TRUE, !.on = p]]
  /\ UNCHANGED <<machine, snap, strict, jobs, ghosts>>

\* KillTree takes the latest snapshot and walks it.
AskTree(r, p, confirm) ==
  /\ req[r].at = "idle"
  /\ LET tree == Parents(snap)
         family == Below(tree, p) \cup {p}
     IN  req' = [req EXCEPT ![r] =
           [Resting EXCEPT !.at = "walk", !.op = "tree", !.pid = p, !.confirm = confirm,
                           !.ok = TRUE, !.tree = tree, !.stack = Children(tree, p),
                           !.listed = {snap[q].id : q \in family} \ {NoProcess.id}]]
  /\ UNCHANGED <<machine, snap, strict, jobs, ghosts>>

\* The loop of collectDescendants.  It has no set of visited pids; with one
\* parent for each pid the order of the stack does not matter.
Pushed(tree, p) == Children(tree, p)
Popped(stack, p) == stack \ {p}

Walk(r) ==
  /\ req[r].at = "walk"
  /\ IF req[r].stack = {} THEN req' = [req EXCEPT ![r].at = "check"]
     ELSE \E p \in req[r].stack :
            req' = [req EXCEPT ![r].todo = @ \cup {p},
                               ![r].stack = Popped(@, p) \cup Pushed(req[r].tree, p)]
  /\ UNCHANGED <<machine, snap, strict, jobs, ghosts>>

\* The root of a tree comes last.
Targets(r) == IF req[r].todo # {} THEN req[r].todo ELSE {req[r].pid}

\* The request once it is done with target p: an error is kept, the rest of a
\* tree goes on.
Past(r, p, good) ==
  LET q == req[r] IN
  IF q.todo \ {p} = {} /\ p = q.pid
  THEN [Resting EXCEPT !.ok = q.ok /\ good, !.listed = q.listed]
  ELSE [q EXCEPT !.at = "check", !.ok = @ /\ good, !.todo = @ \ {p},
                 !.on = Self, !.of = -1, !.blind = FALSE]

\* findProcess and Safety.Check: by the latest snapshot and config.
Allowed(p, confirm) ==
  /\ snap[p] # NoEntry
  /\ p # Self
  /\ snap[p].kind # "critical"
  /\ strict => snap[p].kind # "protected" /\ (snap[p].kind = "system" => confirm)

Check(r) ==
  /\ req[r].at = "check"
  /\ \E p \in Targets(r) :
       req' = [req EXCEPT ![r] =
         IF Allowed(p, req[r].confirm)
         THEN [@ EXCEPT !.at = "cleared", !.on = p, !.of = snap[p].id, !.blind = ~snap[p].read]
         ELSE Past(r, p, FALSE)]
  /\ UNCHANGED <<machine, snap, strict, jobs, ghosts>>

Cleared(r, which) == req[r].at = "cleared" /\ req[r].op \in which

\* OpenProcess and what is done with the handle, as one step: an open handle
\* keeps the pid from another process.
Terminate(r) ==
  /\ Cleared(r, {"kill", "tree"})
  /\ req[r].on \in Alive
  /\ Gone(req[r].on)
  /\ req' = [req EXCEPT ![r] = Past(r, req[r].on, TRUE)]
  /\ UNCHANGED <<starts, snap, strict, jobs, ghosts>>

\* SetPriority and SetAffinity change attributes no other part reads.
Tune(r) ==
  /\ Cleared(r, {"tune"})
  /\ req[r].on \in Alive
  /\ req' = [req EXCEPT ![r] = Past(r, req[r].on, TRUE)]
  /\ UNCHANGED <<machine, snap, strict, jobs, ghosts>>

\* The process is gone, the system denies access, an argument is out of range
\* (Limit finds this before it takes the lock), or there is no list of threads.
Denied(r) ==
  /\ Cleared(r, AllOps)
  /\ req' = [req EXCEPT ![r] = Past(r, req[r].on, FALSE)]
  /\ UNCHANGED <<machine, snap, strict, jobs, ghosts>>

-----------------------------------------------------------------------------
(* Suspend and Resume                                                      *)

\* Requests that are among the threads of process i and pull the other way.
Against(r, i) ==
  {o \in Requests \ {r} : /\ req[o].at = "threads"
                          /\ req[o].of = i
                          /\ req[o].op # req[r].op}

\* The threads in a Toolhelp snapshot taken now.
Listed(i) == {t \in Tids : threads[t].of = i}

\* The snapshot is of whoever has the pid by now.
ListThreads(r) ==
  LET i == os[req[r].on].id IN
  /\ Cleared(r, {"suspend", "resume"})
  /\ req[r].on \in Alive
  /\ Listed(i) # {}
  /\ req' = [req EXCEPT ![r].at = "threads", ![r].left = Listed(i), ![r].of = i]
  /\ torn' = torn \cup {j \in {i} : Against(r, i) # {}}
  /\ IF req[r].op = "suspend"
     THEN held[i] < MaxSuspends /\ held' = [held EXCEPT ![i] = @ + 1]
     ELSE UNCHANGED held
  /\ UNCHANGED <<machine, snap, strict, jobs>>

\* Mutant of PastThread: a loop that returns at the first error.
StopAtError(r, t, good) ==
  LET q == req[r] IN
  IF q.left = {t} \/ ~good THEN Past(r, q.on, good)
  ELSE [q EXCEPT !.left = @ \ {t}, !.ok = @ /\ good]

\* One thread less; the loop goes on after an error.
PastThread(r, t, good) ==
  LET q == req[r] IN
  IF q.left = {t} THEN Past(r, q.on, good)
  ELSE [q EXCEPT !.left = @ \ {t}, !.ok = @ /\ good]

Less(n) == IF n > 0 THEN n - 1 ELSE 0

\* SuspendThread counts up, ResumeThread down to zero.
NewCount(op, n) == IF op = "suspend" THEN n + 1 ELSE Less(n)

\* Ghost: a resume counts when it is over.
Undone(r) ==
  held' = IF req[r].op = "resume" /\ req'[r].at # "threads"
          THEN [held EXCEPT ![req[r].of] = Less(@)] ELSE held

\* The call goes to the thread that has the id by now, whosever it is.
TouchThread(r, t) ==
  LET q == req[r] IN
  /\ q.at = "threads"
  /\ t \in q.left
  /\ threads[t] # NoThread
  /\ q.op = "suspend" => threads[t].count < MaxSuspends
  /\ threads' = [threads EXCEPT ![t].count = NewCount(q.op, @)]
  /\ req' = [req EXCEPT ![r] = PastThread(r, t, TRUE)]
  /\ torn' = torn \cup {i \in {threads[t].of} : q.op = "suspend" /\ i # q.of}
  /\ Undone(r)
  /\ UNCHANGED <<os, starts, snap, strict, jobs>>

\* The thread is gone, may not be opened or is suspended too often.
MissThread(r, t) ==
  LET q == req[r] IN
  /\ q.at = "threads"
  /\ t \in q.left
  /\ req' = [req EXCEPT ![r] = PastThread(r, t, FALSE)]
  /\ torn' = torn \cup {i \in {q.of} : q.op = "resume" /\ t \in Listed(i)}
  /\ Undone(r)
  /\ UNCHANGED <<machine, snap, strict, jobs>>

\* The enumeration fails half-way: the request returns at once.
CutShort(r) ==
  LET q == req[r] IN
  /\ q.at = "threads"
  /\ req' = [req EXCEPT ![r] = Past(r, q.on, FALSE)]
  /\ torn' = torn \cup {i \in {q.of} : q.op = "resume" /\ q.left \cap Listed(i) # {}}
  /\ Undone(r)
  /\ UNCHANGED <<machine, snap, strict, jobs>>

-----------------------------------------------------------------------------
(* Job objects, under Controller.mu                                        *)

\* The handle of the entry of p, if there is one, is closed.
Released(p) == openJobs - (IF p \in limited THEN 1 ELSE 0)

\* Limit closes the old job first and holds a new one when every call went well.
Limit(r) ==
  LET p == req[r].on IN
  /\ Cleared(r, {"limit"})
  /\ p \in Alive
  /\ limited' = limited \cup {p}
  /\ openJobs' = Released(p) + 1
  /\ req' = [req EXCEPT ![r] = Past(r, p, TRUE)]
  /\ UNCHANGED <<machine, snap, strict, ghosts>>

\* One of the system calls fails: the new job is closed as well.
LimitFails(r) ==
  LET p == req[r].on IN
  /\ Cleared(r, {"limit"})
  /\ limited' = limited \ {p}
  /\ openJobs' = Released(p)
  /\ req' = [req EXCEPT ![r] = Past(r, p, FALSE)]
  /\ UNCHANGED <<machine, snap, strict, ghosts>>

ClearLimit(p) ==
  /\ p \in limited
  /\ limited' = limited \ {p}
  /\ openJobs' = Released(p)
  /\ UNCHANGED <<machine, snap, strict, req, ghosts>>

-----------------------------------------------------------------------------

SetConfig ==
  /\ strict' = ~strict
  /\ UNCHANGED <<machine, snap, req, jobs, ghosts>>

Request(r) ==
  \/ \E p \in scene.pids, op \in scene.ops[r] \ {"tree"}, confirm \in scene.confirms :
       Ask(r, op, p, confirm)
  \/ \E p \in scene.pids, confirm \in scene.confirms :
       "tree" \in scene.ops[r] /\ AskTree(r, p, confirm)
  \/ Walk(r) \/ Check(r)
  \/ Terminate(r) \/ Tune(r) \/ Denied(r)
  \/ ListThreads(r)
  \/ \E t \in Tids : TouchThread(r, t) \/ MissThread(r, t)
  \/ CutShort(r)
  \/ Limit(r) \/ LimitFails(r)

Next ==
  /\ \/ \E p, parent \in scene.pids : Spawn(p, parent)
     \/ \E p \in Pids : Exit(p)
     \/ \E t \in scene.tids, p \in scene.pids : StartThread(t, p)
     \/ \E t \in Tids : EndThread(t)
     \/ Sample
     \/ \E r \in Requests : Request(r)
     \/ \E p \in Pids : ClearLimit(p)
     \/ SetConfig
  /\ UNCHANGED scene

Spec == Init /\ [][Next]_vars

\* The goroutine of a request keeps running while it walks.
FairSpec == Spec /\ \A r \in Requests : WF_vars(Walk(r) /\ UNCHANGED scene)

-----------------------------------------------------------------------------
(* Properties                                                              *)

ProcessType ==
  [id : Ids, parent : Pids \cup {None}, kind : AllKinds]

ThreadType == [of : Ids, count : 0..MaxSuspends]

EntryType ==
  [id : Ids, parent : Pids \cup {None}, kind : AllKinds, read : BOOLEAN]

RequestType ==
  [at : {"idle", "walk", "check", "cleared", "threads"},
   op : AllOps \cup {"none"}, pid : Pids, confirm : BOOLEAN, ok : BOOLEAN,
   tree : [Pids -> Pids \cup {None}], stack : SUBSET Pids, todo : SUBSET Pids,
   on : Pids, of : Ids \cup {-1}, blind : BOOLEAN, left : SUBSET Tids,
   listed : SUBSET Ids]

\* Types; a request among threads always has some left to visit.
TypeOK ==
  /\ os \in [Pids -> ProcessType \cup {NoProcess}]
  /\ starts \in 0..MaxStarts
  /\ threads \in [Tids -> ThreadType \cup {NoThread}]
  /\ snap \in [Pids -> EntryType \cup {NoEntry}]
  /\ strict \in BOOLEAN
  /\ req \in [Requests -> RequestType]
  /\ limited \subseteq Pids
  /\ openJobs \in 0..Cardinality(Pids)
  /\ torn \subseteq Ids
  /\ held \in [Ids -> 0..MaxSuspends]
  /\ scene \in Scenes
  /\ \A r \in Requests : req[r].at = "threads" <=> req[r].left # {}

\* WTM itself, and a process the system calls critical, is never hit by a kill,
\* a tree kill, a suspend, a limit or a change of priority, unless the request
\* looked at another process with the same pid, or at a sample that could not read
\* whether the process is critical.
CriticalSpared ==
  \A r \in Requests :
    LET q == req[r] IN
    q.at = "cleared" /\ q.op # "resume" /\ os[q.on].id = q.of =>
      q.on # Self /\ (os[q.on].kind = "critical" => q.blind)

\* "WTM protects critical processes": no request but a resume is about to open one.
CriticalNeverHit ==
  \A r \in Requests :
    req[r].at = "cleared" /\ req[r].op # "resume" => os[req[r].on].kind # "critical"

\* A tree kill that reports no error leaves none of the processes alive that its
\* snapshot showed below the root, or the root: not even when they exited, and
\* their pids were taken by others, while it was under way.
TreeIsComplete ==
  \A r \in Requests :
    req[r].at = "idle" /\ req[r].ok =>
      \A p \in Alive : os[p].id \notin req[r].listed

\* A process that was resumed as often as it was suspended runs: no thread of it is
\* suspended more often than suspends listed the process, less the resumes that
\* ended, whichever threads start and end meanwhile, whatever suspends fail and
\* however requests of a kind overlap.
SuspendsAreUndone ==
  \A t \in Tids :
    threads[t].of \in Ids \ torn => threads[t].count <= held[threads[t].of]

\* "Suspend pauses every thread in a process": when it reports no error, and nothing
\* resumed the process meanwhile, each thread is suspended.
PausesEveryThread ==
  [][\A r \in Requests :
       LET q == req[r] IN
       q.at = "threads" /\ q.op = "suspend" /\ req'[r].at = "idle" /\ req'[r].ok =>
         q.of \in torn' \/ \A t \in Tids : threads'[t].of = q.of => threads'[t].count > 0]_vars

\* Every job handle belongs to one entry: none leaks, whichever call of a Limit
\* failed or whatever it replaced.
JobsAreHeld == openJobs = Cardinality(limited)

\* The root of a tree is one of its own descendants: pids of exited parents have
\* been taken by their descendants.
OnCycle(tree, root) == root \in Below(tree, root)

\* The walk over a tree never comes to a pid a second time, and so it ends, when
\* the root is not its own descendant.
VisitsOnce ==
  \A r \in Requests :
    req[r].at = "walk" /\ ~OnCycle(req[r].tree, req[r].pid) =>
      req[r].stack \cap (req[r].todo \cup {req[r].pid}) = {}

\* "KillTree terminates a process and every descendant": the walk comes to an end.
TreeEnds == \A r \in Requests : req[r].at = "walk" ~> req[r].at # "walk"

=============================================================================
