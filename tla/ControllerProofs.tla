--------------------------- MODULE ControllerProofs ---------------------------
(***************************************************************************)
(* What the process controller promises for every number of pids, threads  *)
(* and requests, every workload and every time of a sample.                *)
(***************************************************************************)
EXTENDS Controller, FiniteSetTheorems, TLAPS

USE ControllerAssumption DEF AllKinds, AllOps, Ids

-----------------------------------------------------------------------------
(* One request *)

(* Where Past leaves a request whose target is done with. *)
PastShape(r, p, good) ==
  LET q == req[r]
      n == Past(r, p, good)
      over == q.todo \ {p} = {} /\ p = q.pid
  IN  /\ n \in RequestType
      /\ n.at = IF over THEN "idle" ELSE "check"
      /\ n.op = IF over THEN "none" ELSE q.op
      /\ n.ok = (q.ok /\ good)
      /\ n.listed = q.listed
      /\ n.todo = q.todo \ {p}
      /\ n.left = IF over THEN {} ELSE q.left
      /\ n.pid = IF over THEN Self ELSE q.pid
      /\ n.on = Self

LEMMA RestingTyped == Resting \in RequestType
BY DEF Resting, RequestType

LEMMA PastTyped ==
  ASSUME NEW r \in Requests, req[r] \in RequestType, NEW p \in Pids, NEW good \in BOOLEAN
  PROVE  PastShape(r, p, good)
<1> DEFINE q == req[r]
           ok == q.ok /\ good
           rest == [Resting EXCEPT !.ok = ok, !.listed = q.listed]
           more == [q EXCEPT !.at = "check", !.ok = ok, !.todo = @ \ {p},
                             !.on = Self, !.of = -1, !.blind = FALSE]
<1>1. ok \in BOOLEAN /\ q.listed \in SUBSET Ids /\ q.todo \in SUBSET Pids
  BY DEF RequestType
<1>2. CASE q.todo \ {p} = {} /\ p = q.pid
  <2>1. Past(r, p, good) = rest
    BY <1>2 DEF Past
  <2> HIDE DEF ok
  <2>2. /\ rest \in RequestType
        /\ rest.at = "idle" /\ rest.op = "none" /\ rest.todo = {} /\ rest.left = {}
        /\ rest.pid = Self /\ rest.on = Self
        /\ rest.ok = ok /\ rest.listed = q.listed
    BY <1>1, RestingTyped DEF Resting, RequestType
  <2> HIDE DEF rest
  <2>3. QED
    BY <1>2, <2>1, <2>2 DEF PastShape, ok
<1>3. CASE ~(q.todo \ {p} = {} /\ p = q.pid)
  <2>1. Past(r, p, good) = more
    BY <1>3 DEF Past
  <2> HIDE DEF ok
  <2>2. /\ more \in RequestType
        /\ more.at = "check" /\ more.op = q.op /\ more.todo = q.todo \ {p}
        /\ more.left = q.left /\ more.pid = q.pid /\ more.on = Self
        /\ more.ok = ok /\ more.listed = q.listed
    BY <1>1 DEF RequestType
  <2> HIDE DEF more
  <2>3. QED
    BY <1>3, <2>1, <2>2 DEF PastShape, ok
<1>4. QED
  BY <1>2, <1>3

(* Requests other than a tree have one target, and do not list any processes. *)
OneTarget ==
  \A r \in Requests :
    LET q == req[r] IN
    /\ q.at = "idle" <=> q.op = "none"
    /\ q.op # "tree" => q.todo = {} /\ q.on = q.pid
    /\ q.op \notin {"tree", "none"} => q.listed = {}
    /\ q.at = "walk" => q.op = "tree"
    /\ q.at = "threads" => q.op \in {"suspend", "resume"} /\ q.of \in Ids

TypeInv == TypeOK /\ JobsAreHeld /\ OneTarget

(* What a new value of a request has to satisfy for TypeInv. *)
Sound(q) ==
  /\ q \in RequestType
  /\ q.at = "threads" <=> q.left # {}
  /\ q.at = "idle" <=> q.op = "none"
  /\ q.op # "tree" => q.todo = {} /\ q.on = q.pid
  /\ q.op \notin {"tree", "none"} => q.listed = {}
  /\ q.at = "walk" => q.op = "tree"
  /\ q.at = "threads" => q.op \in {"suspend", "resume"} /\ q.of \in Ids

LEMMA PastSound ==
  ASSUME NEW r \in Requests, Sound(req[r]), NEW p \in Pids, NEW good \in BOOLEAN,
         req[r].at # "idle", req[r].op # "tree" => p = req[r].pid
  PROVE  Sound(Past(r, p, good))
<1>1. PastShape(r, p, good)
  BY PastTyped DEF Sound
<1>2. CASE req[r].op = "tree"
  BY <1>1, <1>2 DEF PastShape, Sound
<1>3. CASE req[r].op # "tree"
  BY <1>1, <1>3 DEF PastShape, Sound
<1>4. QED
  BY <1>2, <1>3

-----------------------------------------------------------------------------
(* Types and job handles *)

LEMMA SoundRequests ==
  ASSUME TypeInv, NEW r \in Requests PROVE Sound(req[r])
BY DEF TypeInv, TypeOK, OneTarget, Sound

(* A step of one request keeps the typing of all of them. *)
LEMMA RequestStep ==
  ASSUME TypeInv, NEW r \in Requests, NEW new, Sound(new), req' = [req EXCEPT ![r] = new]
  PROVE  /\ req' \in [Requests -> RequestType]
         /\ \A o \in Requests : req'[o].at = "threads" <=> req'[o].left # {}
         /\ OneTarget'
<1>1. req \in [Requests -> RequestType]
  BY DEF TypeInv, TypeOK
<1>2. req' \in [Requests -> RequestType]
  BY <1>1 DEF Sound
<1>3. \A o \in Requests : Sound(req'[o])
  BY <1>1, SoundRequests
<1>4. QED
  BY <1>2, <1>3 DEF Sound, OneTarget

(* The handle of an entry that goes, and the one of an entry that comes. *)
LEMMA JobCount ==
  ASSUME TypeInv, NEW p \in Pids
  PROVE  /\ Cardinality(limited \ {p}) = Released(p)
         /\ Cardinality(limited \cup {p}) = Released(p) + 1
         /\ Released(p) \in 0..Cardinality(Pids)
         /\ Released(p) + 1 \in 0..Cardinality(Pids)
<1>1. IsFiniteSet(Pids) /\ limited \subseteq Pids /\ openJobs = Cardinality(limited)
  BY DEF TypeInv, TypeOK, JobsAreHeld
<1>2. IsFiniteSet(limited) /\ Cardinality(limited) \in Nat
  BY <1>1, FS_Subset, FS_CardinalityType
<1>3. /\ Cardinality(limited \ {p}) = Released(p)
      /\ Cardinality(limited \cup {p}) = Released(p) + 1
  <2>1. Cardinality(limited \ {p}) =
          IF p \in limited THEN Cardinality(limited) - 1 ELSE Cardinality(limited)
    BY <1>2, FS_RemoveElement
  <2>2. Cardinality(limited \cup {p}) =
          IF p \in limited THEN Cardinality(limited) ELSE Cardinality(limited) + 1
    BY <1>2, FS_AddElement
  <2>3. QED
    BY <1>1, <1>2, <2>1, <2>2 DEF Released
<1>4. limited \ {p} \in SUBSET Pids /\ limited \cup {p} \in SUBSET Pids
  BY <1>1
<1>5. /\ Cardinality(limited \ {p}) \in Nat /\ Cardinality(limited \cup {p}) \in Nat
      /\ Cardinality(limited \ {p}) <= Cardinality(Pids)
      /\ Cardinality(limited \cup {p}) <= Cardinality(Pids)
      /\ Cardinality(Pids) \in Nat
  BY <1>1, <1>4, FS_Subset, FS_CardinalityType
<1>6. QED
  BY <1>3, <1>5

(* What a step may leave of the machine, the snapshot and the other variables. *)
RestTyped ==
  /\ os \in [Pids -> ProcessType \cup {NoProcess}]
  /\ starts \in 0..MaxStarts
  /\ threads \in [Tids -> ThreadType \cup {NoThread}]
  /\ snap \in [Pids -> EntryType \cup {NoEntry}]
  /\ strict \in BOOLEAN
  /\ limited \subseteq Pids
  /\ openJobs \in 0..Cardinality(Pids)
  /\ torn \subseteq Ids
  /\ held \in [Ids -> 0..MaxSuspends]
  /\ scene \in Scenes
  /\ JobsAreHeld

LEMMA EntryTyped ==
  ASSUME NEW x \in ProcessType, NEW read \in BOOLEAN PROVE Entry(x, read) \in EntryType
BY DEF ProcessType, EntryType, Entry

(* The bounds of the scene are some of what the constants have. *)
LEMMA SceneTyped ==
  ASSUME scene \in Scenes
  PROVE  /\ scene.ops \in [Requests -> SUBSET AllOps]
         /\ scene.confirms \subseteq BOOLEAN
         /\ scene.pids \subseteq Pids /\ scene.tids \subseteq Tids
         /\ scene.kinds \subseteq AllKinds /\ scene.starts \in 0..MaxStarts
<1>1. scene \in [ops : [Requests -> SUBSET AllOps], confirms : SUBSET BOOLEAN,
                 pids : SUBSET Pids, tids : SUBSET Tids,
                 kinds : SUBSET AllKinds, starts : 0..MaxStarts]
  OBVIOUS
<1>2. QED
  BY <1>1

(* So what a request is asked, and what the machine does, is within the constants. *)
LEMMA RequestKinds ==
  ASSUME TypeOK, NEW r \in Requests, Request(r)
  PROVE  \/ \E p \in Pids, op \in scene.ops[r] \ {"tree"}, confirm \in BOOLEAN :
              Ask(r, op, p, confirm)
         \/ \E p \in Pids, confirm \in BOOLEAN : AskTree(r, p, confirm)
         \/ Walk(r) \/ Check(r)
         \/ Terminate(r) \/ Tune(r) \/ Denied(r)
         \/ ListThreads(r)
         \/ \E t \in Tids : TouchThread(r, t) \/ MissThread(r, t)
         \/ CutShort(r)
         \/ Limit(r) \/ LimitFails(r)
<1>1. scene.confirms \subseteq BOOLEAN /\ scene.pids \subseteq Pids
  BY SceneTyped DEF TypeOK
<1>2. QED
  BY <1>1 DEF Request

LEMMA NextKinds ==
  ASSUME TypeOK, Next
  PROVE  /\ \/ \E p, parent \in Pids : Spawn(p, parent)
            \/ \E p \in Pids : Exit(p)
            \/ \E t \in Tids, p \in Pids : StartThread(t, p)
            \/ \E t \in Tids : EndThread(t)
            \/ Sample
            \/ \E r \in Requests : Request(r)
            \/ \E p \in Pids : ClearLimit(p)
            \/ SetConfig
         /\ scene' = scene
<1>1. scene.pids \subseteq Pids /\ scene.tids \subseteq Tids
  BY SceneTyped DEF TypeOK
<1>2. QED
  BY <1>1 DEF Next

(* A process that goes with its threads, and the suspends a resume undoes. *)
LEMMA GoneTyped ==
  ASSUME TypeOK, NEW p \in Pids, Gone(p)
  PROVE  /\ os' \in [Pids -> ProcessType \cup {NoProcess}]
         /\ threads' \in [Tids -> ThreadType \cup {NoThread}]
BY DEF TypeOK, Gone

LEMMA UndoneTyped ==
  ASSUME TypeOK, NEW r \in Requests, req[r].of \in Ids, Undone(r)
  PROVE  held' \in [Ids -> 0..MaxSuspends]
<1> DEFINE less == Less(held[req[r].of])
<1>1. less \in 0..MaxSuspends
  BY DEF TypeOK, Less
<1> HIDE DEF less
<1>2. [held EXCEPT ![req[r].of] = less] \in [Ids -> 0..MaxSuspends]
  BY <1>1 DEF TypeOK
<1>3. held' = held \/ held' = [held EXCEPT ![req[r].of] = less]
  BY DEF Undone, less
<1>4. QED
  BY <1>2, <1>3 DEF TypeOK

LEMMA RestTypedInductive == TypeInv /\ [Next]_vars => RestTyped'
<1> SUFFICES ASSUME TypeInv, [Next]_vars PROVE RestTyped'
  OBVIOUS
<1>0. TypeOK /\ JobsAreHeld
  BY DEF TypeInv
<1>scene. /\ scene.pids \subseteq Pids /\ scene.tids \subseteq Tids
      /\ scene.kinds \subseteq AllKinds /\ scene.starts \in 0..MaxStarts
  BY <1>0, SceneTyped DEF TypeOK
<1>1. ASSUME NEW p \in Pids, NEW parent \in Pids, Spawn(p, parent), scene' = scene PROVE RestTyped'
  <2>1. starts' \in 0..MaxStarts /\ starts' = starts + 1
    BY <1>0, <1>scene, <1>1 DEF Spawn, TypeOK
  <2>2. ASSUME NEW kind \in scene.kinds PROVE Process(starts + 1, parent, kind) \in ProcessType
    BY <1>0, <1>scene, <2>1 DEF TypeOK, Process, ProcessType
  <2>3. os' \in [Pids -> ProcessType \cup {NoProcess}]
    BY <1>0, <1>1, <2>2 DEF TypeOK, Spawn
  <2>4. QED
    BY <1>0, <1>1, <2>1, <2>3 DEF TypeOK, Spawn, jobs, ghosts, RestTyped, JobsAreHeld
<1>2. ASSUME NEW p \in Pids, Exit(p), scene' = scene PROVE RestTyped'
  <2>1. Gone(p)
    BY <1>2 DEF Exit
  <2>2. QED
    BY <1>0, <1>2, <2>1, GoneTyped DEF TypeOK, Exit, jobs, ghosts, RestTyped, JobsAreHeld
<1>3. ASSUME Sample, scene' = scene PROVE RestTyped'
  <2>1. snap' \in [Pids -> EntryType \cup {NoEntry}]
    <3>1. PICK seen \in SUBSET Alive, unread \in SUBSET Pids :
            snap' = [p \in Pids |-> IF p \in seen THEN Entry(os[p], p \notin unread) ELSE NoEntry]
      BY <1>3 DEF Sample, Alive
    <3>2. \A p \in seen : os[p] \in ProcessType
      BY <1>0 DEF TypeOK, Alive
    <3>3. QED
      BY <3>1, <3>2, EntryTyped
  <2>2. QED
    BY <1>0, <1>3, <2>1 DEF TypeOK, Sample, machine, jobs, ghosts, RestTyped, JobsAreHeld
<1>4. ASSUME NEW p \in Pids, ClearLimit(p), scene' = scene PROVE RestTyped'
  BY <1>0, <1>4, JobCount DEF TypeOK, ClearLimit, machine, ghosts, RestTyped, JobsAreHeld
<1>5. ASSUME SetConfig, scene' = scene PROVE RestTyped'
  BY <1>0, <1>5 DEF TypeOK, SetConfig, machine, jobs, ghosts, RestTyped, JobsAreHeld
<1>6. ASSUME NEW t \in Tids, NEW p \in Pids, StartThread(t, p), scene' = scene PROVE RestTyped'
  <2>1. os[p].id \in Ids
    BY <1>0, <1>6 DEF TypeOK, StartThread, Alive, ProcessType
  <2>2. [of |-> os[p].id, count |-> 0] \in ThreadType
    BY <2>1 DEF ThreadType
  <2>3. QED
    BY <1>0, <1>6, <2>2 DEF TypeOK, StartThread, jobs, ghosts, RestTyped, JobsAreHeld
<1>7. ASSUME NEW t \in Tids, EndThread(t), scene' = scene PROVE RestTyped'
  BY <1>0, <1>7 DEF TypeOK, EndThread, jobs, ghosts, RestTyped, JobsAreHeld
<1>8. ASSUME NEW r \in Requests, Request(r), scene' = scene PROVE RestTyped'
  <2>0. req[r] \in RequestType /\ (req[r].at = "threads" => req[r].of \in Ids)
    BY <1>0, SoundRequests DEF TypeOK, Sound
  <2>1. CASE UNCHANGED <<machine, snap, strict, jobs, ghosts>>
    BY <1>0, <1>8, <2>1 DEF TypeOK, machine, jobs, ghosts, RestTyped, JobsAreHeld
  <2>2. CASE Terminate(r)
    <3>1. Gone(req[r].on) /\ req[r].on \in Pids
      BY <2>0, <2>2 DEF Terminate, RequestType
    <3>2. QED
      BY <1>0, <1>8, <2>2, <3>1, GoneTyped
      DEF TypeOK, Terminate, jobs, ghosts, RestTyped, JobsAreHeld
  <2>3. CASE ListThreads(r)
    <3> DEFINE i == os[req[r].on].id
    <3>1. i \in Ids
      BY <1>0, <2>3 DEF TypeOK, ListThreads, Alive, ProcessType
    <3>2. torn' \subseteq Ids
      BY <1>0, <2>3, <3>1 DEF TypeOK, ListThreads
    <3>3. held' \in [Ids -> 0..MaxSuspends]
      <4>1. held \in [Ids -> 0..MaxSuspends]
        BY <1>0 DEF TypeOK
      <4>2. CASE req[r].op = "suspend"
        <5>1. held[i] < MaxSuspends /\ held' = [held EXCEPT ![i] = @ + 1]
          BY <2>3, <4>2 DEF ListThreads
        <5> HIDE DEF i
        <5>2. held[i] + 1 \in 0..MaxSuspends
          BY <3>1, <4>1, <5>1
        <5>3. QED
          BY <4>1, <5>1, <5>2
      <4>3. CASE req[r].op # "suspend"
        BY <2>3, <4>1, <4>3 DEF ListThreads
      <4>4. QED
        BY <4>2, <4>3
    <3>4. QED
      BY <1>0, <1>8, <2>3, <3>2, <3>3
      DEF TypeOK, ListThreads, machine, jobs, RestTyped, JobsAreHeld
  <2>4. ASSUME NEW t \in Tids, TouchThread(r, t) PROVE RestTyped'
    <3> DEFINE n == NewCount(req[r].op, threads[t].count)
    <3>1. threads[t] \in ThreadType
      BY <1>0, <2>4 DEF TypeOK, TouchThread
    <3>2. threads[t].of \in Ids /\ threads[t].count \in 0..MaxSuspends
      BY <3>1 DEF ThreadType
    <3>3. n \in 0..MaxSuspends
      BY <2>4, <3>2 DEF TouchThread, NewCount, Less
    <3> HIDE DEF n
    <3>4. [threads[t] EXCEPT !.count = n] \in ThreadType
      BY <3>1, <3>3 DEF ThreadType
    <3>5. threads' = [threads EXCEPT ![t] = [threads[t] EXCEPT !.count = n]]
      BY <2>4 DEF TouchThread, n
    <3>6. threads' \in [Tids -> ThreadType \cup {NoThread}]
      BY <1>0, <3>4, <3>5 DEF TypeOK
    <3>7. held' \in [Ids -> 0..MaxSuspends]
      BY <1>0, <2>0, <2>4, UndoneTyped DEF TouchThread
    <3>8. torn' \subseteq Ids
      BY <1>0, <2>4, <3>2 DEF TypeOK, TouchThread
    <3>9. QED
      BY <1>0, <1>8, <2>4, <3>6, <3>7, <3>8
      DEF TypeOK, TouchThread, jobs, RestTyped, JobsAreHeld
  <2>5. ASSUME NEW t \in Tids, MissThread(r, t) PROVE RestTyped'
    <3>1. torn' \subseteq Ids /\ held' \in [Ids -> 0..MaxSuspends]
      BY <1>0, <2>0, <2>5, UndoneTyped DEF TypeOK, MissThread
    <3>2. QED
      BY <1>0, <1>8, <2>5, <3>1 DEF TypeOK, MissThread, machine, jobs, RestTyped, JobsAreHeld
  <2>6. CASE CutShort(r)
    <3>1. torn' \subseteq Ids /\ held' \in [Ids -> 0..MaxSuspends]
      BY <1>0, <2>0, <2>6, UndoneTyped DEF TypeOK, CutShort
    <3>2. QED
      BY <1>0, <1>8, <2>6, <3>1 DEF TypeOK, CutShort, machine, jobs, RestTyped, JobsAreHeld
  <2>7. CASE Limit(r)
    BY <1>0, <1>8, <2>0, <2>7, JobCount
    DEF TypeOK, Limit, machine, ghosts, RestTyped, JobsAreHeld, RequestType
  <2>8. CASE LimitFails(r)
    BY <1>0, <1>8, <2>0, <2>8, JobCount
    DEF TypeOK, LimitFails, machine, ghosts, RestTyped, JobsAreHeld, RequestType
  <2>9. QED
    BY <1>8, <2>1, <2>2, <2>3, <2>4, <2>5, <2>6, <2>7, <2>8
    DEF Request, Ask, AskTree, Walk, Check, Tune, Denied
<1>9. CASE UNCHANGED vars
  BY <1>0, <1>9 DEF TypeOK, vars, machine, jobs, ghosts, RestTyped, JobsAreHeld
<1>10. QED
  BY <1>0, <1>1, <1>2, <1>3, <1>4, <1>5, <1>6, <1>7, <1>8, <1>9, NextKinds

LEMMA RequestsTypedInductive ==
  ASSUME TypeInv, [Next]_vars
  PROVE  /\ req' \in [Requests -> RequestType]
         /\ \A r \in Requests : req'[r].at = "threads" <=> req'[r].left # {}
         /\ OneTarget'
<1> DEFINE Goal == /\ req' \in [Requests -> RequestType]
                   /\ \A r \in Requests : req'[r].at = "threads" <=> req'[r].left # {}
                   /\ OneTarget'
<1>0. TypeOK
  BY DEF TypeInv
<1>1. CASE req' = req
  BY <1>0, <1>1 DEF TypeInv, TypeOK, OneTarget
<1>2. ASSUME NEW r \in Requests, Request(r) PROVE Goal
  <2> DEFINE q == req[r]
  <2>0. /\ Sound(q)
        /\ \A new : Sound(new) /\ req' = [req EXCEPT ![r] = new] => Goal
    BY SoundRequests, RequestStep
  <2>1. ASSUME NEW p \in Pids, NEW op \in scene.ops[r] \ {"tree"}, NEW confirm \in BOOLEAN,
               Ask(r, op, p, confirm)
        PROVE  Goal
    <3> DEFINE at == IF op = "resume" THEN "cleared" ELSE "check"
               new == [Resting EXCEPT !.at = at, !.op = op, !.pid = p,
                                      !.confirm = confirm, !.ok = TRUE, !.on = p]
    <3>1. op \in AllOps \ {"tree"} /\ at \in {"cleared", "check"}
      BY <1>0 DEF TypeOK
    <3>0. req' = [req EXCEPT ![r] = new]
      BY <2>1 DEF Ask
    <3> HIDE DEF at
    <3>2. Sound(new)
      BY <3>1, RestingTyped DEF Sound, Resting, RequestType
    <3>3. QED
      BY <2>0, <3>0, <3>2
  <2>2. ASSUME NEW p \in Pids, NEW confirm \in BOOLEAN, AskTree(r, p, confirm) PROVE Goal
    <3> DEFINE tree == Parents(snap)
               listed == {snap[c].id : c \in Below(tree, p) \cup {p}} \ {NoProcess.id}
               new == [Resting EXCEPT !.at = "walk", !.op = "tree", !.pid = p,
                         !.confirm = confirm, !.ok = TRUE, !.tree = tree,
                         !.stack = Children(tree, p), !.listed = listed]
    <3>1. tree \in [Pids -> Pids \cup {None}]
      BY <1>0 DEF TypeOK, Parents, EntryType, NoEntry, NoProcess, Process, Entry
    <3>2. Children(tree, p) \in SUBSET Pids
      BY DEF Children
    <3>3. listed \in SUBSET Ids
      BY <1>0 DEF TypeOK, Below, EntryType, NoEntry, NoProcess, Process, Entry
    <3> HIDE DEF tree, listed
    <3>4. Sound(new)
      BY <3>1, <3>2, <3>3, RestingTyped DEF Sound, Resting, RequestType
    <3>5. QED
      BY <2>0, <2>2, <3>4 DEF AskTree, tree, listed
  <2>3. CASE Walk(r)
    <3>1. CASE q.stack = {}
      <4>1. Sound([q EXCEPT !.at = "check"])
        BY <2>0, <2>3 DEF Walk, Sound, RequestType
      <4>2. QED
        BY <2>0, <2>3, <3>1, <4>1 DEF Walk
    <3>2. CASE q.stack # {}
      <4>1. PICK p \in q.stack :
              req' = [req EXCEPT ![r].todo = @ \cup {p},
                                 ![r].stack = Popped(@, p) \cup Pushed(req[r].tree, p)]
        BY <2>3, <3>2 DEF Walk
      <4> DEFINE todo == q.todo \cup {p}
                 stack == Popped(q.stack, p) \cup Pushed(q.tree, p)
                 new == [q EXCEPT !.todo = todo, !.stack = stack]
      <4>2. todo \in SUBSET Pids /\ stack \in SUBSET Pids
        BY <2>0 DEF Sound, RequestType, Popped, Pushed, Children
      <4>3. req' = [req EXCEPT ![r] = new]
        BY <1>0, <4>1 DEF TypeOK, RequestType
      <4> HIDE DEF todo, stack
      <4>5. Sound(new)
        BY <2>0, <2>3, <4>2 DEF Walk, Sound, RequestType
      <4>4. QED
        BY <2>0, <4>3, <4>5
    <3>3. QED
      BY <3>1, <3>2
  <2>4. CASE Check(r)
    <3>1. PICK p \in Targets(r) :
            req' = [req EXCEPT ![r] =
              IF Allowed(p, req[r].confirm)
              THEN [@ EXCEPT !.at = "cleared", !.on = p, !.of = snap[p].id, !.blind = ~snap[p].read]
              ELSE Past(r, p, FALSE)]
      BY <2>4 DEF Check
    <3>2. p \in Pids /\ (q.op # "tree" => p = q.pid) /\ q.at = "check"
      BY <2>0, <2>4 DEF Check, Targets, Sound, RequestType
    <3>3. CASE Allowed(p, q.confirm)
      <4>1. snap[p].id \in Ids \cup {-1} /\ (~snap[p].read) \in BOOLEAN
        BY <1>0, <3>2 DEF TypeOK, EntryType, NoEntry, NoProcess, Process, Entry
      <4>2. Sound([q EXCEPT !.at = "cleared", !.on = p, !.of = snap[p].id, !.blind = ~snap[p].read])
        BY <2>0, <3>2, <4>1 DEF Sound, RequestType
      <4>3. QED
        BY <1>0, <2>0, <3>1, <3>3, <4>2 DEF TypeOK
    <3>4. CASE ~Allowed(p, q.confirm)
      <4>1. Sound(Past(r, p, FALSE))
        BY <2>0, <3>2, PastSound
      <4>2. QED
        BY <1>0, <2>0, <3>1, <3>4, <4>1 DEF TypeOK
    <3>5. QED
      BY <3>3, <3>4
  <2>5. ASSUME NEW good \in BOOLEAN, q.at \in {"cleared", "threads"},
               req' = [req EXCEPT ![r] = Past(r, q.on, good)]
        PROVE  Goal
    <3>1. q.on \in Pids /\ (q.op # "tree" => q.on = q.pid)
      BY <2>0 DEF Sound, RequestType
    <3>2. Sound(Past(r, q.on, good))
      BY <2>0, <2>5, <3>1, PastSound
    <3>3. QED
      BY <2>0, <2>5, <3>2
  <2>6. CASE Terminate(r) \/ Tune(r) \/ Denied(r) \/ Limit(r) \/ LimitFails(r)
    BY <2>5, <2>6 DEF Terminate, Tune, Denied, Limit, LimitFails, Cleared
  <2>7. CASE ListThreads(r)
    <3> DEFINE i == os[q.on].id
               left == Listed(i)
               new == [q EXCEPT !.at = "threads", !.left = left, !.of = i]
    <3>1. i \in Ids /\ left \in SUBSET Tids /\ left # {}
      BY <1>0, <2>7 DEF TypeOK, ListThreads, Listed, Alive, ProcessType
    <3>2. req' = [req EXCEPT ![r] = new]
      BY <1>0, <2>7 DEF TypeOK, ListThreads, RequestType
    <3> HIDE DEF i, left
    <3>3. Sound(new)
      BY <2>0, <2>7, <3>1 DEF ListThreads, Cleared, Sound, RequestType
    <3>4. QED
      BY <2>0, <3>2, <3>3
  <2>8. ASSUME NEW t \in Tids, TouchThread(r, t) \/ MissThread(r, t) PROVE Goal
    <3>1. PICK good \in BOOLEAN : req' = [req EXCEPT ![r] = PastThread(r, t, good)]
      BY <2>8 DEF TouchThread, MissThread
    <3>2. q.at = "threads" /\ t \in q.left
      BY <2>8 DEF TouchThread, MissThread
    <3>3. CASE q.left = {t}
      BY <2>5, <3>1, <3>2, <3>3 DEF PastThread
    <3>4. CASE q.left # {t}
      <4> DEFINE ok == q.ok /\ good
                 left == q.left \ {t}
                 new == [q EXCEPT !.left = left, !.ok = ok]
      <4>1. ok \in BOOLEAN /\ left \in SUBSET Tids /\ left # {}
        BY <2>0, <3>2, <3>4 DEF Sound, RequestType
      <4> HIDE DEF ok, left
      <4>2. Sound(new)
        BY <2>0, <3>2, <4>1 DEF Sound, RequestType
      <4>3. req' = [req EXCEPT ![r] = new]
        BY <3>1, <3>4 DEF PastThread, ok, left
      <4>4. QED
        BY <2>0, <4>2, <4>3
    <3>5. QED
      BY <3>3, <3>4
  <2>9. CASE CutShort(r)
    BY <2>5, <2>9 DEF CutShort
  <2>10. QED
    BY <1>0, <1>2, <2>1, <2>2, <2>3, <2>4, <2>6, <2>7, <2>8, <2>9, RequestKinds
<1>3. QED
  BY <1>1, <1>2
  DEF Next, Spawn, Exit, StartThread, EndThread, Sample, ClearLimit, SetConfig, vars

LEMMA TypeInvInductive == TypeInv /\ [Next]_vars => TypeInv'
BY RestTypedInductive, RequestsTypedInductive DEF TypeInv, TypeOK, RestTyped

LEMMA TypeInvInit == Init => TypeInv
<1> SUFFICES ASSUME Init PROVE TypeInv
  OBVIOUS
<1>1. os \in [Pids -> ProcessType \cup {NoProcess}]
  BY DEF Init, Process, ProcessType
<1>2. snap \in [Pids -> EntryType \cup {NoEntry}]
  BY DEF Init
<1>3. \A r \in Requests : Sound(Resting)
  BY RestingTyped DEF Sound, Resting
<1>4. Cardinality(limited) = 0 /\ Cardinality(Pids) \in Nat
  BY FS_EmptySet, FS_CardinalityType DEF Init
<1>5. QED
  BY <1>1, <1>2, <1>3, <1>4 DEF Init, TypeInv, TypeOK, JobsAreHeld, OneTarget, Sound

LEMMA TypeInvHolds == Spec => []TypeInv
BY TypeInvInit, TypeInvInductive, PTL DEF Spec

(* Requests, machine and snapshot keep their types; a request is among the threads
   of a process only as long as some are left. *)
THEOREM Typing == Spec => []TypeOK
<1>1. TypeInv => TypeOK
  BY DEF TypeInv
<1>2. QED
  BY <1>1, TypeInvHolds, PTL

(* WTM holds as many job handles as the table of jobs has entries, whichever call
   of a Limit or ClearLimit failed and whichever entry it replaced. *)
THEOREM NoHandleLeaks == Spec => []JobsAreHeld
<1>1. TypeInv => JobsAreHeld
  BY DEF TypeInv
<1>2. QED
  BY <1>1, TypeInvHolds, PTL

-----------------------------------------------------------------------------
(* The identities of processes *)

(* A process keeps its pid, and its number is its own; entries of a snapshot
   carry the kind of the process they were taken of, if it could be read. *)
Numbered ==
  /\ \A p \in Pids : os[p].id <= starts /\ snap[p].id <= starts
  /\ \A p, o \in Pids : os[p].id \in Ids /\ os[p].id \in {os[o].id, snap[o].id} => p = o
  /\ \A p \in Pids : os[p].id = snap[p].id /\ snap[p].read => os[p].kind = snap[p].kind

(* What a step may do to a process: nothing it could be told by, end it, or start
   one with a new number. *)
MachineStep ==
  /\ starts' \in {starts, starts + 1}
  /\ \A p \in Pids :
       \/ os'[p].id = os[p].id /\ os'[p].kind = os[p].kind
       \/ os'[p].id = -1 /\ os'[p].kind = "none"
       \/ /\ starts' = starts + 1 /\ os'[p].id = starts'
          /\ \A o \in Pids \ {p} : os'[o] = os[o]

SnapStep ==
  \/ snap' = snap
  \/ /\ UNCHANGED machine
     /\ \A p \in Pids : \/ snap'[p] = NoEntry
                         \/ /\ snap'[p].id = os[p].id
                            /\ snap'[p].read => snap'[p].kind = os[p].kind

LEMMA NumbersMove ==
  ASSUME TypeInv, [Next]_vars PROVE MachineStep /\ SnapStep
<1>0. TypeOK
  BY DEF TypeInv
<1>1. CASE UNCHANGED machine /\ snap' = snap
  BY <1>1 DEF MachineStep, SnapStep, machine
<1>2. ASSUME NEW p \in Pids, NEW parent \in Pids, Spawn(p, parent) PROVE MachineStep /\ SnapStep
  BY <1>0, <1>2 DEF Spawn, MachineStep, SnapStep, Process, TypeOK
<1>3. CASE Sample
  <2>1. MachineStep /\ UNCHANGED machine
    BY <1>0, <1>3 DEF Sample, MachineStep, machine
  <2>2. PICK seen \in SUBSET Alive, unread \in SUBSET Pids :
          snap' = [p \in Pids |-> IF p \in seen THEN Entry(os[p], p \notin unread) ELSE NoEntry]
    BY <1>3 DEF Sample, Alive
  <2>3. ASSUME NEW p \in Pids
        PROVE  \/ snap'[p] = NoEntry
               \/ snap'[p].id = os[p].id /\ (snap'[p].read => snap'[p].kind = os[p].kind)
    BY <2>2 DEF Entry
  <2>4. QED
    BY <2>1, <2>3 DEF SnapStep
<1>4. ASSUME NEW p \in Pids, os' = [os EXCEPT ![p] = NoProcess], UNCHANGED <<starts, snap>>
      PROVE  MachineStep /\ SnapStep
  BY <1>0, <1>4 DEF MachineStep, SnapStep, NoProcess, Process, TypeOK
<1>5. CASE UNCHANGED <<os, starts, snap>>
  BY <1>5 DEF MachineStep, SnapStep
<1>6. ASSUME NEW r \in Requests, Terminate(r) PROVE MachineStep /\ SnapStep
  <2>1. req[r].on \in Pids
    BY <1>0 DEF TypeOK, RequestType
  <2>2. QED
    BY <1>4, <1>6, <2>1 DEF Terminate, Gone
<1>7. ASSUME NEW r \in Requests, Request(r) PROVE MachineStep /\ SnapStep
  BY <1>1, <1>5, <1>6, <1>7
  DEF Request, Ask, AskTree, Walk, Check, Tune, Denied, ListThreads, TouchThread, MissThread,
      CutShort, Limit, LimitFails, machine
<1>8. QED
  BY <1>0, <1>1, <1>2, <1>3, <1>4, <1>5, <1>7, NextKinds
  DEF Exit, Gone, StartThread, EndThread, ClearLimit, SetConfig, vars

LEMMA NumberedInductive == TypeInv /\ Numbered /\ [Next]_vars => Numbered'
<1> SUFFICES ASSUME TypeInv, Numbered, [Next]_vars PROVE Numbered'
  OBVIOUS
<1>1. MachineStep /\ SnapStep
  BY NumbersMove
<1>2. /\ starts \in Nat
      /\ \A p \in Pids : /\ os[p].id \in Ids \cup {-1} /\ snap[p].id \in Ids \cup {-1}
                         /\ os[p].id = -1 => os[p].kind = "none"
                         /\ snap[p].id = -1 => snap[p].kind = "none"
  BY DEF TypeInv, TypeOK, ProcessType, NoProcess, Process, EntryType, NoEntry, Entry
<1>3. CASE snap' = snap
  BY <1>1, <1>2, <1>3 DEF MachineStep, Numbered
<1>4. CASE snap' # snap
  BY <1>1, <1>2, <1>4 DEF SnapStep, Numbered, machine, NoEntry, Entry, NoProcess, Process
<1>5. QED
  BY <1>3, <1>4

LEMMA NumberedInit == Init => Numbered
BY DEF Init, Numbered, Process, NoProcess, NoEntry, Entry

-----------------------------------------------------------------------------
(* Critical processes *)

(* The process a request is cleared for was told from the critical ones by its
   number, and keeps its kind. *)
ClearedInv ==
  \A r \in Requests :
    LET q == req[r] IN
    q.at = "cleared" /\ q.op # "resume" =>
      /\ q.on # Self
      /\ q.of <= starts
      /\ os[q.on].id = q.of => os[q.on].kind # "critical" \/ q.blind

(* Only a step of its own changes a request. *)
LEMMA OthersKept ==
  ASSUME TypeInv, NEW r \in Requests, Request(r) PROVE \A o \in Requests \ {r} : req'[o] = req[o]
<1>1. req \in [Requests -> RequestType]
  BY DEF TypeInv, TypeOK
<1>2. QED
  BY <1>1
  DEF Request, Ask, AskTree, Walk, Check, Terminate, Tune, Denied, ListThreads, TouchThread,
      MissThread, CutShort, Limit, LimitFails

LEMMA OwnSteps ==
  ASSUME TypeInv, [Next]_vars, NEW r \in Requests, req'[r] # req[r]
  PROVE  Request(r)
<1>1. ASSUME NEW o \in Requests, Request(o), o # r PROVE FALSE
  BY <1>1, OthersKept
<1>2. QED
  BY <1>1 DEF Next, vars, Spawn, Exit, StartThread, EndThread, Sample, ClearLimit, SetConfig

LEMMA ClearedByCheck ==
  ASSUME TypeInv, [Next]_vars, NEW r \in Requests,
         req'[r] # req[r], req'[r].at = "cleared", req'[r].op # "resume"
  PROVE  /\ UNCHANGED <<machine, snap>>
         /\ \E p \in Pids : /\ Allowed(p, req[r].confirm)
                            /\ req'[r].on = p
                            /\ req'[r].of = snap[p].id
                            /\ req'[r].blind = ~snap[p].read
<1>0. req \in [Requests -> RequestType] /\ Sound(req[r])
  BY SoundRequests DEF TypeInv, TypeOK
<1>1. Request(r)
  BY OwnSteps
<1>2. ASSUME NEW p \in Pids, NEW good \in BOOLEAN, req'[r] = Past(r, p, good) PROVE FALSE
  BY <1>0, <1>2, PastTyped DEF PastShape
<1>3. req[r].on \in Pids
  BY <1>0 DEF RequestType
<1>4. ~(Terminate(r) \/ Tune(r) \/ Denied(r) \/ CutShort(r) \/ Limit(r) \/ LimitFails(r))
  BY <1>0, <1>2, <1>3 DEF Terminate, Tune, Denied, CutShort, Limit, LimitFails
<1>5. ~ListThreads(r)
  <2>1. ASSUME NEW i, NEW left,
               req' = [req EXCEPT ![r].at = "threads", ![r].left = left, ![r].of = i]
        PROVE  FALSE
    BY <1>0, <2>1 DEF RequestType
  <2>2. QED
    BY <2>1 DEF ListThreads
<1>6. ASSUME NEW t \in Tids, TouchThread(r, t) \/ MissThread(r, t) PROVE FALSE
  <2>1. PICK good \in BOOLEAN : req'[r] = PastThread(r, t, good)
    BY <1>0, <1>6 DEF TouchThread, MissThread
  <2>2. req[r].at = "threads"
    BY <1>6 DEF TouchThread, MissThread
  <2>3. PastThread(r, t, good).at = "threads" \/ PastThread(r, t, good) = Past(r, req[r].on, good)
    <3> DEFINE ok == req[r].ok /\ good
    <3>1. [req[r] EXCEPT !.left = @ \ {t}, !.ok = ok].at = "threads"
      <4> HIDE DEF ok
      <4>1. QED
        BY <1>0, <2>2 DEF RequestType
    <3>2. QED
      BY <3>1 DEF PastThread
  <2>4. QED
    BY <1>2, <1>3, <2>1, <2>3
<1>7. ASSUME NEW p \in Pids, NEW op \in scene.ops[r], NEW confirm \in BOOLEAN, Ask(r, op, p, confirm)
      PROVE  FALSE
  BY <1>0, <1>7 DEF Ask, Resting
<1>8. ASSUME NEW p \in Pids, NEW confirm \in BOOLEAN, AskTree(r, p, confirm) PROVE FALSE
  BY <1>0, <1>8 DEF AskTree, Resting
<1>9. ~Walk(r)
  <2>1. ASSUME NEW s, NEW d,
               req' = [req EXCEPT ![r].todo = s, ![r].stack = d]
        PROVE  req'[r].at = req[r].at
    BY <1>0, <2>1 DEF RequestType
  <2>2. req' # [req EXCEPT ![r].at = "check"]
    BY <1>0 DEF RequestType
  <2>3. QED
    BY <2>1, <2>2 DEF Walk
<1>10. Check(r)
  BY <1>1, <1>4, <1>5, <1>6, <1>7, <1>8, <1>9, RequestKinds DEF TypeInv
<1>11. PICK p \in Targets(r) :
         req'[r] = IF Allowed(p, req[r].confirm)
                   THEN [req[r] EXCEPT !.at = "cleared", !.on = p, !.of = snap[p].id, !.blind = ~snap[p].read]
                   ELSE Past(r, p, FALSE)
  BY <1>0, <1>10 DEF Check
<1>12. p \in Pids
  BY <1>0, <1>11 DEF Targets, RequestType
<1>13. Allowed(p, req[r].confirm)
  BY <1>2, <1>11, <1>12
<1>14. QED
  BY <1>0, <1>10, <1>11, <1>12, <1>13 DEF Check, RequestType

LEMMA ClearedInductive == TypeInv /\ Numbered /\ ClearedInv /\ [Next]_vars => ClearedInv'
<1> SUFFICES ASSUME TypeInv, Numbered, ClearedInv, [Next]_vars,
                    NEW r \in Requests, req'[r].at = "cleared", req'[r].op # "resume"
             PROVE  /\ req'[r].on # Self
                    /\ req'[r].of <= starts'
                    /\ os'[req'[r].on].id = req'[r].of =>
                         os'[req'[r].on].kind # "critical" \/ req'[r].blind
  BY DEF ClearedInv
<1>1. CASE req'[r] # req[r]
  <2>1. PICK p \in Pids : /\ UNCHANGED <<machine, snap>>
                          /\ Allowed(p, req[r].confirm)
                          /\ req'[r].on = p
                          /\ req'[r].of = snap[p].id
                          /\ req'[r].blind = ~snap[p].read
    BY <1>1, ClearedByCheck
  <2>2. QED
    BY <2>1 DEF Allowed, Numbered, machine
<1>2. CASE req'[r] = req[r]
  <2>1. /\ req[r].on \in Pids /\ req[r].of \in Ids \cup {-1}
        /\ starts \in Nat
    BY DEF TypeInv, TypeOK, RequestType
  <2>2. MachineStep
    BY NumbersMove
  <2>3. QED
    BY <1>2, <2>1, <2>2 DEF ClearedInv, MachineStep
<1>3. QED
  BY <1>1, <1>2

(* No request that looked at WTM comes as far as opening it, nor one that looked at
   a critical process and a sample that could read so, whatever the snapshot's age
   and the config's changes. *)
THEOREM CriticalIsSpared == Spec => []CriticalSpared
<1>1. Init => ClearedInv
  BY DEF Init, ClearedInv, Resting
<1>2. ClearedInv => CriticalSpared
  BY DEF ClearedInv, CriticalSpared
<1>3. QED
  BY <1>1, <1>2, ClearedInductive, TypeInvInit, TypeInvInductive, NumberedInit,
     NumberedInductive, PTL DEF Spec

-----------------------------------------------------------------------------
(* Trees *)

(* Below is closed under Children, and the smallest such set. *)
LEMMA BelowIsLeast ==
  ASSUME NEW tree, NEW root
  PROVE  /\ Below(tree, root) \subseteq Pids
         /\ Children(tree, root) \subseteq Below(tree, root)
         /\ \A p \in Below(tree, root) : Children(tree, p) \subseteq Below(tree, root)
         /\ \A S \in SUBSET Pids :
              Children(tree, root) \subseteq S /\ (\A q \in S : Children(tree, q) \subseteq S)
                => Below(tree, root) \subseteq S
BY DEF Below, Children

(* The worklist: what has been visited is closed but for the stack, all of it is
   below the root, and a pid comes after its parent. *)
WalkInv(q) ==
  q.at = "walk" =>
    LET seen == q.stack \cup q.todo IN
    /\ Children(q.tree, q.pid) \subseteq seen
    /\ \A p \in q.todo : Children(q.tree, p) \subseteq seen
    /\ seen \subseteq Below(q.tree, q.pid)
    /\ \A p \in seen : q.tree[p] \in q.todo \cup {q.pid}
    /\ ~OnCycle(q.tree, q.pid) => q.stack \cap (q.todo \cup {q.pid}) = {}

(* Where a request has still to look. *)
Remaining(q) ==
  IF q.at = "idle" THEN {}
  ELSE {q.pid} \cup (IF q.at = "walk" THEN Below(q.tree, q.pid) ELSE q.todo)

(* The processes a tree kill without error listed and that live are among those. *)
ListedInv(q) ==
  /\ \A i \in q.listed : i <= starts
  /\ q.ok => \A p \in Pids : os[p].id \in q.listed => p \in Remaining(q)

TreeInv == \A r \in Requests : WalkInv(req[r]) /\ ListedInv(req[r])

(* The machine ends listed processes, and starts none. *)
LEMMA ListedDwindle ==
  ASSUME TypeInv, [Next]_vars, NEW q, q.listed \subseteq Ids, ListedInv(q)
  PROVE  /\ \A i \in q.listed : i <= starts'
         /\ q.ok => \A p \in Pids : os'[p].id \in q.listed => p \in Remaining(q)
<1>1. MachineStep
  BY NumbersMove
<1>2. starts \in Nat
  BY DEF TypeInv, TypeOK
<1>3. \A i \in q.listed : i <= starts
  BY DEF ListedInv
<1>4. \A p \in Pids : os'[p].id \in q.listed => os'[p].id = os[p].id
  BY <1>1, <1>2, <1>3 DEF MachineStep
<1>5. QED
  BY <1>1, <1>2, <1>3, <1>4 DEF MachineStep, ListedInv

(* A target is done with for good if it has been killed. *)
LEMMA PastListed ==
  ASSUME TypeInv, TreeInv, [Next]_vars, NEW r \in Requests, NEW p \in Pids, NEW good \in BOOLEAN,
         req[r].at \in {"check", "cleared", "threads"}, req'[r] = Past(r, p, good),
         req[r].op = "tree" /\ good => os'[p] = NoProcess
  PROVE  WalkInv(req[r])' /\ ListedInv(req[r])'
<1> DEFINE q == req[r]
<1>0. Sound(q) /\ q \in RequestType /\ ListedInv(q)
  BY SoundRequests DEF Sound, TreeInv
<1>1. PastShape(r, p, good)
  BY <1>0, PastTyped
<1>2. WalkInv(req[r])'
  BY <1>1 DEF PastShape, WalkInv
<1>3. \A i \in q.listed : i <= starts'
  BY <1>0, ListedDwindle DEF RequestType
<1>4. ASSUME req'[r].ok, NEW o \in Pids, os'[o].id \in req'[r].listed
      PROVE  o \in Remaining(req'[r])
  <2>1. q.ok /\ good /\ os'[o].id \in q.listed
    BY <1>1, <1>4 DEF PastShape
  <2>2. q.op = "tree" /\ os'[p] = NoProcess /\ q.at \in {"check", "cleared"}
    BY <1>0, <2>1 DEF Sound
  <2>3. o # p
    BY <1>0, <2>1, <2>2 DEF NoProcess, Process, RequestType
  <2>4. o \in {q.pid} \cup q.todo
    BY <1>0, <2>1, <2>2, ListedDwindle DEF Remaining, RequestType
  <2>5. QED
    BY <1>1, <2>2, <2>3, <2>4 DEF PastShape, Remaining
<1>5. QED
  BY <1>1, <1>2, <1>3, <1>4 DEF PastShape, ListedInv

LEMMA AskTreeListed ==
  ASSUME TypeInv, Numbered, NEW r \in Requests, NEW p \in Pids, NEW confirm \in BOOLEAN,
         AskTree(r, p, confirm)
  PROVE  WalkInv(req[r])' /\ ListedInv(req[r])'
<1> DEFINE tree == Parents(snap)
           family == Below(tree, p) \cup {p}
           listed == {snap[c].id : c \in family} \ {NoProcess.id}
<1>1. /\ req'[r].at = "walk" /\ req'[r].pid = p /\ req'[r].tree = tree
      /\ req'[r].stack = Children(tree, p) /\ req'[r].todo = {} /\ req'[r].listed = listed
  BY DEF TypeInv, TypeOK, AskTree, Resting
<1>2. family \subseteq Pids /\ Children(tree, p) \subseteq Below(tree, p)
  BY BelowIsLeast
<1>3. UNCHANGED machine
  BY DEF AskTree
<1>4. \A i \in listed : i <= starts
  BY <1>2 DEF Numbered
<1>5. ASSUME NEW o \in Pids, os[o].id \in listed PROVE o \in family
  <2>1. PICK c \in family : os[o].id = snap[c].id /\ os[o].id # -1
    BY <1>5 DEF NoProcess, Process
  <2>2. os[o].id \in Ids
    BY <2>1 DEF TypeInv, TypeOK, ProcessType, NoProcess, Process
  <2>3. QED
    BY <1>2, <2>1, <2>2 DEF Numbered
<1>6. \A c \in Children(tree, p) : tree[c] = p
  BY DEF Children
<1> HIDE DEF tree, listed
<1>7. WalkInv(req[r])'
  BY <1>1, <1>2, <1>6 DEF WalkInv, OnCycle
<1>8. ListedInv(req[r])'
  BY <1>1, <1>3, <1>4, <1>5 DEF ListedInv, Remaining, machine
<1>9. QED
  BY <1>7, <1>8

LEMMA WalkListed ==
  ASSUME TypeInv, TreeInv, [Next]_vars, NEW r \in Requests, Walk(r)
  PROVE  WalkInv(req[r])' /\ ListedInv(req[r])'
<1> DEFINE q == req[r]
           seen == q.stack \cup q.todo
<1>0. /\ q \in RequestType /\ WalkInv(q) /\ ListedInv(q) /\ q.at = "walk"
      /\ req \in [Requests -> RequestType]
  BY SoundRequests DEF Sound, TreeInv, Walk, TypeInv, TypeOK
<1>1. /\ q.stack \in SUBSET Pids /\ q.todo \in SUBSET Pids /\ q.pid \in Pids
      /\ q.tree \in [Pids -> Pids \cup {None}]
      /\ q.listed \subseteq Ids
  BY <1>0 DEF RequestType
<1>2. /\ Children(q.tree, q.pid) \subseteq seen
      /\ \A p \in q.todo : Children(q.tree, p) \subseteq seen
      /\ seen \subseteq Below(q.tree, q.pid)
      /\ \A p \in seen : q.tree[p] \in q.todo \cup {q.pid}
      /\ ~OnCycle(q.tree, q.pid) => q.stack \cap (q.todo \cup {q.pid}) = {}
  BY <1>0 DEF WalkInv
<1>3. /\ \A i \in q.listed : i <= starts'
      /\ q.ok => \A p \in Pids : os'[p].id \in q.listed => p \in Below(q.tree, q.pid) \cup {q.pid}
  BY <1>0, <1>1, ListedDwindle DEF Remaining
<1>4. CASE q.stack = {}
  <2>1. /\ req'[r].at = "check" /\ req'[r].todo = q.todo /\ req'[r].pid = q.pid
        /\ req'[r].listed = q.listed /\ req'[r].ok = q.ok
    BY <1>0, <1>4 DEF Walk, RequestType
  <2>2. Below(q.tree, q.pid) \subseteq q.todo
    BY <1>1, <1>2, <1>4, BelowIsLeast
  <2>3. QED
    BY <1>3, <2>1, <2>2 DEF WalkInv, ListedInv, Remaining
<1>5. CASE q.stack # {}
  <2>1. PICK p \in q.stack :
          req' = [req EXCEPT ![r].todo = @ \cup {p},
                             ![r].stack = Popped(@, p) \cup Pushed(req[r].tree, p)]
    BY <1>5 DEF Walk
  <2> DEFINE todo == q.todo \cup {p}
             stack == (q.stack \ {p}) \cup Children(q.tree, p)
  <2>2. /\ req'[r].at = "walk" /\ req'[r].todo = todo /\ req'[r].stack = stack
        /\ req'[r].pid = q.pid /\ req'[r].tree = q.tree
        /\ req'[r].listed = q.listed /\ req'[r].ok = q.ok
    BY <1>0, <2>1 DEF Popped, Pushed, RequestType
  <2>3. stack \cup todo = seen \cup Children(q.tree, p)
    BY <2>1
  <2>4. /\ Children(q.tree, q.pid) \subseteq stack \cup todo
        /\ \A c \in todo : Children(q.tree, c) \subseteq stack \cup todo
    BY <1>2, <2>3
  <2>5. stack \cup todo \subseteq Below(q.tree, q.pid)
    BY <1>2, <2>1, <2>3, BelowIsLeast
  <2>6. \A c \in Children(q.tree, p) : q.tree[c] = p
    BY DEF Children
  <2>7. \A c \in stack \cup todo : q.tree[c] \in todo \cup {q.pid}
    BY <1>2, <2>3, <2>6
  <2>8. ASSUME ~OnCycle(q.tree, q.pid), NEW c \in stack, c \in todo \cup {q.pid} PROVE FALSE
    <3>1. q.stack \cap (q.todo \cup {q.pid}) = {}
      BY <1>2, <2>8
    <3>2. c \in Children(q.tree, p)
      BY <2>1, <2>8, <3>1
    <3>3. c # q.pid
      BY <2>5, <2>8 DEF OnCycle
    <3>4. c \in seen
      BY <2>1, <2>8, <3>3
    <3>5. p \in q.todo \cup {q.pid}
      BY <1>2, <2>6, <3>2, <3>4
    <3>6. QED
      BY <2>1, <3>1, <3>5
  <2> HIDE DEF todo, stack
  <2>9. WalkInv(req[r])'
    BY <2>2, <2>4, <2>5, <2>7, <2>8 DEF WalkInv
  <2>10. ListedInv(req[r])'
    BY <1>3, <2>2 DEF ListedInv, Remaining
  <2>11. QED
    BY <2>9, <2>10
<1>6. QED
  BY <1>4, <1>5

LEMMA TreeInvInductive == TypeInv /\ Numbered /\ TreeInv /\ [Next]_vars => TreeInv'
<1> SUFFICES ASSUME TypeInv, Numbered, TreeInv, [Next]_vars, NEW r \in Requests
             PROVE  WalkInv(req[r])' /\ ListedInv(req[r])'
  BY DEF TreeInv
<1> DEFINE q == req[r]
           Goal == WalkInv(req[r])' /\ ListedInv(req[r])'
<1>0. /\ Sound(q) /\ q \in RequestType /\ WalkInv(q) /\ ListedInv(q)
      /\ req \in [Requests -> RequestType]
      /\ q.on \in Pids /\ q.listed \subseteq Ids
  BY SoundRequests DEF Sound, TreeInv, TypeInv, TypeOK, RequestType
<1>1. ASSUME req'[r].at # "walk", req'[r].listed = q.listed, req'[r].ok => q.ok,
             Remaining(q) \subseteq Remaining(req'[r])
      PROVE  Goal
  BY <1>0, <1>1, ListedDwindle DEF WalkInv, ListedInv
<1>2. ASSUME req'[r].at # "walk", req'[r].listed = {} PROVE Goal
  BY <1>2 DEF WalkInv, ListedInv
<1>3. CASE req'[r] = q
  <2>1. WalkInv(req[r])'
    BY <1>0, <1>3 DEF WalkInv
  <2>2. ListedInv(req[r])'
    BY <1>0, <1>3, ListedDwindle DEF ListedInv
  <2>3. QED
    BY <2>1, <2>2
<1>4. CASE req'[r] # q
  <2>1. Request(r)
    BY <1>4, OwnSteps
  <2>2. ASSUME NEW p \in Pids, NEW op \in scene.ops[r] \ {"tree"}, NEW confirm \in BOOLEAN,
               Ask(r, op, p, confirm)
        PROVE  Goal
    BY <1>0, <1>2, <2>2 DEF Ask, Resting
  <2>3. ASSUME NEW p \in Pids, NEW confirm \in BOOLEAN, AskTree(r, p, confirm) PROVE Goal
    BY <2>3, AskTreeListed
  <2>4. CASE Walk(r)
    BY <2>4, WalkListed
  <2>5. CASE Check(r)
    <3>1. PICK p \in Targets(r) :
            req'[r] = IF Allowed(p, q.confirm)
                      THEN [q EXCEPT !.at = "cleared", !.on = p, !.of = snap[p].id, !.blind = ~snap[p].read]
                      ELSE Past(r, p, FALSE)
      BY <1>0, <2>5 DEF Check
    <3>2. p \in Pids /\ q.at = "check"
      BY <1>0, <2>5, <3>1 DEF Check, Targets, RequestType
    <3>3. CASE Allowed(p, q.confirm)
      <4>1. req'[r] = [q EXCEPT !.at = "cleared", !.on = p, !.of = snap[p].id, !.blind = ~snap[p].read]
        BY <3>1, <3>3
      <4>2. /\ req'[r].at = "cleared" /\ req'[r].listed = q.listed /\ req'[r].ok = q.ok
            /\ req'[r].pid = q.pid /\ req'[r].todo = q.todo
        BY <1>0, <4>1 DEF RequestType
      <4>3. QED
        BY <1>1, <3>2, <4>2 DEF Remaining
    <3>4. CASE ~Allowed(p, q.confirm)
      BY <3>1, <3>2, <3>4, PastListed
    <3>5. QED
      BY <3>3, <3>4
  <2>6. ASSUME Cleared(r, AllOps), NEW good \in BOOLEAN,
               req' = [req EXCEPT ![r] = Past(r, q.on, good)],
               q.op = "tree" /\ good => os'[q.on] = NoProcess
        PROVE  Goal
    <3>1. req'[r] = Past(r, q.on, good) /\ q.at = "cleared"
      BY <1>0, <2>6 DEF Cleared
    <3>2. QED
      BY <1>0, <2>6, <3>1, PastListed
  <2>7. CASE Terminate(r)
    <3>1. os'[q.on] = NoProcess
      BY <1>0, <2>7 DEF Terminate, Gone, TypeInv, TypeOK
    <3>2. QED
      BY <2>6, <2>7, <3>1 DEF Terminate, Cleared
  <2>8. CASE Tune(r) \/ Limit(r)
    BY <2>6, <2>8 DEF Tune, Limit, Cleared
  <2>9. CASE Denied(r) \/ LimitFails(r)
    BY <2>6, <2>9 DEF Denied, LimitFails, Cleared
  <2>10. CASE ListThreads(r)
    <3>1. q.listed = {} /\ q.op \in {"suspend", "resume"}
      BY <1>0, <2>10 DEF ListThreads, Cleared, Sound
    <3>2. ASSUME NEW i, NEW left,
                 req' = [req EXCEPT ![r].at = "threads", ![r].left = left, ![r].of = i]
          PROVE  req'[r].at = "threads" /\ req'[r].listed = {}
      BY <1>0, <3>1, <3>2 DEF RequestType
    <3>3. QED
      BY <1>2, <2>10, <3>2 DEF ListThreads
  <2>11. ASSUME NEW t \in Tids, TouchThread(r, t) \/ MissThread(r, t) PROVE Goal
    <3>1. PICK good \in BOOLEAN : req'[r] = PastThread(r, t, good)
      BY <1>0, <2>11 DEF TouchThread, MissThread
    <3>2. q.at = "threads" /\ q.op # "tree" /\ q.listed = {}
      BY <1>0, <2>11 DEF TouchThread, MissThread, Sound
    <3>3. CASE q.left = {t}
      BY <1>0, <3>1, <3>2, <3>3, PastListed DEF PastThread
    <3>4. CASE q.left # {t}
      <4> DEFINE ok == q.ok /\ good
      <4>1. req'[r] = [q EXCEPT !.left = @ \ {t}, !.ok = ok]
        BY <3>1, <3>4 DEF PastThread
      <4> HIDE DEF ok
      <4>2. req'[r].at = "threads" /\ req'[r].listed = {}
        BY <1>0, <3>2, <4>1 DEF RequestType
      <4>3. QED
        BY <1>2, <4>2
    <3>5. QED
      BY <3>3, <3>4
  <2>12. CASE CutShort(r)
    <3>1. req'[r] = Past(r, q.on, FALSE) /\ q.at = "threads"
      BY <1>0, <2>12 DEF CutShort
    <3>2. QED
      BY <1>0, <3>1, PastListed
  <2>13. QED
    BY <2>1, <2>2, <2>3, <2>4, <2>5, <2>7, <2>8, <2>9, <2>10, <2>11, <2>12, RequestKinds DEF TypeInv
<1>5. QED
  BY <1>3, <1>4

LEMMA TreeInvInit == Init => TreeInv
BY DEF Init, TreeInv, WalkInv, ListedInv, Resting

LEMMA TreeInvHolds == Spec => []TreeInv
BY TypeInvInit, TypeInvInductive, NumberedInit, NumberedInductive, TreeInvInit,
   TreeInvInductive, PTL DEF Spec

(* A tree kill that reports no error has left none of the processes it listed
   alive, whatever exited, started and took over pids while it was under way. *)
THEOREM TreesAreComplete == Spec => []TreeIsComplete
<1>1. TreeInv => TreeIsComplete
  BY DEF TreeInv, ListedInv, Remaining, TreeIsComplete, Alive
<1>2. QED
  BY <1>1, TreeInvHolds, PTL

(* The walk of a tree kill comes to no pid a second time, however deep the tree,
   if the root is not its own descendant. *)
THEOREM WalksVisitOnce == Spec => []VisitsOnce
<1>1. TreeInv => VisitsOnce
  BY DEF TreeInv, WalkInv, VisitsOnce
<1>2. QED
  BY <1>1, TreeInvHolds, PTL

-----------------------------------------------------------------------------
(* Suspend counts *)

(* The requests among the threads of some process, and those among the threads of
   process i: suspends that have still to come to thread t, resumes that are past
   it, whether it was on their list or not. *)
Busy == {r \in Requests : req[r].at = "threads"}
Among(i) == {r \in Busy : req[r].of = i}
Coming(i, t) == {r \in Among(i) : req[r].op = "suspend" /\ t \in req[r].left}
Passed(i, t) == {r \in Among(i) : req[r].op = "resume" /\ t \notin req[r].left}

(* How often thread t of process i is suspended; an id that no thread of it has
   counts as one that is not. *)
CountOf(i, t) == IF threads[t].of = i THEN threads[t].count ELSE 0

(* With the suspends still to come, a thread is suspended no more often than held
   has it, less the resumes that have passed it. *)
Bounded(i, t) ==
  LET h == held[i]
      k == Cardinality(Passed(i, t))
      n == CountOf(i, t) + Cardinality(Coming(i, t))
  IN  n = 0 \/ n + k <= h

HeldInv ==
  /\ IsFiniteSet(Busy)
  /\ \A i \in Ids \ torn :
       /\ \A r, o \in Among(i) : req[r].op = req[o].op
       /\ \A t \in Tids : Bounded(i, t)

(* A step that a request is not among the threads in, neither before nor after, or
   that leaves it where it is among them. *)
Same(r) ==
  /\ req'[r].at = "threads" <=> req[r].at = "threads"
  /\ req[r].at = "threads" =>
       /\ req'[r].op = req[r].op
       /\ req'[r].of = req[r].of
       /\ req'[r].left = req[r].left

(* Where PastThread leaves a request: out of the threads after the last of them. *)
LEMMA PastThreadShape ==
  ASSUME TypeInv, NEW r \in Requests, req[r].at = "threads", NEW t \in req[r].left,
         NEW good \in BOOLEAN, req' = [req EXCEPT ![r] = PastThread(r, t, good)]
  PROVE  IF req[r].left = {t} THEN req'[r].at # "threads"
         ELSE /\ req'[r].at = "threads" /\ req'[r].left = req[r].left \ {t}
              /\ req'[r].op = req[r].op /\ req'[r].of = req[r].of 
<1> DEFINE ok == req[r].ok /\ good
           more == [req[r] EXCEPT !.left = @ \ {t}, !.ok = ok]
<1>1. Sound(req[r]) /\ req[r] \in RequestType /\ req[r].on \in Pids
  BY SoundRequests DEF Sound, RequestType
<1>2. PastThread(r, t, good) = IF req[r].left = {t} THEN Past(r, req[r].on, good) ELSE more
  BY DEF PastThread
<1>3. Past(r, req[r].on, good).at # "threads"
  BY <1>1, PastTyped DEF PastShape
<1> HIDE DEF ok
<1>4. /\ more.at = "threads" /\ more.left = req[r].left \ {t}
      /\ more.op = req[r].op /\ more.of = req[r].of
  BY <1>1 DEF RequestType
<1> HIDE DEF more
<1>5. req'[r] = PastThread(r, t, good)
  BY DEF TypeInv, TypeOK
<1>6. QED
  BY <1>2, <1>3, <1>4, <1>5

(* The steps of a request that are not about threads. *)
LEMMA ElsewhereSame ==
  ASSUME TypeInv, NEW r \in Requests, Request(r),
         ~ListThreads(r), ~CutShort(r), \A t \in Tids : ~TouchThread(r, t) /\ ~MissThread(r, t)
  PROVE  \A o \in Requests : Same(o)
<1>0. req \in [Requests -> RequestType] /\ Sound(req[r]) /\ req[r].on \in Pids
  BY SoundRequests DEF TypeInv, TypeOK, Sound, RequestType
<1>1. ASSUME NEW new, new.at # "threads", req[r].at # "threads", req' = [req EXCEPT ![r] = new]
      PROVE  \A o \in Requests : Same(o)
  BY <1>0, <1>1 DEF Same
<1>2. ASSUME NEW good \in BOOLEAN, NEW p \in Pids, req[r].at # "threads",
             req' = [req EXCEPT ![r] = Past(r, p, good)]
      PROVE  \A o \in Requests : Same(o)
  <2>1. Past(r, p, good).at # "threads"
    BY <1>0, PastTyped DEF PastShape, Sound
  <2>2. QED
    BY <1>1, <1>2, <2>1
<1>3. CASE Terminate(r) \/ Tune(r) \/ Denied(r) \/ Limit(r) \/ LimitFails(r)
  BY <1>0, <1>2, <1>3 DEF Terminate, Tune, Denied, Limit, LimitFails, Cleared
<1>4. ASSUME NEW p \in Pids, NEW op \in scene.ops[r] \ {"tree"}, NEW confirm \in BOOLEAN,
             Ask(r, op, p, confirm)
      PROVE  \A o \in Requests : Same(o)
  <2> DEFINE at == IF op = "resume" THEN "cleared" ELSE "check"
             new == [Resting EXCEPT !.at = at, !.op = op, !.pid = p,
                                    !.confirm = confirm, !.ok = TRUE, !.on = p]
  <2>1. req' = [req EXCEPT ![r] = new] /\ req[r].at # "threads"
    BY <1>4 DEF Ask
  <2>2. at # "threads"
    OBVIOUS
  <2> HIDE DEF at
  <2>3. new.at # "threads"
    BY <2>2 DEF Resting
  <2> HIDE DEF new
  <2>4. QED
    BY <1>1, <2>1, <2>3
<1>5. ASSUME NEW p \in Pids, NEW confirm \in BOOLEAN, AskTree(r, p, confirm)
      PROVE  \A o \in Requests : Same(o)
  <2> DEFINE tree == Parents(snap)
             listed == {snap[c].id : c \in Below(tree, p) \cup {p}} \ {NoProcess.id}
             new == [Resting EXCEPT !.at = "walk", !.op = "tree", !.pid = p,
                       !.confirm = confirm, !.ok = TRUE, !.tree = tree,
                       !.stack = Children(tree, p), !.listed = listed]
  <2>1. req' = [req EXCEPT ![r] = new] /\ req[r].at # "threads"
    BY <1>5 DEF AskTree
  <2> HIDE DEF tree, listed
  <2>2. new.at = "walk"
    BY DEF Resting
  <2> HIDE DEF new
  <2>3. QED
    BY <1>1, <2>1, <2>2
<1>6. CASE Walk(r)
  <2>1. ASSUME NEW s, NEW d, req' = [req EXCEPT ![r].todo = s, ![r].stack = d]
        PROVE  \A o \in Requests : Same(o)
    <3>1. req'[r].at = req[r].at /\ \A o \in Requests \ {r} : req'[o] = req[o]
      BY <1>0, <2>1 DEF RequestType
    <3>2. req[r].at = "walk"
      BY <1>6 DEF Walk
    <3>3. QED
      BY <3>1, <3>2 DEF Same
  <2>2. ASSUME req' = [req EXCEPT ![r].at = "check"] PROVE \A o \in Requests : Same(o)
    <3>1. req'[r].at = "check" /\ \A o \in Requests \ {r} : req'[o] = req[o]
      BY <1>0, <2>2 DEF RequestType
    <3>2. req[r].at = "walk"
      BY <1>6 DEF Walk
    <3>3. QED
      BY <3>1, <3>2 DEF Same
  <2>3. QED
    BY <1>6, <2>1, <2>2 DEF Walk
<1>7. CASE Check(r)
  <2>1. PICK p \in Targets(r) :
          req' = [req EXCEPT ![r] =
            IF Allowed(p, req[r].confirm)
            THEN [@ EXCEPT !.at = "cleared", !.on = p, !.of = snap[p].id, !.blind = ~snap[p].read]
            ELSE Past(r, p, FALSE)]
    BY <1>7 DEF Check
  <2>2. p \in Pids /\ req[r].at # "threads"
    BY <1>0, <1>7 DEF Check, Targets, Sound, RequestType
  <2>3. CASE Allowed(p, req[r].confirm)
    <3> DEFINE new == [req[r] EXCEPT !.at = "cleared", !.on = p, !.of = snap[p].id, !.blind = ~snap[p].read]
    <3>1. req' = [req EXCEPT ![r] = new]
      BY <1>0, <2>1, <2>3
    <3>2. new.at = "cleared"
      BY <1>0 DEF Sound, RequestType
    <3> HIDE DEF new
    <3>3. QED
      BY <1>1, <2>2, <3>1, <3>2
  <2>4. CASE ~Allowed(p, req[r].confirm)
    BY <1>0, <1>2, <2>1, <2>2, <2>4
  <2>5. QED
    BY <2>3, <2>4
<1>8. QED
  BY <1>3, <1>4, <1>5, <1>6, <1>7, RequestKinds DEF TypeInv

LEMMA AmongFinite ==
  ASSUME HeldInv, NEW i, NEW t
  PROVE  /\ IsFiniteSet(Coming(i, t)) /\ Cardinality(Coming(i, t)) \in Nat
         /\ IsFiniteSet(Passed(i, t)) /\ Cardinality(Passed(i, t)) \in Nat
<1>1. Coming(i, t) \in SUBSET Busy /\ Passed(i, t) \in SUBSET Busy
  BY DEF Coming, Passed, Among
<1>2. IsFiniteSet(Coming(i, t)) /\ IsFiniteSet(Passed(i, t))
  BY <1>1, FS_Subset DEF HeldInv
<1>3. QED
  BY <1>2, FS_CardinalityType

LEMMA CountTyped ==
  ASSUME TypeInv, NEW i \in Ids, NEW t \in Tids PROVE CountOf(i, t) \in Nat
<1>1. threads[t] \in ThreadType \cup {NoThread}
  BY DEF TypeInv, TypeOK
<1>2. QED
  BY <1>1 DEF ThreadType, NoThread, CountOf

(* Requests that stay where they are leave a process as it is, if none of its threads
   is suspended once more. *)
LEMMA OutsideHeld ==
  ASSUME TypeInv, HeldInv, NEW i \in Ids \ torn, held'[i] = held[i],
         \A r \in Requests : Same(r) \/ (r \notin Among(i) /\ r \notin Among(i)'),
         \A t \in Tids : CountOf(i, t)' \in {0, CountOf(i, t)} \/ CountOf(i, t)' < CountOf(i, t),
         \A t \in Tids : CountOf(i, t)' \in Nat
  PROVE  /\ \A r, o \in Among(i)' : req'[r].op = req'[o].op
         /\ \A t \in Tids : Bounded(i, t)'
<1>1. Among(i)' = Among(i)
  BY DEF Among, Busy, Same
<1>2. \A r \in Among(i) : req'[r].op = req[r].op /\ req'[r].left = req[r].left
  BY DEF Among, Busy, Same
<1>3. \A t : Coming(i, t)' = Coming(i, t) /\ Passed(i, t)' = Passed(i, t)
  BY <1>1, <1>2 DEF Coming, Passed
<1>4. \A r, o \in Among(i)' : req'[r].op = req'[o].op
  BY <1>1, <1>2 DEF HeldInv
<1>5. ASSUME NEW t \in Tids PROVE Bounded(i, t)'
  <2>1. Bounded(i, t)
    BY DEF HeldInv
  <2>2. CountOf(i, t) \in Nat /\ CountOf(i, t)' \in Nat /\ CountOf(i, t)' <= CountOf(i, t)
    BY CountTyped
  <2>3. /\ Cardinality(Coming(i, t)) \in Nat /\ Cardinality(Passed(i, t)) \in Nat
        /\ held[i] \in Nat
    BY AmongFinite DEF TypeInv, TypeOK
  <2>4. /\ Cardinality(Coming(i, t))' = Cardinality(Coming(i, t))
        /\ Cardinality(Passed(i, t))' = Cardinality(Passed(i, t))
    BY <1>3
  <2>5. QED
    BY <2>1, <2>2, <2>3, <2>4 DEF Bounded
<1>6. QED
  BY <1>4, <1>5

LEMMA BusyFinite ==
  ASSUME TypeInv, HeldInv, [Next]_vars PROVE IsFiniteSet(Busy)'
<1>1. CASE req' = req
  <2>1. Busy' = Busy
    BY <1>1 DEF Busy
  <2>2. QED
    BY <2>1 DEF HeldInv
<1>2. ASSUME NEW r \in Requests, Request(r) PROVE IsFiniteSet(Busy)'
  <2>1. \A o \in Requests \ {r} : req'[o] = req[o]
    BY <1>2, OthersKept
  <2>2. Busy' \in SUBSET (Busy \cup {r})
    BY <2>1 DEF Busy
  <2>3. IsFiniteSet(Busy \cup {r})
    BY FS_AddElement DEF HeldInv
  <2>4. QED
    BY <2>2, <2>3, FS_Subset
<1>3. QED
  BY <1>1, <1>2
  DEF Next, vars, Spawn, Exit, StartThread, EndThread, Sample, ClearLimit, SetConfig

(* A step outside the threads of any process. *)
LEMMA ElsewhereHeld ==
  ASSUME TypeInv, HeldInv, [Next]_vars,
         UNCHANGED <<torn, held>>, \A r \in Requests : Same(r),
         \A t \in Tids : \/ threads'[t] = threads[t]
                         \/ threads'[t].count = 0 \/ threads'[t] = NoThread
  PROVE  HeldInv'
<1>1. TypeInv'
  BY TypeInvInductive
<1>2. IsFiniteSet(Busy)'
  BY BusyFinite
<1>3. ASSUME NEW i \in Ids \ torn
      PROVE  /\ \A r, o \in Among(i)' : req'[r].op = req'[o].op
             /\ \A t \in Tids : Bounded(i, t)'
  <2>1. held'[i] = held[i]
    OBVIOUS
  <2>2. \A t \in Tids : CountOf(i, t)' \in {0, CountOf(i, t)} \/ CountOf(i, t)' < CountOf(i, t)
    BY DEF CountOf, NoThread
  <2>3. \A t \in Tids : CountOf(i, t)' \in Nat
    <3>1. ASSUME NEW t \in Tids PROVE CountOf(i, t)' \in Nat
      <4>1. threads'[t] \in ThreadType \cup {NoThread}
        BY <1>1 DEF TypeInv, TypeOK
      <4>2. QED
        BY <4>1 DEF ThreadType, NoThread, CountOf
    <3>2. QED
      BY <3>1
  <2>4. QED
    BY <2>1, <2>2, <2>3, OutsideHeld
<1>4. QED
  BY <1>2, <1>3 DEF HeldInv

(* A suspend or a resume joins those that pull its way. *)
LEMMA JoinHeld ==
  ASSUME TypeInv, HeldInv, [Next]_vars, NEW r \in Requests, ListThreads(r)
  PROVE  HeldInv'
<1> DEFINE q == req[r]
<1>0. /\ req \in [Requests -> RequestType] /\ q.at = "cleared" /\ q.op \in {"suspend", "resume"}
      /\ held \in [Ids -> 0..MaxSuspends]
  BY DEF TypeInv, TypeOK, ListThreads, Cleared
<1>1. PICK j \in Ids : j = os[q.on].id
  BY DEF TypeInv, TypeOK, ListThreads, Alive, ProcessType
<1>2. /\ req'[r].at = "threads" /\ req'[r].left = Listed(j) /\ req'[r].of = j
      /\ req'[r].op = q.op
      /\ \A o \in Requests \ {r} : req'[o] = req[o]
  BY <1>0, <1>1 DEF ListThreads, RequestType
<1>3. threads' = threads /\ torn' = torn \cup {i \in {j} : Against(r, i) # {}}
  BY <1>1 DEF ListThreads, machine
<1>4. \A i, t : CountOf(i, t)' = CountOf(i, t)
  BY <1>3 DEF CountOf
<1>5. \A i \in Ids \ {j} : held'[i] = held[i]
  BY <1>0, <1>1 DEF ListThreads
<1>6. ASSUME NEW i \in Ids \ torn', i # j
      PROVE  /\ \A o, u \in Among(i)' : req'[o].op = req'[u].op
             /\ \A t \in Tids : Bounded(i, t)'
  <2>1. \A o \in Requests : Same(o) \/ (o \notin Among(i) /\ o \notin Among(i)')
    BY <1>0, <1>2, <1>6 DEF Same, Among, Busy
  <2>2. i \in Ids \ torn
    BY <1>3, <1>6
  <2>3. QED
    BY <1>4, <1>5, <1>6, <2>1, <2>2, CountTyped, OutsideHeld
<1>7. ASSUME j \notin torn'
      PROVE  /\ \A o, u \in Among(j)' : req'[o].op = req'[u].op
             /\ \A t \in Tids : Bounded(j, t)'
  <2>1. j \in Ids \ torn /\ Against(r, j) = {}
    BY <1>1, <1>3, <1>7
  <2>2. r \notin Among(j) /\ Among(j)' = Among(j) \cup {r}
    BY <1>0, <1>2 DEF Among, Busy
  <2>3. \A o \in Among(j) : o # r /\ req'[o] = req[o] /\ req[o].op = q.op
    BY <1>0, <1>2, <2>1, <2>2 DEF Against, Among, Busy
  <2>4. \A o, u \in Among(j)' : req'[o].op = req'[u].op
    BY <1>2, <2>2, <2>3
  <2>5. ASSUME NEW t \in Tids PROVE Bounded(j, t)'
    <3>0. Bounded(j, t)
      BY <2>1 DEF HeldInv
    <3>1. /\ IsFiniteSet(Coming(j, t)) /\ IsFiniteSet(Passed(j, t))
          /\ Cardinality(Coming(j, t)) \in Nat /\ Cardinality(Passed(j, t)) \in Nat
      BY AmongFinite
    <3>2. CountOf(j, t) \in Nat /\ CountOf(j, t)' = CountOf(j, t) /\ held[j] \in Nat
      BY <1>0, <1>1, <1>4, CountTyped
    <3>3. r \notin Coming(j, t) /\ r \notin Passed(j, t)
      BY <2>2 DEF Coming, Passed
    <3>4. CASE q.op = "suspend"
      <4>1. Passed(j, t) = {} /\ Passed(j, t)' = {}
        BY <1>2, <2>2, <2>3, <3>4 DEF Passed
      <4>2. Coming(j, t)' = IF t \in Listed(j) THEN Coming(j, t) \cup {r} ELSE Coming(j, t)
        BY <1>2, <2>2, <2>3, <3>4 DEF Coming
      <4>3. Cardinality(Coming(j, t)') \in {Cardinality(Coming(j, t)), Cardinality(Coming(j, t)) + 1}
        BY <3>1, <3>3, <4>2, FS_AddElement
      <4>4. held'[j] = held[j] + 1
        BY <1>0, <1>1, <3>4 DEF ListThreads
      <4>5. Cardinality({}) = 0
        BY FS_EmptySet
      <4>6. QED
        BY <3>0, <3>1, <3>2, <4>1, <4>3, <4>4, <4>5 DEF Bounded
    <3>5. CASE q.op = "resume"
      <4>1. Coming(j, t) = {} /\ Coming(j, t)' = {}
        BY <1>2, <2>2, <2>3, <3>5 DEF Coming
      <4>2. Passed(j, t)' = IF t \in Listed(j) THEN Passed(j, t) ELSE Passed(j, t) \cup {r}
        BY <1>2, <2>2, <2>3, <3>5 DEF Passed
      <4>3. held'[j] = held[j]
        BY <1>1, <3>5 DEF ListThreads
      <4>4. Cardinality({}) = 0
        BY FS_EmptySet
      <4>5. CASE t \in Listed(j)
        BY <3>0, <3>1, <3>2, <4>1, <4>2, <4>3, <4>4, <4>5 DEF Bounded
      <4>6. CASE t \notin Listed(j)
        <5>1. CountOf(j, t) = 0
          BY <4>6 DEF Listed, CountOf
        <5>2. QED
          BY <3>2, <4>1, <4>4, <5>1 DEF Bounded
      <4>7. QED
        BY <4>5, <4>6
    <3>6. QED
      BY <1>0, <3>4, <3>5
  <2>6. QED
    BY <2>4, <2>5
<1>8. IsFiniteSet(Busy)'
  BY BusyFinite
<1>9. QED
  BY <1>6, <1>7, <1>8 DEF HeldInv

(* A thread suspended once more that one suspend less has still to come to. *)
LEMMA OneFewerToCome ==
  ASSUME NEW before \in Nat, NEW after \in Nat, NEW m \in Nat, NEW h \in Nat,
         after <= before + 1, m # 0, before + m = 0 \/ before + m <= h
  PROVE  after + (m - 1) = 0 \/ after + (m - 1) <= h
OBVIOUS

(* A request is done with the threads in past: with all it had left, or with some of
   them.  A suspend has counted each of these up at most once; a resume has counted
   it down, or it is not suspended. *)
Moved(r, j, past) ==
  /\ IF past = req[r].left THEN req'[r].at # "threads"
     ELSE /\ req'[r].at = "threads" /\ req'[r].left = req[r].left \ past
          /\ req'[r].op = req[r].op /\ req'[r].of = req[r].of
  /\ torn \subseteq torn'
  /\ \A i \in Ids \ torn', t \in Tids :
       i # j \/ t \notin past => CountOf(i, t)' <= CountOf(i, t)
  /\ j \notin torn' =>
       \A t \in past :
         IF req[r].op = "suspend" THEN CountOf(j, t)' <= CountOf(j, t) + 1
         ELSE CountOf(j, t)' = 0 \/ CountOf(j, t)' < CountOf(j, t)

LEMMA MoveHeld ==
  ASSUME TypeInv, HeldInv, [Next]_vars, NEW r \in Requests, Request(r), Undone(r),
         req[r].at = "threads", NEW j \in Ids, j = req[r].of, NEW past \in SUBSET req[r].left,
         Moved(r, j, past)
  PROVE  HeldInv'
<1> SUFFICES ASSUME
         IF past = req[r].left THEN req'[r].at # "threads"
         ELSE /\ req'[r].at = "threads" /\ req'[r].left = req[r].left \ past
              /\ req'[r].op = req[r].op /\ req'[r].of = req[r].of,
         torn \subseteq torn',
         \A i \in Ids \ torn', t \in Tids :
           i # j \/ t \notin past => CountOf(i, t)' <= CountOf(i, t),
         j \notin torn' =>
           \A t \in past :
             IF req[r].op = "suspend" THEN CountOf(j, t)' <= CountOf(j, t) + 1
             ELSE CountOf(j, t)' = 0 \/ CountOf(j, t)' < CountOf(j, t)
  PROVE  HeldInv'
  BY DEF Moved
<1> DEFINE q == req[r]
<1>0. /\ q.op \in {"suspend", "resume"} /\ r \in Among(j)
      /\ held \in [Ids -> 0..MaxSuspends] /\ q.left \subseteq Tids
  BY SoundRequests DEF TypeInv, TypeOK, Sound, Among, Busy, RequestType
<1>1. \A o \in Requests \ {r} : req'[o] = req[o]
  BY OthersKept
<1>2. \A i \in Ids, t \in Tids : CountOf(i, t) \in Nat /\ CountOf(i, t)' \in Nat
  <2>1. TypeInv'
    BY TypeInvInductive
  <2>2. \A t \in Tids : threads'[t] \in ThreadType \cup {NoThread}
    BY <2>1 DEF TypeInv, TypeOK
  <2>3. \A i \in Ids, t \in Tids : CountOf(i, t)' \in Nat
    BY <2>2 DEF ThreadType, NoThread, CountOf
  <2>4. QED
    BY <2>3, CountTyped
<1>3. \A i \in Ids \ {j} : held'[i] = held[i]
  BY <1>0 DEF Undone
<1>4. ASSUME NEW i \in Ids \ torn', i # j
      PROVE  /\ \A o, u \in Among(i)' : req'[o].op = req'[u].op
             /\ \A t \in Tids : Bounded(i, t)'
  <2>1. \A o \in Requests \ {r} : Same(o)
    BY <1>1 DEF Same
  <2>2. r \notin Among(i) /\ r \notin Among(i)'
    BY <1>4 DEF Among, Busy
  <2>3. i \in Ids \ torn
    BY <1>4
  <2>4. \A t \in Tids : CountOf(i, t)' \in {0, CountOf(i, t)} \/ CountOf(i, t)' < CountOf(i, t)
    BY <1>2, <1>4
  <2>5. held'[i] = held[i] /\ \A t \in Tids : CountOf(i, t)' \in Nat
    BY <1>2, <1>3, <1>4
  <2>6. \A o \in Requests : Same(o) \/ (o \notin Among(i) /\ o \notin Among(i)')
    BY <2>1, <2>2
  <2>7. QED
    BY <2>3, <2>4, <2>5, <2>6, OutsideHeld
<1>5. ASSUME j \notin torn'
      PROVE  /\ \A o, u \in Among(j)' : req'[o].op = req'[u].op
             /\ \A t \in Tids : Bounded(j, t)'
  <2>0. j \in Ids \ torn
    BY <1>5
  <2>1. \A o \in Among(j) : req[o].op = q.op
    BY <1>0, <2>0 DEF HeldInv
  <2>2. Among(j)' = IF past = q.left THEN Among(j) \ {r} ELSE Among(j)
    BY <1>0, <1>1 DEF Among, Busy
  <2>3. \A o \in Among(j)' : req'[o].op = q.op
    BY <1>1, <2>1, <2>2 DEF Among, Busy
  <2>4. ASSUME NEW t \in Tids PROVE Bounded(j, t)'
    <3> DEFINE x == CountOf(j, t)
               m == Cardinality(Coming(j, t))
               k == Cardinality(Passed(j, t))
    <3>0. Bounded(j, t)
      BY <2>0 DEF HeldInv
    <3>1. /\ IsFiniteSet(Coming(j, t)) /\ IsFiniteSet(Passed(j, t)) /\ m \in Nat /\ k \in Nat
      BY AmongFinite
    <3>2. x \in Nat /\ x' \in Nat /\ held[j] \in Nat
      BY <1>0, <1>2
    <3>3. Cardinality({}) = 0
      BY FS_EmptySet
    <3>4. CASE q.op = "suspend"
      <4>1. Passed(j, t) = {} /\ Passed(j, t)' = {}
        BY <2>1, <2>3, <3>4 DEF Passed
      <4>2. held'[j] = held[j]
        BY <3>4 DEF Undone
      <4>3. CASE t \in past
        <5>1. r \in Coming(j, t) /\ Coming(j, t)' = Coming(j, t) \ {r}
          BY <1>0, <1>1, <2>1, <2>2, <2>3, <3>4, <4>3 DEF Coming, Among, Busy
        <5>2. Cardinality(Coming(j, t)') = m - 1
          <6>1. Cardinality(Coming(j, t) \ {r}) = m - 1
            BY <3>1, <5>1, FS_RemoveElement
          <6>2. QED
            BY <5>1, <6>1
        <5>3. x' <= x + 1
          BY <1>5, <3>4, <4>3
        <5>4. m # 0
          BY <3>1, <5>1, FS_EmptySet
        <5> HIDE DEF x, m
        <5>5. x + m = 0 \/ x + m <= held[j]
          BY <3>0, <3>2, <3>3, <4>1, <3>1 DEF Bounded, x, m
        <5>6. x' + (m - 1) = 0 \/ x' + (m - 1) <= held[j]
          BY <3>1, <3>2, <5>3, <5>4, <5>5, OneFewerToCome
        <5>7. QED
          BY <3>1, <3>2, <3>3, <4>1, <4>2, <5>2, <5>6 DEF Bounded, x
      <4>4. CASE t \notin past
        <5>1. Coming(j, t)' \in SUBSET Coming(j, t)
          BY <1>1, <2>2, <2>3, <2>1, <4>4 DEF Coming, Among, Busy
        <5>2. Cardinality(Coming(j, t)') <= m /\ Cardinality(Coming(j, t)') \in Nat
          BY <3>1, <5>1, FS_Subset, FS_CardinalityType
        <5>3. x' <= x
          BY <1>5, <4>4
        <5> HIDE DEF x, m
        <5>4. x + m = 0 \/ x + m <= held[j]
          BY <3>0, <3>2, <3>3, <4>1, <3>1 DEF Bounded, x, m
        <5>5. QED
          BY <3>1, <3>2, <3>3, <4>1, <4>2, <5>2, <5>3, <5>4 DEF Bounded, x
      <4>5. QED
        BY <4>3, <4>4
    <3>5. CASE q.op = "resume"
      <4>1. Coming(j, t) = {} /\ Coming(j, t)' = {}
        BY <2>1, <2>3, <3>5 DEF Coming
      <4>2. held'[j] = IF past = q.left THEN Less(held[j]) ELSE held[j]
        BY <1>0, <3>5 DEF Undone
      <4>3. x' = 0 \/ x' <= x
        BY <1>5, <3>5, <1>2
      <4>4. x = 0 \/ x + k <= held[j]
        BY <3>0, <3>2, <3>3, <4>1, <3>1 DEF Bounded
      <4>5. CASE t \in past
        <5>1. x' = 0 \/ x' < x
          BY <1>5, <3>5, <4>5
        <5>2. r \notin Passed(j, t)
          BY <4>5 DEF Passed
        <5>3. Passed(j, t)' = IF past = q.left THEN Passed(j, t) ELSE Passed(j, t) \cup {r}
          BY <1>0, <1>1, <2>1, <2>2, <2>3, <3>5, <4>5 DEF Passed, Among, Busy
        <5>4. Cardinality(Passed(j, t)') = IF past = q.left THEN k ELSE k + 1
          <6>1. Cardinality(Passed(j, t) \cup {r}) = k + 1
            BY <3>1, <5>2, FS_AddElement
          <6>2. QED
            BY <5>3, <6>1
        <5> HIDE DEF x, k
        <5>5. x' = 0 \/ x' + Cardinality(Passed(j, t)') <= held'[j]
          BY <3>1, <3>2, <4>2, <4>4, <5>1, <5>4 DEF Less
        <5>6. QED
          BY <3>2, <3>3, <4>1, <5>5 DEF Bounded, x
      <4>6. CASE t \notin past
        <5>1. x' <= x
          BY <1>5, <4>6
        <5>2. CASE past = q.left
          <6>1. r \in Passed(j, t) /\ Passed(j, t)' = Passed(j, t) \ {r}
            BY <1>0, <1>1, <2>1, <2>2, <2>3, <3>5, <4>6, <5>2 DEF Passed, Among, Busy
          <6>2. Cardinality(Passed(j, t)') = k - 1
            <7>1. Cardinality(Passed(j, t) \ {r}) = k - 1
              BY <3>1, <6>1, FS_RemoveElement
            <7>2. QED
              BY <6>1, <7>1
          <6>3. k # 0
            BY <3>1, <6>1, FS_EmptySet
          <6> HIDE DEF x, k
          <6>4. x' = 0 \/ x' + (k - 1) <= held'[j]
            BY <3>1, <3>2, <4>2, <4>4, <5>1, <5>2, <6>3 DEF Less
          <6>5. QED
            BY <3>2, <3>3, <4>1, <6>2, <6>4 DEF Bounded, x
        <5>3. CASE past # q.left
          <6>1. Passed(j, t)' = Passed(j, t)
            BY <1>0, <1>1, <2>1, <2>2, <2>3, <3>5, <4>6, <5>3 DEF Passed, Among, Busy
          <6>2. Cardinality(Passed(j, t)') = k
            BY <6>1
          <6> HIDE DEF x, k
          <6>3. x' = 0 \/ x' + k <= held'[j]
            BY <3>1, <3>2, <4>2, <4>4, <5>1, <5>3
          <6>4. QED
            BY <3>2, <3>3, <4>1, <6>2, <6>3 DEF Bounded, x
        <5>4. QED
          BY <5>2, <5>3
      <4>7. QED
        BY <4>5, <4>6
    <3>6. QED
      BY <1>0, <3>4, <3>5
  <2>5. QED
    BY <2>3, <2>4
<1>6. IsFiniteSet(Busy)'
  BY BusyFinite
<1>7. QED
  BY <1>4, <1>5, <1>6 DEF HeldInv

LEMMA HeldInvInductive == TypeInv /\ HeldInv /\ [Next]_vars => HeldInv'
<1> SUFFICES ASSUME TypeInv, HeldInv, [Next]_vars PROVE HeldInv'
  OBVIOUS
<1>0. TypeOK
  BY DEF TypeInv
<1>1. ASSUME UNCHANGED <<threads, torn, held>>, \A r \in Requests : Same(r) PROVE HeldInv'
  BY <1>1, ElsewhereHeld
<1>2. ASSUME req' = req PROVE \A r \in Requests : Same(r)
  BY <1>2 DEF Same
<1>3. ASSUME NEW p \in Pids, Gone(p), UNCHANGED ghosts, \A r \in Requests : Same(r)
      PROVE  HeldInv'
  <2>1. \A t \in Tids : threads'[t] = threads[t] \/ threads'[t] = NoThread
    BY <1>3 DEF Gone
  <2>2. QED
    BY <1>3, <2>1, ElsewhereHeld DEF ghosts
<1>4. ASSUME NEW t \in Tids, NEW p \in Pids, StartThread(t, p) PROVE HeldInv'
  <2>1. \A u \in Tids : threads'[u] = threads[u] \/ threads'[u].count = 0
    BY <1>0, <1>4 DEF TypeOK, StartThread
  <2>2. QED
    BY <1>2, <1>4, <2>1, ElsewhereHeld DEF StartThread, ghosts
<1>5. ASSUME NEW t \in Tids, EndThread(t) PROVE HeldInv'
  <2>1. \A u \in Tids : threads'[u] = threads[u] \/ threads'[u] = NoThread
    BY <1>0, <1>5 DEF TypeOK, EndThread
  <2>2. QED
    BY <1>2, <1>5, <2>1, ElsewhereHeld DEF EndThread, ghosts
<1>6. ASSUME NEW r \in Requests, Request(r) PROVE HeldInv'
  <2> DEFINE q == req[r]
  <2>0. Sound(q) /\ q \in RequestType
    BY SoundRequests DEF Sound
  <2>1. CASE ListThreads(r)
    BY <2>1, JoinHeld
  <2>2. ASSUME NEW t \in Tids, NEW good \in BOOLEAN, q.at = "threads", t \in q.left,
               req' = [req EXCEPT ![r] = PastThread(r, t, good)]
        PROVE  IF {t} = q.left THEN req'[r].at # "threads"
               ELSE /\ req'[r].at = "threads" /\ req'[r].left = q.left \ {t}
                    /\ req'[r].op = q.op /\ req'[r].of = q.of
    BY <2>2, PastThreadShape
  <2>3. ASSUME NEW t \in Tids, TouchThread(r, t) PROVE HeldInv'
    <3>1. PICK j \in Ids : j = q.of
      BY <2>0, <2>3 DEF TouchThread, Sound
    <3>2. threads[t] \in ThreadType
      BY <1>0, <2>3 DEF TypeOK, TouchThread
    <3>3. /\ threads'[t].of = threads[t].of
          /\ threads'[t].count = NewCount(q.op, threads[t].count)
          /\ \A u \in Tids \ {t} : threads'[u] = threads[u]
      BY <1>0, <2>3, <3>2 DEF TypeOK, TouchThread, ThreadType
    <3>4. \A i : \A u \in Tids \ {t} : CountOf(i, u)' = CountOf(i, u)
      BY <3>3 DEF CountOf
    <3>5. threads[t].count \in Nat /\ q.op \in {"suspend", "resume"}
      BY <2>0, <2>3, <3>2 DEF ThreadType, TouchThread, Sound
    <3>6. ASSUME NEW i \in Ids \ torn', i # j PROVE CountOf(i, t)' <= CountOf(i, t)
      <4>1. CASE threads[t].of # i
        BY <3>3, <4>1 DEF CountOf
      <4>2. CASE threads[t].of = i
        <5>1. q.op # "suspend"
          BY <2>3, <3>1, <3>6, <4>2 DEF TouchThread
        <5>2. QED
          BY <3>3, <3>5, <4>2, <5>1 DEF CountOf, NewCount, Less
      <4>3. QED
        BY <4>1, <4>2
    <3>7. IF q.op = "suspend" THEN CountOf(j, t)' <= CountOf(j, t) + 1
          ELSE CountOf(j, t)' = 0 \/ CountOf(j, t)' < CountOf(j, t)
      BY <3>3, <3>5 DEF CountOf, NewCount, Less
    <3>8. PICK past \in SUBSET q.left : past = {t}
      BY <2>3 DEF TouchThread
    <3>9. torn \subseteq torn' /\ Undone(r) /\ q.at = "threads"
      BY <2>3 DEF TouchThread
    <3>10. IF past = q.left THEN req'[r].at # "threads"
           ELSE /\ req'[r].at = "threads" /\ req'[r].left = q.left \ past
                /\ req'[r].op = q.op /\ req'[r].of = q.of
      BY <2>2, <2>3, <3>8 DEF TouchThread
    <3>11. \A i \in Ids \ torn', u \in Tids :
             i # j \/ u \notin past => CountOf(i, u)' <= CountOf(i, u)
      BY <3>4, <3>6, <3>8, CountTyped
    <3>12. \A u \in past : IF q.op = "suspend" THEN CountOf(j, u)' <= CountOf(j, u) + 1
                           ELSE CountOf(j, u)' = 0 \/ CountOf(j, u)' < CountOf(j, u)
      BY <3>7, <3>8
    <3>13. Moved(r, j, past)
      BY <3>9, <3>10, <3>11, <3>12 DEF Moved
    <3>14. QED
      BY <1>6, <3>1, <3>9, <3>13, MoveHeld
  <2>4. ASSUME NEW past \in SUBSET q.left, q.at = "threads", Undone(r), UNCHANGED threads,
               torn' = torn \cup {i \in {q.of} : q.op = "resume" /\ past \cap Listed(i) # {}},
               IF past = q.left THEN req'[r].at # "threads"
               ELSE /\ req'[r].at = "threads" /\ req'[r].left = q.left \ past
                    /\ req'[r].op = q.op /\ req'[r].of = q.of
        PROVE  HeldInv'
    <3>1. PICK j \in Ids : j = q.of
      BY <2>0, <2>4 DEF Sound
    <3>2. \A i, t : CountOf(i, t)' = CountOf(i, t)
      BY <2>4 DEF CountOf
    <3>3. q.left \subseteq Tids
      BY <2>0 DEF RequestType
    <3>4. \A t \in Tids : CountOf(j, t) \in Nat
      BY CountTyped
    <3>5. ASSUME j \notin torn', NEW t \in past
          PROVE  IF q.op = "suspend" THEN CountOf(j, t)' <= CountOf(j, t) + 1
                 ELSE CountOf(j, t)' = 0 \/ CountOf(j, t)' < CountOf(j, t)
      <4>1. CASE q.op = "suspend"
        BY <3>2, <3>3, <3>4, <4>1
      <4>2. CASE q.op # "suspend"
        <5>1. q.op = "resume"
          BY <2>0, <2>4, <4>2 DEF Sound
        <5>2. t \notin Listed(j)
          BY <2>4, <3>1, <3>5, <5>1
        <5>3. CountOf(j, t) = 0
          BY <3>3, <5>2 DEF Listed, CountOf
        <5>4. QED
          BY <3>2, <4>2, <5>3
      <4>3. QED
        BY <4>1, <4>2
    <3>6. \A i \in Ids \ torn', t \in Tids :
            i # j \/ t \notin past => CountOf(i, t)' <= CountOf(i, t)
      BY <3>2, CountTyped
    <3>7. torn \subseteq torn'
      BY <2>4
    <3>8. Moved(r, j, past)
      BY <2>4, <3>5, <3>6, <3>7 DEF Moved
    <3>9. QED
      BY <1>6, <2>4, <3>1, <3>8, MoveHeld
  <2>5. ASSUME NEW t \in Tids, MissThread(r, t) PROVE HeldInv'
    <3>1. /\ q.at = "threads" /\ {t} \in SUBSET q.left /\ Undone(r) /\ UNCHANGED threads
          /\ torn' = torn \cup {i \in {q.of} : q.op = "resume" /\ t \in Listed(i)}
      BY <2>5 DEF MissThread, machine
    <3>2. torn' = torn \cup {i \in {q.of} : q.op = "resume" /\ {t} \cap Listed(i) # {}}
      BY <3>1
    <3>3. IF {t} = q.left THEN req'[r].at # "threads"
          ELSE /\ req'[r].at = "threads" /\ req'[r].left = q.left \ {t}
               /\ req'[r].op = q.op /\ req'[r].of = q.of
      BY <2>2, <2>5 DEF MissThread
    <3>4. QED
      BY <2>4, <3>1, <3>2, <3>3
  <2>6. CASE CutShort(r)
    <3>1. /\ q.at = "threads" /\ Undone(r) /\ UNCHANGED threads
          /\ torn' = torn \cup {i \in {q.of} : q.op = "resume" /\ q.left \cap Listed(i) # {}}
      BY <2>6 DEF CutShort, machine
    <3>2. req'[r] = Past(r, q.on, FALSE) /\ q.on \in Pids
      BY <1>0, <2>0, <2>6 DEF TypeOK, CutShort, RequestType
    <3>3. req'[r].at # "threads"
      <4>1. PastShape(r, q.on, FALSE)
        BY <2>0, <3>2, PastTyped
      <4>2. QED
        BY <3>2, <4>1 DEF PastShape
    <3>4. QED
      BY <2>4, <3>1, <3>3
  <2>7. ASSUME ~ListThreads(r), ~CutShort(r), \A t \in Tids : ~TouchThread(r, t) /\ ~MissThread(r, t)
        PROVE  HeldInv'
    <3>1. \A o \in Requests : Same(o)
      BY <1>6, <2>7, ElsewhereSame
    <3>2. CASE Terminate(r)
      <4>1. q.on \in Pids /\ Gone(q.on) /\ UNCHANGED ghosts
        BY <2>0, <3>2 DEF Terminate, RequestType
      <4>2. QED
        BY <1>3, <3>1, <4>1
    <3>3. CASE ~Terminate(r)
      <4>1. UNCHANGED <<threads, torn, held>>
        BY <1>6, <2>7, <3>3
        DEF Request, Ask, AskTree, Walk, Check, Tune, Denied, Limit, LimitFails, machine, ghosts
      <4>2. QED
        BY <1>1, <3>1, <4>1
    <3>4. QED
      BY <3>2, <3>3
  <2>8. QED
    BY <2>1, <2>3, <2>5, <2>6, <2>7
<1>7. ASSUME UNCHANGED <<threads, torn, held, req>> PROVE HeldInv'
  BY <1>1, <1>2, <1>7
<1>8. ASSUME NEW p \in Pids, Exit(p) PROVE HeldInv'
  BY <1>2, <1>3, <1>8 DEF Exit
<1>9. QED
  BY <1>0, <1>4, <1>5, <1>6, <1>7, <1>8, NextKinds
  DEF vars, Spawn, Sample, ClearLimit, SetConfig, machine, ghosts

LEMMA HeldInvInit == Init => HeldInv
<1> SUFFICES ASSUME Init PROVE HeldInv
  OBVIOUS
<1>1. Busy = {}
  BY DEF Init, Busy, Resting
<1>2. \A i, t : Among(i) = {} /\ Coming(i, t) = {} /\ Passed(i, t) = {}
  BY <1>1 DEF Among, Coming, Passed
<1>3. \A i \in Ids, t \in Tids : CountOf(i, t) = 0
  BY DEF Init, CountOf, NoThread
<1>4. \A i \in Ids, t \in Tids : Bounded(i, t)
  BY <1>2, <1>3, FS_EmptySet DEF Bounded
<1>5. QED
  BY <1>1, <1>2, <1>4, FS_EmptySet DEF HeldInv

(* A process resumed as often as it was suspended runs: however many threads it has,
   whichever of them start and end meanwhile, and whatever requests are among them,
   unless a resume failed on one of its threads or met a suspend. *)
THEOREM ResumedProcessesRun == Spec => []SuspendsAreUndone
<1>1. TypeInv /\ HeldInv => SuspendsAreUndone
  <2> SUFFICES ASSUME TypeInv, HeldInv, NEW t \in Tids, NEW i \in Ids \ torn,
                      threads[t].of = i
               PROVE  threads[t].count <= held[i]
    BY DEF SuspendsAreUndone
  <2>1. Bounded(i, t) /\ CountOf(i, t) = threads[t].count /\ CountOf(i, t) \in Nat
    BY CountTyped DEF HeldInv, CountOf
  <2>2. Cardinality(Coming(i, t)) \in Nat /\ Cardinality(Passed(i, t)) \in Nat
    BY AmongFinite
  <2>3. held[i] \in Nat
    BY DEF TypeInv, TypeOK
  <2>4. QED
    BY <2>1, <2>2, <2>3 DEF Bounded
<1>2. QED
  BY <1>1, TypeInvInit, TypeInvInductive, HeldInvInit, HeldInvInductive, PTL DEF Spec
=============================================================================
