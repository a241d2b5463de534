-------------------------------- MODULE Delivery --------------------------------
(***************************************************************************)
(* The Emitter of internal/event and those who listen to it: the hub of    *)
(* the event streams in internal/server/sse.go, the advisor, the Telegram  *)
(* bot and the tray with its balloons.                                     *)
(*                                                                         *)
(* A goroutine that emits hands the event to each listener in turn: a job  *)
(* of its own takes one of the slots and runs the handler, or the event is *)
(* dropped for this listener.  Jobs overlap and end in any order.  What an *)
(* event says is left out; an alert is one that tray and bot are to show.  *)
(* External: the browsers behind the streams.                              *)
(***************************************************************************)
EXTENDS Integers, FiniteSets, Sequences

CONSTANTS
  Emitters,   \* goroutines that emit
  Browsers,   \* clients of the event stream
  Slots, QueueCap,  \* 64 and 64
  BalloonRateLimit,
  MaxEvents   \* bound: events

ASSUME DeliveryAssumption ==
  /\ {Slots, QueueCap} \subseteq Nat \ {0}
  /\ {BalloonRateLimit, MaxEvents} \subseteq Nat

VARIABLES
  clock,
  events,      \* kinds of the events emitted so far
  typedOn,     \* Emitter.typedOn for a raised alert, in order
  telling,     \* what each emitter has yet to dispatch
  jobs,        \* running handlers, one slot each
  clients,     \* SSEHub.clients: what waits for each of them
  lastBalloon, \* Tray.lastBalloon
  notes,       \* ghost: times lastBalloon was set
  balloons     \* ghost: balloons that were shown

deliveryVars ==
  <<events, typedOn, telling, jobs, clients, lastBalloon, notes, balloons>>

-----------------------------------------------------------------------------
(* Mutants of the operations below, used by the sensitivity checks only.   *)

\* An emitter that waits for a slot.
WaitsForSlot(g) == FALSE /\ UNCHANGED <<jobs, telling>>
\* A limit that counts from a unit before.
LimitShort(last) == clock - last + 1 < BalloonRateLimit

-----------------------------------------------------------------------------
(* Emitter                                                                 *)

Listeners(kind) == <<"sse">> \o IF kind = "alert" THEN typedOn ELSE <<>>

On(listener) == typedOn' = Append(typedOn, listener)

\* Emit takes the listeners there are now ...
Emit(g, kind) ==
  /\ telling[g] = <<>>
  /\ Len(events) < MaxEvents
  /\ events' = Append(events, kind)
  /\ telling' = [telling EXCEPT ![g] =
       [i \in DOMAIN Listeners(kind) |->
          [to |-> Listeners(kind)[i], event |-> Len(events) + 1, at |-> "starts"]]]
  /\ UNCHANGED <<clock, typedOn, jobs, clients, lastBalloon, notes, balloons>>

Told(g) == telling' = [telling EXCEPT ![g] = Tail(@)]

StartJob(g) == jobs' = jobs \cup {Head(telling[g])} /\ Told(g)

DropJob(g) == UNCHANGED jobs /\ Told(g)

SlotFree == Cardinality(jobs) < Slots

\* ... and dispatches to one after the other, without waiting for any.
Dispatch(g) ==
  /\ telling[g] # <<>>
  /\ IF SlotFree THEN StartJob(g) ELSE DropJob(g)
  /\ UNCHANGED <<clock, events, typedOn, clients, lastBalloon, notes, balloons>>

\* The handler returns, or panics and is recovered: its slot is free.
Done(j) == jobs' = jobs \ {j}

Panics(j) ==
  /\ j \in jobs
  /\ Done(j)
  /\ UNCHANGED <<clock, events, typedOn, telling, clients, lastBalloon, notes, balloons>>

-----------------------------------------------------------------------------
(* Event streams                                                           *)

\* Every client has the event, but those whose queue is full.
Broadcast(j) ==
  /\ j \in jobs /\ j.to = "sse"
  /\ clients' = [c \in DOMAIN clients |->
       IF Len(clients[c]) < QueueCap THEN Append(clients[c], j.event) ELSE clients[c]]
  /\ Done(j)
  /\ UNCHANGED <<clock, events, typedOn, telling, lastBalloon, notes, balloons>>

Connect(c) ==
  /\ c \notin DOMAIN clients
  /\ clients' = [b \in DOMAIN clients \cup {c} |-> IF b = c THEN <<>> ELSE clients[b]]
  /\ UNCHANGED <<clock, events, typedOn, telling, jobs, lastBalloon, notes, balloons>>

Write(c) ==
  /\ c \in DOMAIN clients /\ clients[c] # <<>>
  /\ clients' = [clients EXCEPT ![c] = Tail(@)]
  /\ UNCHANGED <<clock, events, typedOn, telling, jobs, lastBalloon, notes, balloons>>

Disconnect(c) ==
  /\ c \in DOMAIN clients
  /\ clients' = [b \in DOMAIN clients \ {c} |-> clients[b]]
  /\ UNCHANGED <<clock, events, typedOn, telling, jobs, lastBalloon, notes, balloons>>

-----------------------------------------------------------------------------
(* Advisor, bot and tray                                                   *)

\* What the advisor makes of an alert is the subject of Background.
Advise(j) ==
  /\ j \in jobs /\ j.to = "advisor"
  /\ Done(j)
  /\ UNCHANGED <<clock, events, typedOn, telling, clients, lastBalloon, notes, balloons>>

\* handleAlertRaised sends to each chat, within a time for all of them; a
\* message that fails is not repeated.
Notify(j) ==
  /\ j \in jobs /\ j.to = "bot"
  /\ Done(j)
  /\ UNCHANGED <<clock, events, typedOn, telling, clients, lastBalloon, notes, balloons>>

TooSoon(last) == clock - last < BalloonRateLimit

\* handleAlert reads the time of the last balloon under the lock ...
Look(j) ==
  /\ j \in jobs /\ j.to = "tray" /\ j.at = "starts"
  /\ IF TooSoon(lastBalloon) THEN Done(j)
     ELSE jobs' = (jobs \ {j}) \cup
       {[to |-> "tray", event |-> j.event, at |-> "looked", saw |-> notes]}
  /\ UNCHANGED <<clock, events, typedOn, telling, clients, lastBalloon, notes, balloons>>

\* ... takes it again to set it, and a third time to show the balloon.
Note(j) ==
  /\ j \in jobs /\ j.at = "looked"
  /\ lastBalloon' = clock
  /\ notes' = notes + 1
  /\ jobs' = (jobs \ {j}) \cup
       {[to |-> "tray", event |-> j.event, at |-> "noted", saw |-> j.saw,
         note |-> notes + 1, time |-> clock]}
  /\ UNCHANGED <<clock, events, typedOn, telling, clients, balloons>>

Show(j) ==
  /\ j \in jobs /\ j.at = "noted"
  /\ balloons' = balloons \cup {j}
  /\ Done(j)
  /\ UNCHANGED <<clock, events, typedOn, telling, clients, lastBalloon, notes>>

Handle(j) ==
  Broadcast(j) \/ Advise(j) \/ Notify(j) \/ Look(j) \/ Note(j) \/ Show(j)

-----------------------------------------------------------------------------

DeliveryInit ==
  /\ clock = 0
  /\ events = <<>>
  /\ typedOn = <<"advisor", "bot">>
  /\ telling = [g \in Emitters |-> <<>>]
  /\ jobs = {}
  /\ clients = [c \in {} |-> <<>>]
  /\ lastBalloon = -BalloonRateLimit
  /\ notes = 0
  /\ balloons = {}

Deliver ==
  \/ \E g \in Emitters, kind \in {"alert", "other"} : Emit(g, kind)
  \/ \E g \in Emitters : Dispatch(g)
  \/ \E j \in jobs : Handle(j) \/ Panics(j)

Streams == \E c \in Browsers : Connect(c) \/ Write(c) \/ Disconnect(c)

-----------------------------------------------------------------------------
(* Properties                                                              *)

DeliveryTypeOK ==
  /\ clock \in Nat
  /\ events \in Seq({"alert", "other"})
  /\ typedOn \in Seq({"advisor", "bot", "tray"})
  /\ jobs \subseteq
       [to : {"sse", "advisor", "bot", "tray"}, event : Nat, at : {"starts"}]
       \cup [to : {"tray"}, event : Nat, at : {"looked"}, saw : Nat]
       \cup [to : {"tray"}, event : Nat, at : {"noted"}, saw : Nat, note : Nat, time : Nat]
  /\ Cardinality(jobs) <= Slots
  /\ DOMAIN clients \subseteq Browsers

\* Two balloons within the limit come from alerts that met in the handler: one
\* that looks after the other has noted its balloon waits out the limit.
BalloonsAreSpaced ==
  \A a, b \in balloons : a.note <= b.saw => b.time - a.time >= BalloonRateLimit

=============================================================================
