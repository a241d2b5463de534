---------------------------- MODULE LifecycleProofs ----------------------------
(***************************************************************************)
(* What the process and its events keep to for every set of scenes, any    *)
(* number of slots, emitters and browsers, and any limit between balloons; *)
(* and what a change of the config comes to, on its way from a request or  *)
(* the file to the components (ConfigReload) and back to the page and the  *)
(* file (Settings), for any requests and any documents.                    *)
(***************************************************************************)
EXTENDS Lifecycle, ConfigReload, Settings, FiniteSetTheorems, WellFoundedInduction, TLAPS

-----------------------------------------------------------------------------
(* The icon *)

\* An icon is there only while the tray's thread can still take it away.
IconHasThread == icon => thread \in {"looping", "quitting"}

\* Before main has started it, there is no tray.
TrayComesLater == main \in {"guard", "wiring"} => thread = "none" /\ ~icon

\* The end that waits for the tray is the last step.
OrderlyIsLast == orderly => main = "ended"

EndInv ==
  /\ IconHasThread
  /\ TrayComesLater
  /\ OrderlyIsLast
  /\ EndsClean

LEMMA EndInvInit == Init => EndInv
BY DEF Init, EndInv, IconHasThread, TrayComesLater, OrderlyIsLast, EndsClean

LEMMA EndInvNext == EndInv /\ [Next]_vars => EndInv'
<1> SUFFICES ASSUME EndInv, [Next]_vars PROVE EndInv'
  OBVIOUS
<1> USE DEF EndInv, IconHasThread, TrayComesLater, OrderlyIsLast, EndsClean
<1>1. CASE Guard
  BY <1>1 DEF Guard
<1>2. CASE StartAll
  BY <1>2 DEF StartAll
<1>3. CASE OpenWindow \/ CloseWindow \/ LoseWindow \/ Signal \/ ServerEnds
  BY <1>3 DEF OpenWindow, CloseWindow, LoseWindow, Signal, ServerEnds
<1>4. CASE StopTray \/ Shutdown
  BY <1>4 DEF StopTray, Shutdown
<1>5. CASE Join
  BY <1>5 DEF Join, TrayIsOver
<1>6. CASE main # "ended" /\ (CreateWindow \/ Listen \/ MenuQuit)
  BY <1>6 DEF CreateWindow, Listen, MenuQuit, TrayStep
<1>7. CASE main # "ended" /\ AddIcon
  BY <1>7 DEF AddIcon, TrayStep
<1>8. CASE main # "ended" /\ Destroy
  BY <1>8 DEF Destroy, TrayStep
<1>9. CASE UNCHANGED lifeVars
  BY <1>9 DEF lifeVars
<1>10. QED
  BY <1>1, <1>2, <1>3, <1>4, <1>5, <1>6, <1>7, <1>8, <1>9
  DEF Next, MainNext, Others, vars

\* doShutdown waits for the tray, so a process that ends by its shutdown
\* sequence (main.go) has no icon left in the notification area, whoever asked
\* for the end and however far the tray had come.
THEOREM NoIconIsLeft == Spec => []EndsClean
<1>1. EndInv => EndsClean
  BY DEF EndInv
<1>2. QED
  BY <1>1, EndInvInit, EndInvNext, PTL DEF Spec

-----------------------------------------------------------------------------
(* The balloons *)

Starting == [to : {"sse", "advisor", "bot", "tray"}, event : Nat, at : {"starts"}]
Looking == [to : {"tray"}, event : Nat, at : {"looked"}, saw : Nat]
Noting == [to : {"tray"}, event : Nat, at : {"noted"}, saw : Nat, note : Nat, time : Nat]

Typing ==
  /\ clock \in Nat /\ notes \in Nat /\ lastBalloon \in Int
  /\ events \in Seq({"alert", "other"})
  /\ typedOn \in Seq({"advisor", "bot", "tray"})
  /\ telling \in [Emitters -> Seq(Starting)]
  /\ jobs \subseteq Starting \cup Looking \cup Noting
  /\ balloons \subseteq Noting

\* Alerts past the test, and those that have set the time as well.
Looked == {j \in jobs : j.at = "looked"}
Noted == {j \in jobs : j.at = "noted"} \cup balloons

\* The time of the last balloon is the latest of all that were noted, and an
\* alert has waited out the limit after each it could see.
Spacing ==
  /\ \A a \in Noted : a.note <= notes /\ a.saw <= notes /\ a.time <= lastBalloon
  /\ \A a \in Noted : a.time <= clock
  /\ \A j \in Looked : j.saw <= notes
  /\ \A j \in Looked, a \in Noted : a.note <= j.saw => clock - a.time >= BalloonRateLimit
  /\ \A a, b \in Noted : a.note <= b.saw => b.time - a.time >= BalloonRateLimit

LEMMA BalloonsInit == Init => Typing /\ Spacing
BY DeliveryAssumption
DEF Init, DeliveryInit, Typing, Spacing, Looked, Noted, Starting, Looking, Noting

\* What an emitter is about to tell is well formed.
LEMMA EmitTypes ==
  ASSUME Typing, NEW g \in Emitters, NEW kind \in {"alert", "other"}, Emit(g, kind)
  PROVE  Typing'
<1> DEFINE L == Listeners(kind)
<1>1. L \in Seq({"sse", "advisor", "bot", "tray"})
  BY DEF Typing, Listeners
<1>2. Len(events) + 1 \in Nat
  BY DEF Typing
<1>3. [i \in DOMAIN L |-> [to |-> L[i], event |-> Len(events) + 1, at |-> "starts"]]
        \in Seq(Starting)
  <2> DEFINE F(i) == [to |-> L[i], event |-> Len(events) + 1, at |-> "starts"]
  <2> HIDE DEF L
  <2>1. DOMAIN L = 1..Len(L) /\ Len(L) \in Nat
    BY <1>1
  <2>2. \A i \in 1..Len(L) : F(i) \in Starting
    BY <1>1, <1>2 DEF Starting
  <2> HIDE DEF F
  <2>3. [i \in 1..Len(L) |-> F(i)] \in Seq(Starting)
    BY <2>1, <2>2
  <2>4. QED
    BY <2>1, <2>3 DEF F
<1> HIDE DEF L
<1>4. telling' \in [Emitters -> Seq(Starting)]
  BY <1>3 DEF Emit, Typing, L
<1>5. events' \in Seq({"alert", "other"})
  BY DEF Emit, Typing
<1>6. QED
  BY <1>4, <1>5 DEF Emit, Typing

\* No alert is added, and time does not go back.
LEMMA NothingNoted ==
  ASSUME Typing, Spacing, Typing', Looked' \subseteq Looked, Noted' \subseteq Noted,
         clock' >= clock, UNCHANGED <<lastBalloon, notes>>
  PROVE  Spacing'
<1>1. \A a \in Noted : a.time \in Nat
  BY DEF Noted, Typing, Starting, Looking, Noting
<1>2. BalloonRateLimit \in Nat /\ clock \in Nat /\ clock' \in Nat
  BY DeliveryAssumption DEF Typing
<1>3. \A j \in Looked, a \in Noted : a.note <= j.saw => clock' - a.time >= BalloonRateLimit
  BY <1>1, <1>2 DEF Spacing
<1>4. \A a \in Noted : a.time <= clock'
  BY <1>1, <1>2 DEF Spacing
<1>5. QED
  BY <1>3, <1>4 DEF Spacing

LEMMA DispatchTypes ==
  ASSUME Typing, NEW g \in Emitters, Dispatch(g)
  PROVE  Typing' /\ Looked' \subseteq Looked /\ Noted' \subseteq Noted
<1> DEFINE h == Head(telling[g])
<1>1. telling[g] \in Seq(Starting) /\ telling[g] # <<>>
  BY DEF Dispatch, Typing
<1>2. h \in Starting /\ Tail(telling[g]) \in Seq(Starting)
  BY <1>1
<1>3. h.at = "starts"
  BY <1>2 DEF Starting
<1>4. jobs' \subseteq jobs \cup {h} /\ Told(g)
  BY DEF Dispatch, StartJob, DropJob
<1> HIDE DEF h
<1>5. telling' \in [Emitters -> Seq(Starting)]
  BY <1>2, <1>4 DEF Told, Typing
<1>6. QED
  BY <1>2, <1>3, <1>4, <1>5 DEF Dispatch, Typing, Looked, Noted

\* A handler that looks finds the limit waited out after all balloons so far.
LEMMA LookKeeps ==
  ASSUME Typing, Spacing, NEW j \in jobs, Look(j)
  PROVE  Typing' /\ Spacing'
<1> DEFINE k == [to |-> "tray", event |-> j.event, at |-> "looked", saw |-> notes]
<1>1. CASE TooSoon(lastBalloon)
  BY <1>1, NothingNoted DEF Look, Done, Typing, Looked, Noted
<1>2. CASE ~TooSoon(lastBalloon)
  <2>1. j.event \in Nat
    BY DEF Typing, Starting, Looking, Noting
  <2>2. k \in Looking
    BY <2>1 DEF Looking, Typing
  <2>3. jobs' = (jobs \ {j}) \cup {k}
    BY <1>2 DEF Look
  <2>4. Typing'
    BY <2>2, <2>3 DEF Look, Typing
  <2>5. k.at = "looked" /\ k.saw = notes
    OBVIOUS
  <2> HIDE DEF k
  <2>6. Looked' \subseteq Looked \cup {k} /\ Noted' \subseteq Noted
    BY <2>3, <2>5 DEF Look, Looked, Noted
  <2>7. \A a \in Noted : a.time \in Nat /\ clock - a.time >= BalloonRateLimit
    <3>1. \A a \in Noted : a.time \in Nat /\ a.time <= lastBalloon
      BY DEF Noted, Typing, Starting, Looking, Noting, Spacing
    <3>2. clock - lastBalloon >= BalloonRateLimit
      BY <1>2, DeliveryAssumption DEF TooSoon, Typing
    <3>3. QED
      BY <3>1, <3>2, DeliveryAssumption DEF Typing
  <2>8. notes \in Nat /\ notes' = notes /\ lastBalloon' = lastBalloon /\ clock' = clock
    BY DEF Look, Typing
  <2>9. Spacing'
    BY <2>5, <2>6, <2>7, <2>8 DEF Spacing
  <2>10. QED
    BY <2>4, <2>9
<1>3. QED
  BY <1>1, <1>2

\* What a handler notes comes after all that it saw, and is seen by none yet.
LEMMA NoteKeeps ==
  ASSUME Typing, Spacing, NEW j \in jobs, Note(j)
  PROVE  Typing' /\ Spacing'
<1> DEFINE k == [to |-> "tray", event |-> j.event, at |-> "noted", saw |-> j.saw,
                 note |-> notes + 1, time |-> clock]
<1>1. j \in Looked /\ j \in Looking
  BY DEF Note, Looked, Typing, Starting, Looking, Noting
<1>2. k \in Noting
  BY <1>1 DEF Noting, Looking, Typing
<1>3. /\ jobs' = (jobs \ {j}) \cup {k} /\ balloons' = balloons
      /\ lastBalloon' = clock /\ notes' = notes + 1 /\ clock' = clock
  BY DEF Note
<1>4. Typing'
  BY <1>2, <1>3 DEF Note, Typing
<1>5. k.at = "noted" /\ k.saw = j.saw /\ k.note = notes + 1 /\ k.time = clock
  OBVIOUS
<1> HIDE DEF k
<1>6. Looked' \subseteq Looked /\ Noted' \subseteq Noted \cup {k}
  BY <1>3, <1>5 DEF Looked, Noted
<1>7. /\ notes \in Nat /\ clock \in Nat /\ lastBalloon \in Int /\ BalloonRateLimit \in Nat
      /\ \A a \in Noted : a.note \in Nat /\ a.saw \in Nat /\ a.time \in Nat
      /\ \A l \in Looked : l.saw \in Nat
  BY DeliveryAssumption DEF Noted, Looked, Typing, Starting, Looking, Noting
<1>8. \A a \in Noted' : a.note <= notes' /\ a.saw <= notes' /\ a.time <= lastBalloon'
  BY <1>1, <1>3, <1>5, <1>6, <1>7 DEF Spacing
<1>9. \A a \in Noted' : a.time <= clock'
  BY <1>3, <1>5, <1>6, <1>7 DEF Spacing
<1>10. \A l \in Looked' : l.saw <= notes'
  BY <1>3, <1>6, <1>7 DEF Spacing
<1>11. ASSUME NEW l \in Looked', NEW a \in Noted', a.note <= l.saw
       PROVE  clock' - a.time >= BalloonRateLimit
  BY <1>3, <1>5, <1>6, <1>7, <1>11 DEF Spacing
<1>12. ASSUME NEW a \in Noted', NEW b \in Noted', a.note <= b.saw
       PROVE  b.time - a.time >= BalloonRateLimit
  <2>1. a \in Noted
    BY <1>1, <1>5, <1>6, <1>7, <1>12 DEF Spacing
  <2>2. CASE b = k
    BY <1>1, <1>5, <1>12, <2>1, <2>2 DEF Spacing
  <2>3. CASE b # k
    BY <1>6, <1>12, <2>1, <2>3 DEF Spacing
  <2>4. QED
    BY <2>2, <2>3
<1>13. QED
  BY <1>4, <1>8, <1>9, <1>10, <1>11, <1>12 DEF Spacing

LEMMA HandleKeeps ==
  ASSUME Typing, Spacing, NEW j \in jobs, Handle(j) \/ Panics(j)
  PROVE  Typing' /\ Spacing'
<1>1. CASE Broadcast(j) \/ Advise(j) \/ Notify(j) \/ Panics(j)
  BY <1>1, NothingNoted
  DEF Broadcast, Advise, Notify, Panics, Done, Typing, Looked, Noted
<1>2. CASE Look(j)
  BY <1>2, LookKeeps
<1>3. CASE Note(j)
  BY <1>3, NoteKeeps
<1>4. CASE Show(j)
  <2>1. j \in Noting
    BY <1>4 DEF Show, Typing, Starting, Looking, Noting
  <2>2. Typing'
    BY <1>4, <2>1 DEF Show, Done, Typing
  <2>3. Looked' \subseteq Looked /\ Noted' \subseteq Noted
    BY <1>4 DEF Show, Done, Looked, Noted
  <2>4. clock' >= clock /\ UNCHANGED <<lastBalloon, notes>>
    BY <1>4 DEF Show, Typing
  <2>5. QED
    BY <2>2, <2>3, <2>4, NothingNoted
<1>5. QED
  BY <1>1, <1>2, <1>3, <1>4 DEF Handle

LEMMA BalloonsNext == Typing /\ Spacing /\ [Next]_vars => Typing' /\ Spacing'
<1> SUFFICES ASSUME Typing, Spacing, [Next]_vars PROVE Typing' /\ Spacing'
  OBVIOUS
<1>1. CASE UNCHANGED <<clock, deliveryVars>>
  BY <1>1 DEF deliveryVars, Typing, Spacing, Looked, Noted
<1>2. CASE MainNext \/ CloseWindow \/ LoseWindow \/ Signal \/ ServerEnds
  <2>1. UNCHANGED <<clock, deliveryVars>>
    BY <1>2 DEF MainNext, Guard, StartAll, OpenWindow, StopTray, Shutdown, Join,
         CloseWindow, LoseWindow, Signal, ServerEnds, MainStep
  <2>2. QED
    BY <2>1, <1>1
<1>3. CASE Others \/ MenuQuit
  <2>1. /\ UNCHANGED <<clock, events, telling, jobs, lastBalloon, notes, balloons>>
        /\ typedOn' = typedOn \/ typedOn' = Append(typedOn, "tray")
    BY <1>3 DEF Others, CreateWindow, AddIcon, Destroy, Listen, MenuQuit, TrayStep,
         deliveryVars, On
  <2>2. Typing'
    BY <2>1 DEF Typing
  <2>3. QED
    BY <2>1, <2>2 DEF Spacing, Looked, Noted
<1>4. CASE Deliver
  <2>1. CASE \E g \in Emitters, kind \in {"alert", "other"} : Emit(g, kind)
    <3>1. PICK g \in Emitters, kind \in {"alert", "other"} : Emit(g, kind)
      BY <2>1
    <3>2. Typing'
      BY <3>1, EmitTypes
    <3>3. QED
      BY <3>1, <3>2 DEF Emit, Spacing, Looked, Noted
  <2>2. CASE \E g \in Emitters : Dispatch(g)
    <3>1. PICK g \in Emitters : Dispatch(g)
      BY <2>2
    <3>2. clock' >= clock /\ UNCHANGED <<lastBalloon, notes>>
      BY <3>1 DEF Dispatch, Typing
    <3>3. QED
      BY <3>1, <3>2, DispatchTypes, NothingNoted
  <2>3. CASE \E j \in jobs : Handle(j) \/ Panics(j)
    BY <2>3, HandleKeeps
  <2>4. QED
    BY <1>4, <2>1, <2>2, <2>3 DEF Deliver
<1>5. CASE Streams
  BY <1>5 DEF Streams, Connect, Write, Disconnect, Typing, Spacing, Looked, Noted
<1>6. CASE clock' = clock + 1 /\ UNCHANGED deliveryVars
  <2>1. Typing'
    BY <1>6 DEF deliveryVars, Typing
  <2>2. Looked' \subseteq Looked /\ Noted' \subseteq Noted
    BY <1>6 DEF deliveryVars, Looked, Noted
  <2>3. clock' >= clock /\ UNCHANGED <<lastBalloon, notes>>
    BY <1>6 DEF deliveryVars, Typing
  <2>4. QED
    BY <2>1, <2>2, <2>3, NothingNoted
<1>7. QED
  BY <1>1, <1>2, <1>3, <1>4, <1>5, <1>6 DEF Next, vars, lifeVars

\* handleAlert (tray.go) tests and sets the time of the last balloon without
\* keeping the lock, so two alerts at once may both be shown; one that looks
\* after the other's time is set always waits out the limit.
THEOREM LateAlertsWait == Spec => []BalloonsAreSpaced
<1>1. Spacing => BalloonsAreSpaced
  BY DEF Spacing, Noted, BalloonsAreSpaced
<1>2. QED
  BY <1>1, BalloonsInit, BalloonsNext, PTL DEF Spec

-----------------------------------------------------------------------------
(* Config hot reload, for any list of components and any requests *)

Handling == [at : Places, cfg : Config, next : 1..(Len(Targets) + 1)]

Watching == [at : Places, cfg : Config, valid : BOOLEAN,
             next : 1..(Len(Targets) + 1), seen : Nat, lastMod : Nat]
Written == [cfg : Config, form : Forms, valid : BOOLEAN, written : Nat]

LEMMA TargetsHaveLength ==
  /\ Len(Targets) \in Nat \ {0} /\ DOMAIN Targets = 1..Len(Targets)
  /\ "engine" \in Components
  /\ \A i \in 1..Len(Targets) : Targets[i] \in Components
  /\ MaxSaves \in Nat /\ MaxEdits \in Nat
BY ConfigAssumption DEF Components

LEMMA ReloadTypesInit == ReloadInit => ReloadTypeOK
<1> SUFFICES ASSUME ReloadInit PROVE ReloadTypeOK
  OBVIOUS
<1> USE TargetsHaveLength DEF ReloadInit
<1>1. Flags \in Config
  BY DEF Flags, Config
<1>2. Resting \in Handling
  BY <1>1 DEF Resting, Handling, Places
<1>3. {file, tmp} \subseteq Written
  BY <1>1 DEF NoFile, Written, Forms
<1>4. watcher \in Watching
  BY <1>1 DEF Places, Watching
<1>5. handler \in [Handlers -> Handling]
  BY <1>2
<1>6. cfgOf \in [Components -> Config]
  BY <1>1
<1>7. writes \in Nat /\ edits \in 0..MaxEdits /\ saves \in 0..MaxSaves
  OBVIOUS
<1>8. srvCfg \in Config /\ ticking \in BOOLEAN /\ alert \in BOOLEAN
      /\ overlap \in BOOLEAN /\ missed \in BOOLEAN /\ straddled \in BOOLEAN
  BY <1>1
<1> HIDE DEF ReloadInit
<1>9. QED
  BY <1>3, <1>4, <1>5, <1>6, <1>7, <1>8 DEF ReloadTypeOK, Handling, Watching, Written

LEMMA FlipTypes ==
  ASSUME NEW c \in Config, NEW d \in Flip(c) PROVE d \in Config
BY DEF Flip, Config

LEMMA NoFileTyped == NoFile \in Written
BY DEF NoFile, Written, Flags, Config, Forms

LEMMA HandlerStepTypes ==
  ASSUME ReloadTypeOK, NEW h \in Handlers,
         \/ Change(h) \/ WriteTmp(h) \/ Rename(h) \/ RenameFails(h)
         \/ SetServer(h) \/ HandlerInstalls(h) \/ HandlerPurges(h)
  PROVE  ReloadTypeOK'
<1> USE TargetsHaveLength DEF ReloadTypeOK, files, engine, ghosts
<1>1. /\ handler \in [Handlers -> Handling] /\ handler[h] \in Handling
      /\ handler[h].cfg \in Config /\ handler[h].next \in 1..(Len(Targets) + 1)
  BY DEF Handling
<1>2. Resting \in Handling
  BY DEF Resting, Handling, Flags, Config, Places
<1>3. CASE Change(h)
  <2>1. PICK c \in Flip(srvCfg) :
          handler' = [handler EXCEPT ![h] = [at |-> "changed", cfg |-> c, next |-> 1]]
    BY <1>3 DEF Change
  <2>2. [at |-> "changed", cfg |-> c, next |-> 1] \in Handling
    BY FlipTypes DEF Handling, Places
  <2>3. handler' \in [Handlers -> Handling]
    BY <1>1, <2>1, <2>2
  <2>4. QED
    BY <1>3, <2>3 DEF Change, Handling
<1>4. CASE WriteTmp(h)
  <2>1. writes + 1 \in Nat /\ saves + 1 \in 0..MaxSaves
    BY <1>4 DEF WriteTmp
  <2>2. handler' \in [Handlers -> Handling]
    BY <1>1, <1>4 DEF WriteTmp, Handling, Places
  <2>3. tmp' \in Written
    BY <1>1, <1>4, <2>1 DEF WriteTmp, Saved, Written, Forms
  <2>4. overlap' \in BOOLEAN
    BY <1>4 DEF WriteTmp
  <2>5. QED
    BY <1>4, <2>1, <2>2, <2>3, <2>4 DEF WriteTmp, Handling, Written
<1>5. CASE Rename(h) \/ RenameFails(h) \/ SetServer(h)
  <2>1. handler' \in [Handlers -> Handling]
    <3>1. CASE Rename(h)
      BY <1>1, <3>1 DEF Rename, Handling, Places
    <3>2. CASE RenameFails(h)
      BY <1>1, <1>2, <3>2 DEF RenameFails
    <3>3. CASE SetServer(h)
      BY <1>1, <3>3 DEF SetServer, Handling, Places
    <3>4. QED
      BY <1>5, <3>1, <3>2, <3>3
  <2>2. NoFile \in Written
    BY NoFileTyped
  <2>3. {file, tmp}' \subseteq Written
    BY <1>5, <2>2 DEF Rename, RenameFails, SetServer, Written
  <2>4. QED
    BY <1>1, <1>5, <2>1, <2>3 DEF Rename, RenameFails, SetServer, Handling, Written
<1>6. CASE HandlerInstalls(h)
  <2>1. handler[h].next + 1 \in 1..(Len(Targets) + 1)
    <3>1. handler[h].next \in 1..Len(Targets)
      BY <1>6 DEF HandlerInstalls, Install
    <3>2. QED
      BY ONLY <3>1, ConfigAssumption, TargetsHaveLength
  <2>2. [handler[h] EXCEPT !.next = @ + 1] \in Handling
    BY <1>1, <2>1 DEF Handling
  <2>3. handler' = [handler EXCEPT ![h] = [handler[h] EXCEPT !.next = @ + 1]]
    BY <1>1, <1>6 DEF HandlerInstalls, Following, Handling
  <2>4. handler' \in [Handlers -> Handling]
    BY <1>1, <2>2, <2>3
  <2>5. cfgOf' \in [Components -> Config]
    BY <1>1, <1>6 DEF HandlerInstalls, Install
  <2>6. QED
    BY <1>6, <2>4, <2>5 DEF HandlerInstalls, Handling
<1>7. CASE HandlerPurges(h)
  <2>1. handler' \in [Handlers -> Handling]
    BY <1>1, <1>2, <1>7 DEF HandlerPurges
  <2>2. alert' \in BOOLEAN /\ straddled' \in BOOLEAN
    BY <1>7 DEF HandlerPurges, Purge
  <2>3. QED
    BY <1>7, <2>1, <2>2 DEF HandlerPurges, Handling
<1>8. QED
  BY <1>3, <1>4, <1>5, <1>6, <1>7

LEMMA WatcherTyped ==
  ReloadTypeOK => WatcherRests \in Watching /\ watcher \in Watching
BY TargetsHaveLength DEF ReloadTypeOK, WatcherRests, Handled, Watching, Flags, Config, Places

\* The watcher loading the file, and saving what it made of it.
LEMMA LoadStepTypes ==
  ASSUME ReloadTypeOK,
         WatcherStarts \/ Notice \/ Load \/ LoadWrites \/ LoadRenames \/ LoadFailsToSave
  PROVE  ReloadTypeOK'
<1> USE DEF ReloadTypeOK, files, engine, ghosts
<1>1. /\ WatcherRests \in Watching /\ watcher \in Watching
      /\ {file, tmp} \subseteq Written /\ NoFile \in Written
  BY WatcherTyped, NoFileTyped DEF Written
<1>2. CASE WatcherStarts
  <2>1. watcher' \in Watching
    BY <1>1, <1>2 DEF WatcherStarts, Watching, Written, Places
  <2>2. QED
    BY <1>2, <2>1 DEF WatcherStarts, Watching
<1>3. CASE Notice
  <2>1. watcher' \in Watching
    BY <1>1, <1>3 DEF Notice, Watching, Written, Places
  <2>2. QED
    BY <1>3, <2>1 DEF Notice, Watching
<1>4. CASE Load
  <2>1. Remade(file) \in Config /\ (file.form = "missing" \/ file.valid) \in BOOLEAN
    BY <1>1 DEF Remade, Config, Flags, Written
  <2>2. watcher' \in Watching
    BY <1>1, <1>4, <2>1 DEF Load, Watching, Written, Places
  <2>3. QED
    BY <1>4, <2>2 DEF Load, Watching
<1>5. CASE LoadWrites
  <2>1. watcher' \in Watching
    BY <1>1, <1>5 DEF LoadWrites, Watching, Places
  <2>2. tmp' \in Written
    BY <1>1, <1>5 DEF LoadWrites, Saved, Watching, Written, Forms
  <2>3. writes' \in Nat /\ overlap' \in BOOLEAN
    BY <1>5 DEF LoadWrites
  <2>4. QED
    BY <1>5, <2>1, <2>2, <2>3 DEF LoadWrites, Watching, Written
<1>6. CASE LoadRenames
  <2>1. watcher' \in Watching
    BY <1>1, <1>6 DEF LoadRenames, Watching, Places
  <2>2. {file, tmp}' \subseteq Written
    BY <1>1, <1>6 DEF LoadRenames
  <2>3. QED
    BY <1>6, <2>1, <2>2 DEF LoadRenames, Watching, Written
<1>7. CASE LoadFailsToSave
  BY <1>1, <1>7 DEF LoadFailsToSave, Watching, Written
<1>8. QED
  BY <1>2, <1>3, <1>4, <1>5, <1>6, <1>7

LEMMA OtherStepTypes ==
  ASSUME ReloadTypeOK,
         \/ EditFile \/ WatcherInstalls \/ WatcherPurges
         \/ WatcherSetsServer \/ StartTick \/ Analyze \/ FinishTick
  PROVE  ReloadTypeOK'
<1> USE TargetsHaveLength DEF ReloadTypeOK, files, engine, ghosts
<1>1. WatcherRests \in Watching /\ watcher \in Watching
  BY WatcherTyped
<1>2. CASE EditFile
  <2>1. PICK c \in Flip(file.cfg), f \in Forms, v \in BOOLEAN :
          file' = [cfg |-> c, form |-> f, valid |-> v, written |-> writes + 1]
    BY <1>2 DEF EditFile
  <2>2. writes + 1 \in Nat /\ c \in Config /\ edits' \in 0..MaxEdits
    BY <1>2, FlipTypes DEF EditFile
  <2>3. file' \in Written
    BY <2>1, <2>2 DEF Written
  <2>4. overlap' \in BOOLEAN /\ missed' \in BOOLEAN
    BY <1>2 DEF EditFile
  <2>5. QED
    BY <1>2, <2>2, <2>3, <2>4 DEF EditFile, Written
<1>5. CASE WatcherInstalls
  <2>1. watcher.next + 1 \in 1..(Len(Targets) + 1)
    BY <1>5 DEF WatcherInstalls, Install
  <2>2. watcher' \in Watching
    BY <1>1, <1>5, <2>1 DEF WatcherInstalls, Following, Watching
  <2>3. cfgOf' \in [Components -> Config]
    BY <1>5 DEF WatcherInstalls, Install
  <2>4. QED
    BY <1>5, <2>2, <2>3 DEF WatcherInstalls, Watching
<1>6. CASE WatcherPurges
  <2>1. watcher' \in Watching
    BY <1>1, <1>6 DEF WatcherPurges, Watching, Places
  <2>2. alert' \in BOOLEAN /\ straddled' \in BOOLEAN
    BY <1>6 DEF WatcherPurges, Purge
  <2>3. QED
    BY <1>6, <2>1, <2>2 DEF WatcherPurges, Watching
<1>7. CASE WatcherSetsServer
  <2>1. watcher.cfg \in Config
    BY <1>1 DEF Watching
  <2>2. QED
    BY <1>1, <1>7, <2>1 DEF WatcherSetsServer, Watching
<1>8. CASE StartTick \/ Analyze \/ FinishTick
  BY <1>8 DEF StartTick, Analyze, FinishTick
<1>9. QED
  BY <1>2, <1>5, <1>6, <1>7, <1>8

LEMMA ReloadTypesNext ==
  ReloadTypeOK /\ [ReloadNext]_reloadVars => ReloadTypeOK'
<1> SUFFICES ASSUME ReloadTypeOK, [ReloadNext]_reloadVars
             PROVE  ReloadTypeOK'
  OBVIOUS
<1>1. CASE UNCHANGED reloadVars
  BY <1>1 DEF reloadVars, files, engine, ghosts, ReloadTypeOK
<1>2. CASE ReloadNext
  BY <1>2, HandlerStepTypes, LoadStepTypes, OtherStepTypes DEF ReloadNext
<1>3. QED
  BY <1>1, <1>2

(* The alert of a detector that is off. *)

\* A fan-out that turns the detector off and has its purge ahead of it.
TurnsOff(p) == p.at = "apply" /\ ~p.cfg.detector
PurgeComes == (\E h \in Handlers : TurnsOff(handler[h])) \/ TurnsOff(watcher)

\* Whatever could show an alert of a detector that is off, a purge is to come.
AlertInv ==
  (alert \/ ticking) /\ ~cfgOf["engine"].detector => straddled \/ PurgeComes

LEMMA AlertInvNext ==
  ASSUME ReloadTypeOK, AlertInv, [ReloadNext]_reloadVars
  PROVE  AlertInv'
<1> USE TargetsHaveLength DEF AlertInv, PurgeComes, TurnsOff, files, engine, ghosts
<1>1. handler \in [Handlers -> Handling] /\ cfgOf \in [Components -> Config]
  BY DEF ReloadTypeOK, Handling
<1> USE <1>1 DEF Handling
<1>2. CASE UNCHANGED reloadVars
  BY <1>2 DEF reloadVars
<1>3. ASSUME NEW h \in Handlers,
             Change(h) \/ WriteTmp(h) \/ Rename(h) \/ RenameFails(h)
      PROVE  AlertInv'
  BY <1>3 DEF Change, WriteTmp, Rename, RenameFails
<1>4. ASSUME NEW h \in Handlers, SetServer(h) PROVE AlertInv'
  BY <1>4 DEF SetServer
<1>5. ASSUME NEW h \in Handlers, HandlerInstalls(h) PROVE AlertInv'
  <2>1. TurnsOff(handler[h]) <=> ~handler[h].cfg.detector
    BY <1>5 DEF HandlerInstalls, Install
  <2>2. \A g \in Handlers : TurnsOff(handler[g])' <=> TurnsOff(handler[g])
    BY <1>5 DEF HandlerInstalls
  <2>3. cfgOf'["engine"] \in {cfgOf["engine"], handler[h].cfg}
    BY <1>5 DEF HandlerInstalls, Install
  <2>4. QED
    BY <1>5, <2>1, <2>2, <2>3 DEF HandlerInstalls
<1>6. ASSUME NEW h \in Handlers, HandlerPurges(h) PROVE AlertInv'
  <2>1. CASE handler[h].cfg.detector
    <3>1. \A g \in Handlers : TurnsOff(handler[g]) => TurnsOff(handler[g])'
      BY <1>6, <2>1 DEF HandlerPurges
    <3>2. QED
      BY <1>6, <2>1, <3>1 DEF HandlerPurges, Purge, TurnedOff
  <2>2. CASE ~handler[h].cfg.detector
    BY <1>6, <2>2 DEF HandlerPurges, Purge, TurnedOff
  <2>3. QED
    BY <2>1, <2>2
<1>7. CASE EditFile \/ Notice \/ StartTick \/ Analyze \/ FinishTick
  BY <1>7 DEF EditFile, Notice, StartTick, Analyze, FinishTick, ReloadTypeOK
<1>8. CASE WatcherStarts \/ Load \/ LoadWrites \/ LoadRenames \/ LoadFailsToSave
  BY <1>8 DEF WatcherStarts, Load, LoadWrites, LoadRenames, LoadFailsToSave, WatcherRests,
              ReloadTypeOK
<1>9. CASE WatcherInstalls
  <2>1. cfgOf'["engine"] \in {cfgOf["engine"], watcher.cfg}
    BY <1>9 DEF WatcherInstalls, Install
  <2>2. QED
    BY <1>9, <2>1 DEF WatcherInstalls, Install, ReloadTypeOK
<1>10. CASE WatcherPurges
  BY <1>10 DEF WatcherPurges, Purge, TurnedOff
<1>11. CASE WatcherSetsServer
  BY <1>11 DEF WatcherSetsServer
<1>12. QED
  BY <1>2, <1>3, <1>4, <1>5, <1>6, <1>7, <1>8, <1>9, <1>10, <1>11 DEF ReloadNext

\* applyConfig purges the alerts of detectors that are off once it has set the
\* engine's config, so none outlasts the config that turned its detector off,
\* unless a tick that had it on was under way (main.go, anomaly/engine.go).
THEOREM DisabledDetectorsFallSilent == ReloadSpec => []AlertsOfDisabledGo
<1>1. ReloadInit => ReloadTypeOK /\ AlertInv
  BY ReloadTypesInit DEF ReloadInit, AlertInv
<1>2. ReloadTypeOK /\ AlertInv /\ [ReloadNext]_reloadVars => (ReloadTypeOK /\ AlertInv)'
  BY ReloadTypesNext, AlertInvNext
<1>3. AlertInv => AlertsOfDisabledGo
  BY DEF AlertInv, PurgeComes, TurnsOff, AlertsOfDisabledGo, Quiet
<1>4. QED
  BY <1>1, <1>2, <1>3, PTL DEF ReloadSpec


(* The config of the file, when writes of the file keep apart. *)

\* One request is between its write and its end, and it brings what it wrote.
Saving(h) ==
  /\ watcher.at # "written"
  /\ \A g \in Open : g = h
  /\ handler[h].at = "written" =>
       /\ tmp = [cfg |-> handler[h].cfg, form |-> "current", valid |-> TRUE,
                 written |-> writes]
       /\ file.written < writes
  /\ handler[h].at # "written" =>
       file.form = "current" /\ file.valid /\ file.cfg = handler[h].cfg

\* What is in force while a request installs the config of the file.
Installing(h) ==
  /\ handler[h].at \in {"saved", "apply"}
  /\ handler[h].at = "apply" =>
       /\ srvCfg = file.cfg
       /\ \A i \in 1..(handler[h].next - 1) : cfgOf[Targets[i]] = file.cfg

\* The watcher saves what it made of a file that was not current.
LoadSaving ==
  /\ watcher.at = "written" => Open = {} /\ tmp.written = writes /\ file.written < writes
  /\ watcher.at \in {"migrating", "written"} /\ watcher.seen = file.written =>
       file.form # "current"

\* The watcher has nothing to do about the file.
FileHandled ==
  \/ watcher.at = "starting"
  \/ watcher.at = "idle" /\ watcher.lastMod = file.written

\* The watcher works on the latest file.
Latest == watcher.at \in {"apply", "applied"} /\ watcher.seen = file.written

\* A file the watcher has handled is in force or a request is about to see to it;
\* of the one it works on, if that is still the latest, what it has installed so
\* far; any other it will look at yet.
FileFollowed ==
  /\ file.written <= writes
  /\ watcher.lastMod <= file.written /\ watcher.seen <= file.written
  /\ FileHandled /\ ~missed => InForce \/ \E h \in Open : Installing(h)
  /\ Latest =>
       /\ file.form = "current" /\ file.valid /\ watcher.cfg = file.cfg
       /\ \A i \in 1..(watcher.next - 1) : cfgOf[Targets[i]] = file.cfg
  /\ watcher.at = "applied" => watcher.next = Len(Targets) + 1
  /\ watcher.at \notin {"apply", "applied"} => watcher.next = 1

\* A fan-out begins with the first component.
Begins == \A h \in Handlers : handler[h].at # "apply" => handler[h].next = 1

SaveInv ==
  overlap \/ ((\A h \in Open : Saving(h)) /\ LoadSaving /\ FileFollowed /\ Begins)

LEMMA SaveInvInit == ReloadInit => SaveInv
BY DEF ReloadInit, SaveInv, Open, Resting, Flags, NoFile, FileFollowed, FileHandled, Latest,
       InForce, LoadSaving, Begins

LEMMA ReloadFacts ==
  ASSUME ReloadTypeOK
  PROVE  /\ handler \in [Handlers -> Handling] /\ writes \in Nat
         /\ \A h \in Handlers : handler[h].next \in 1..(Len(Targets) + 1)
         /\ file.written \in Nat /\ tmp.written \in Nat
         /\ watcher.lastMod \in Nat /\ watcher.seen \in Nat
         /\ watcher \in Watching /\ watcher.next \in 1..(Len(Targets) + 1)
         /\ cfgOf \in [Components -> Config]
         /\ overlap \in BOOLEAN /\ missed \in BOOLEAN
<1>1. handler \in [Handlers -> Handling] /\ watcher \in Watching
  BY DEF ReloadTypeOK, Handling, Watching
<1>2. \A h \in Handlers : handler[h].next \in 1..(Len(Targets) + 1)
  BY <1>1 DEF Handling
<1>3. /\ watcher.lastMod \in Nat /\ watcher.seen \in Nat
      /\ watcher.next \in 1..(Len(Targets) + 1)
  BY <1>1 DEF Watching
<1>4. QED
  BY <1>1, <1>2, <1>3 DEF ReloadTypeOK

\* Whatever leaves the file and the watcher alone leaves this much.
LEMMA FollowingKept ==
  ASSUME ReloadTypeOK, FileFollowed, LoadSaving,
         UNCHANGED <<file, watcher, missed>>, writes' \in Nat, writes <= writes',
         \A x \in Components : cfgOf'[x] = cfgOf[x] \/ cfgOf'[x] = file.cfg,
         FileHandled /\ ~missed => InForce' \/ \E h \in Open' : Installing(h)'
  PROVE  FileFollowed'
<1>1. file.written \in Nat /\ writes \in Nat /\ watcher.next \in 1..(Len(Targets) + 1)
  BY ReloadFacts
<1>2. \A i \in 1..(watcher.next - 1) : Targets[i] \in Components
  BY <1>1, TargetsHaveLength
<1>3. FileHandled' <=> FileHandled
  BY DEF FileHandled
<1>4. Latest' <=> Latest
  BY DEF Latest
<1>5. QED
  BY <1>1, <1>2, <1>3, <1>4 DEF FileFollowed

LEMMA SaveInvHandler ==
  ASSUME ReloadTypeOK, ReloadTypeOK', SaveInv, ~overlap',
         NEW h \in Handlers,
         \/ Change(h) \/ WriteTmp(h) \/ Rename(h) \/ RenameFails(h)
         \/ SetServer(h) \/ HandlerInstalls(h) \/ HandlerPurges(h)
  PROVE  SaveInv'
<1>1. ~overlap
  BY DEF Change, WriteTmp, Rename, RenameFails, SetServer, HandlerInstalls,
         HandlerPurges, ghosts
<1>2. FileFollowed /\ LoadSaving /\ Begins /\ \A g \in Open : Saving(g)
  BY <1>1 DEF SaveInv
<1>3. /\ handler \in [Handlers -> Handling] /\ writes \in Nat
      /\ handler[h].next \in 1..(Len(Targets) + 1)
      /\ file.written \in Nat /\ tmp.written \in Nat
  BY ReloadFacts
<1>4. watcher' = watcher /\ missed' = missed
  BY DEF Change, WriteTmp, Rename, RenameFails, SetServer, HandlerInstalls,
         HandlerPurges, ghosts
<1>5. CASE Change(h)
  <2>1. /\ handler[h].at = "idle" /\ handler'[h].at = "changed" /\ handler'[h].next = 1
        /\ \A g \in Handlers \ {h} : handler'[g] = handler[g]
    BY <1>3, <1>5 DEF Change, Handling
  <2>2. Open' = Open /\ h \notin Open
    BY <2>1 DEF Open
  <2>3. UNCHANGED <<file, tmp, writes, srvCfg, cfgOf>>
    BY <1>5 DEF Change, files
  <2>4. \A g \in Open : handler'[g] = handler[g]
    BY <2>1, <2>2 DEF Open
  <2>5. \A g \in Open : Saving(g)'
    BY <1>2, <1>4, <2>2, <2>3, <2>4 DEF Saving
  <2>6. FileFollowed'
    <3>1. \A g \in Open : Installing(g) => Installing(g)'
      BY <2>3, <2>4 DEF Installing
    <3>2. InForce => InForce'
      BY <2>3 DEF InForce
    <3>3. FileHandled /\ ~missed => InForce' \/ \E g \in Open' : Installing(g)'
      BY <1>2, <2>2, <3>1, <3>2 DEF FileFollowed
    <3>4. QED
      BY <1>2, <1>3, <1>4, <2>3, <3>3, FollowingKept
  <2>7. Begins' /\ LoadSaving'
    BY <1>2, <1>4, <2>1, <2>2, <2>3 DEF Begins, LoadSaving
  <2>8. QED
    BY <2>2, <2>5, <2>6, <2>7 DEF SaveInv
<1>6. CASE WriteTmp(h)
  <2>1. Open = {} /\ watcher.at # "written"
    BY <1>6 DEF WriteTmp, Writing
  <2>2. /\ handler[h].at = "changed"
        /\ handler'[h].at = "written" /\ handler'[h].cfg = handler[h].cfg
        /\ handler'[h].next = handler[h].next
        /\ \A g \in Handlers \ {h} : handler'[g] = handler[g]
    BY <1>3, <1>6 DEF WriteTmp, Handling
  <2>3. Open' = {h}
    BY <2>1, <2>2 DEF Open
  <2>4. file.written < writes + 1
    BY <1>2, <1>3 DEF FileFollowed
  <2>5. Saving(h)'
    BY <1>4, <1>6, <2>1, <2>2, <2>3, <2>4 DEF WriteTmp, Saving, Saved
  <2>6. UNCHANGED <<file, srvCfg, cfgOf>> /\ writes' = writes + 1
    BY <1>6 DEF WriteTmp
  <2>7. FileFollowed'
    <3>1. FileHandled /\ ~missed => InForce'
      BY <1>2, <2>1, <2>6 DEF FileFollowed, InForce
    <3>2. QED
      BY <1>2, <1>3, <1>4, <2>6, <3>1, FollowingKept
  <2>8. Begins' /\ LoadSaving'
    BY <1>2, <1>4, <2>1, <2>2, <2>6 DEF Begins, LoadSaving
  <2>9. QED
    BY <2>3, <2>5, <2>7, <2>8 DEF SaveInv
<1>7. CASE Rename(h)
  <2>1. h \in Open /\ handler[h].at = "written"
    BY <1>7 DEF Rename, Open
  <2>2. /\ tmp = [cfg |-> handler[h].cfg, form |-> "current", valid |-> TRUE,
                  written |-> writes]
        /\ file.written < writes /\ watcher.at # "written" /\ \A g \in Open : g = h
    BY <1>2, <2>1 DEF Saving
  <2>3. /\ handler'[h].at = "saved" /\ handler'[h].cfg = handler[h].cfg
        /\ handler'[h].next = handler[h].next
        /\ \A g \in Handlers \ {h} : handler'[g] = handler[g]
    BY <1>3, <1>7 DEF Rename, Handling
  <2>4. Open' = {h}
    BY <2>1, <2>2, <2>3 DEF Open
  <2>5. /\ file'.form = "current" /\ file'.valid
        /\ file'.cfg = handler[h].cfg /\ file'.written = writes
    BY <1>7, <2>2 DEF Rename
  <2>6. Saving(h)'
    BY <1>4, <2>2, <2>3, <2>4, <2>5 DEF Saving
  <2>7. writes' = writes
    BY <1>7 DEF Rename
  <2>8. watcher.lastMod \in Nat /\ watcher.seen \in Nat
    BY ReloadFacts
  <2>9. watcher.lastMod < file'.written /\ watcher.seen < file'.written
    BY <1>2, <1>3, <2>2, <2>5, <2>8 DEF FileFollowed
  <2>10. h \in Open' /\ Installing(h)'
    BY <2>3, <2>4 DEF Installing
  <2>11. FileFollowed'
    <3>1. \E g \in Open' : Installing(g)'
      BY <2>10
    <3>2. ~Latest'
      BY <1>4, <2>5, <2>8, <2>9 DEF Latest
    <3>3. /\ file'.written <= writes'
          /\ watcher'.lastMod <= file'.written /\ watcher'.seen <= file'.written
      BY <1>3, <1>4, <2>5, <2>7, <2>8, <2>9
    <3>4. /\ watcher'.at = "applied" => watcher'.next = Len(Targets) + 1
          /\ watcher'.at \notin {"apply", "applied"} => watcher'.next = 1
      BY <1>2, <1>4 DEF FileFollowed
    <3>5. QED
      BY <3>1, <3>2, <3>3, <3>4 DEF FileFollowed
  <2>12. Begins' /\ LoadSaving'
    BY <1>2, <1>3, <1>4, <2>1, <2>2, <2>3, <2>5, <2>8, <2>9 DEF Begins, LoadSaving
  <2>13. QED
    BY <2>4, <2>6, <2>11, <2>12 DEF SaveInv
<1>8. CASE RenameFails(h) \/ HandlerPurges(h)
  <2>1. h \in Open
    BY <1>8 DEF RenameFails, HandlerPurges, Purge, Open
  <2>2. /\ handler'[h].at = "idle" /\ handler'[h].next = 1
        /\ \A g \in Handlers \ {h} : handler'[g] = handler[g]
    BY <1>3, <1>8 DEF RenameFails, HandlerPurges, Resting
  <2>3. \A g \in Open : g = h
    BY <1>2, <2>1 DEF Saving
  <2>4. Open' = {} /\ watcher.at # "written"
    BY <1>2, <2>1, <2>2, <2>3 DEF Open, Saving
  <2>5. UNCHANGED <<file, writes, srvCfg, cfgOf>>
    BY <1>8 DEF RenameFails, HandlerPurges, files
  <2>6. Installing(h) => InForce
    <3> SUFFICES ASSUME Installing(h) PROVE InForce
      OBVIOUS
    <3>1. handler[h].at = "apply" /\ handler[h].next = Len(Targets) + 1
      BY <1>8 DEF RenameFails, HandlerPurges, Purge, Installing
    <3>2. /\ srvCfg = file.cfg
          /\ \A i \in 1..Len(Targets) : cfgOf[Targets[i]] = file.cfg
      BY <3>1, TargetsHaveLength DEF Installing
    <3>3. \A x \in Components : \E i \in 1..Len(Targets) : x = Targets[i]
      BY TargetsHaveLength DEF Components
    <3>4. QED
      BY <3>2, <3>3 DEF InForce
  <2>7. FileFollowed'
    <3>1. FileHandled /\ ~missed => InForce'
      BY <1>2, <2>3, <2>5, <2>6 DEF FileFollowed, InForce
    <3>2. QED
      BY <1>2, <1>3, <1>4, <2>5, <3>1, FollowingKept
  <2>8. Begins' /\ LoadSaving'
    BY <1>2, <1>4, <2>2, <2>4, <2>5 DEF Begins, LoadSaving
  <2>9. QED
    BY <2>4, <2>7, <2>8 DEF SaveInv
<1>9. CASE SetServer(h) \/ HandlerInstalls(h)
  <2>1. h \in Open /\ handler[h].at # "written" /\ handler[h].at \in {"saved", "apply"}
    BY <1>9 DEF SetServer, HandlerInstalls, Install, Open
  <2>2. /\ file.form = "current" /\ file.valid /\ file.cfg = handler[h].cfg
        /\ watcher.at # "written" /\ \A g \in Open : g = h
    BY <1>2, <2>1 DEF Saving
  <2>3. /\ handler'[h].at = "apply" /\ handler'[h].cfg = handler[h].cfg
        /\ \A g \in Handlers \ {h} : handler'[g] = handler[g]
    <3>1. CASE SetServer(h)
      BY <1>3, <3>1 DEF SetServer, Handling
    <3>2. CASE HandlerInstalls(h)
      BY <1>3, <3>2 DEF HandlerInstalls, Install, Handling
    <3>3. QED
      BY <1>9, <3>1, <3>2
  <2>4. Open' = {h}
    BY <2>1, <2>2, <2>3 DEF Open
  <2>5. UNCHANGED <<file, tmp, writes>>
    BY <1>9 DEF SetServer, HandlerInstalls, files
  <2>6. Saving(h)'
    BY <1>4, <2>2, <2>3, <2>4, <2>5 DEF Saving
  <2>7. srvCfg' = srvCfg \/ srvCfg' = file.cfg
    BY <1>9, <2>2 DEF SetServer, HandlerInstalls
  <2>8. \A x \in Components : cfgOf'[x] = cfgOf[x] \/ cfgOf'[x] = file.cfg
    BY <1>9, <2>2, ReloadFacts DEF SetServer, HandlerInstalls, Install
  <2>9. Installing(h) => Installing(h)'
    <3>1. CASE SetServer(h)
      <4>1. /\ handler[h].at = "saved" /\ srvCfg' = file.cfg
            /\ handler'[h].next = handler[h].next
        BY <1>3, <2>2, <3>1 DEF SetServer, Handling
      <4>2. handler'[h].next = 1
        BY <1>2, <4>1 DEF Begins
      <4>3. QED
        BY <2>3, <2>5, <4>1, <4>2 DEF Installing
    <3>2. CASE HandlerInstalls(h)
      <4>1. /\ handler[h].at = "apply" /\ handler[h].next \in 1..Len(Targets)
            /\ cfgOf' = [cfgOf EXCEPT ![Targets[handler[h].next]] = handler[h].cfg]
            /\ srvCfg' = srvCfg
        BY <3>2, TargetsHaveLength DEF HandlerInstalls, Install
      <4>2. handler'[h].next = handler[h].next + 1
        BY <1>3, <3>2 DEF HandlerInstalls, Following, Handling
      <4>3. ASSUME Installing(h), NEW i \in 1..handler[h].next
            PROVE  cfgOf'[Targets[i]] = file.cfg
        <5>1. Targets[i] \in Components
          BY <4>1, TargetsHaveLength
        <5>2. i \in 1..(handler[h].next - 1) \/ i = handler[h].next
          BY <1>3
        <5>3. cfgOf \in [Components -> Config]
          BY ReloadFacts
        <5>4. QED
          BY <2>2, <4>1, <4>3, <5>1, <5>2, <5>3 DEF Installing
      <4>4. handler'[h].next - 1 = handler[h].next
        BY <1>3, <4>2
      <4>5. Installing(h) => \A i \in 1..handler[h].next : cfgOf'[Targets[i]] = file.cfg
        BY <4>3
      <4>6. QED
        BY <2>3, <2>5, <4>1, <4>4, <4>5 DEF Installing
    <3>3. QED
      BY <1>9, <3>1, <3>2
  <2>10. FileFollowed'
    <3>1. InForce => InForce'
      BY <2>5, <2>7, <2>8 DEF InForce
    <3>2. FileHandled /\ ~missed => InForce' \/ \E g \in Open' : Installing(g)'
      BY <1>2, <2>2, <2>4, <2>9, <3>1 DEF FileFollowed
    <3>3. QED
      BY <1>2, <1>3, <1>4, <2>5, <2>8, <3>2, FollowingKept
  <2>11. Begins' /\ LoadSaving'
    BY <1>2, <1>4, <2>2, <2>3, <2>5 DEF Begins, LoadSaving
  <2>12. QED
    BY <2>4, <2>6, <2>10, <2>11 DEF SaveInv
<1>10. QED
  BY <1>5, <1>6, <1>7, <1>8, <1>9

\* The watcher at what leaves the file alone.
LEMMA SaveInvWatcher ==
  ASSUME ReloadTypeOK, ReloadTypeOK', SaveInv, ~overlap,
         \/ WatcherStarts \/ Notice \/ Load \/ LoadFailsToSave
         \/ WatcherInstalls \/ WatcherPurges \/ WatcherSetsServer
  PROVE  SaveInv'
<1>1. FileFollowed /\ LoadSaving /\ Begins /\ \A g \in Open : Saving(g)
  BY DEF SaveInv
<1>2. UNCHANGED <<file, writes, handler>>
  BY DEF WatcherStarts, Notice, Load, LoadFailsToSave, WatcherInstalls, WatcherPurges,
         WatcherSetsServer, files
<1>3. Open' = Open /\ Begins'
  BY <1>1, <1>2 DEF Open, Begins
<1>4. /\ file.written \in Nat /\ watcher.seen \in Nat /\ watcher.lastMod \in Nat
      /\ watcher \in Watching /\ watcher.next \in 1..(Len(Targets) + 1)
      /\ cfgOf \in [Components -> Config]
  BY ReloadFacts
<1>5. watcher'.at # "written"
  <2>1. CASE WatcherStarts
    BY <1>4, <2>1 DEF WatcherStarts, Watching
  <2>2. CASE Load
    BY <1>4, <2>2 DEF Load, WatcherRests, Watching
  <2>3. CASE WatcherInstalls
    BY <1>4, <2>3 DEF WatcherInstalls, Install, Watching
  <2>4. CASE WatcherPurges
    BY <1>4, <2>4 DEF WatcherPurges, Watching
  <2>5. CASE WatcherSetsServer
    BY <2>5 DEF WatcherSetsServer, WatcherRests
  <2>6. CASE Notice
    BY <1>4, <2>6 DEF Notice, Watching
  <2>7. CASE LoadFailsToSave
    BY <2>7 DEF LoadFailsToSave, WatcherRests
  <2>8. QED
    BY <2>1, <2>2, <2>3, <2>4, <2>5, <2>6, <2>7
<1>6. \A g \in Open : tmp' = tmp
  BY <1>1 DEF WatcherStarts, Notice, Load, LoadFailsToSave, LoadSaving, WatcherInstalls,
         WatcherPurges, WatcherSetsServer, files
<1>7. \A g \in Open : Saving(g)'
  BY <1>1, <1>2, <1>3, <1>5, <1>6 DEF Saving
<1>8. FileFollowed' /\ LoadSaving'
  <2>1. CASE WatcherStarts
    <3>1. /\ watcher.at = "starting" /\ watcher'.at = "idle"
          /\ watcher'.lastMod = file.written /\ watcher'.seen = watcher.seen
          /\ watcher'.next = watcher.next
          /\ UNCHANGED <<srvCfg, cfgOf, missed>>
      BY <1>4, <2>1 DEF WatcherStarts, Watching, ghosts
    <3>2. /\ InForce => InForce'
          /\ \A g \in Open : Installing(g) => Installing(g)'
      BY <1>2, <3>1 DEF InForce, Installing
    <3>3. QED
      BY <1>1, <1>2, <1>3, <1>4, <3>1, <3>2 DEF FileFollowed, FileHandled, Latest, LoadSaving
  <2>2. CASE Notice
    <3>1. /\ watcher'.at = "debounce" /\ watcher'.seen = file.written
          /\ watcher'.lastMod = watcher.lastMod /\ watcher'.next = watcher.next
          /\ watcher.at = "idle"
      BY <1>4, <2>2 DEF Notice, Watching
    <3>2. QED
      BY <1>1, <1>2, <1>4, <3>1 DEF FileFollowed, FileHandled, Latest, LoadSaving
  <2>3. CASE Load
    <3>1. watcher.next = 1
      BY <1>1, <2>3 DEF Load, FileFollowed
    <3>2. CASE file.form # "current"
      <4>1. /\ watcher'.at = "migrating"
            /\ watcher'.seen = watcher.seen /\ watcher'.lastMod = watcher.lastMod
            /\ watcher'.next = watcher.next
        BY <1>4, <2>3, <3>2 DEF Load, Watching
      <4>2. QED
        BY <1>1, <1>2, <1>4, <3>1, <3>2, <4>1
           DEF FileFollowed, FileHandled, Latest, LoadSaving
    <3>3. CASE file.form = "current" /\ file.valid
      <4>1. /\ watcher'.at = "apply" /\ watcher'.cfg = file.cfg
            /\ watcher'.seen = watcher.seen /\ watcher'.lastMod = watcher.lastMod
            /\ watcher'.next = watcher.next
        BY <1>4, <2>3, <3>3 DEF Load, Watching
      <4>2. QED
        BY <1>1, <1>2, <1>4, <3>1, <3>3, <4>1
           DEF FileFollowed, FileHandled, Latest, LoadSaving
    <3>4. CASE file.form = "current" /\ ~file.valid
      <4>1. /\ watcher'.at = "idle" /\ watcher'.seen = 0 /\ watcher'.lastMod = watcher.seen
            /\ watcher'.next = 1
        BY <2>3, <3>4 DEF Load, WatcherRests, Handled
      <4>2. InForce'
        BY <1>2, <3>4 DEF InForce
      <4>3. QED
        BY <1>1, <1>2, <1>4, <4>1, <4>2 DEF FileFollowed, Latest, LoadSaving
    <3>5. QED
      BY <3>2, <3>3, <3>4
  <2>4. CASE LoadFailsToSave
    <3>1. /\ watcher.at = "written" /\ watcher'.at = "idle" /\ watcher'.seen = 0
          /\ watcher'.lastMod = watcher.seen /\ watcher'.next = 1
      BY <2>4 DEF LoadFailsToSave, WatcherRests, Handled
    <3>2. watcher.seen = file.written => InForce'
      BY <1>1, <1>2, <3>1 DEF LoadSaving, InForce
    <3>3. QED
      BY <1>1, <1>2, <1>4, <3>1, <3>2 DEF FileFollowed, FileHandled, Latest, LoadSaving
  <2>5. CASE WatcherInstalls
    <3>1. /\ watcher.at = "apply" /\ watcher.next \in 1..Len(Targets)
          /\ cfgOf' = [cfgOf EXCEPT ![Targets[watcher.next]] = watcher.cfg]
      BY <2>5, TargetsHaveLength DEF WatcherInstalls, Install
    <3>2. /\ watcher'.at = "apply" /\ watcher'.cfg = watcher.cfg
          /\ watcher'.seen = watcher.seen /\ watcher'.lastMod = watcher.lastMod
          /\ watcher'.next = watcher.next + 1
      BY <1>4, <2>5, <3>1 DEF WatcherInstalls, Following, Watching
    <3>3. ASSUME Latest, NEW i \in 1..watcher.next PROVE cfgOf'[Targets[i]] = file.cfg
      <4>1. Targets[i] \in Components
        BY <3>1, TargetsHaveLength
      <4>2. i \in 1..(watcher.next - 1) \/ i = watcher.next
        BY <1>4
      <4>3. QED
        BY <1>1, <1>4, <3>1, <3>3, <4>1, <4>2 DEF FileFollowed
    <3>4. watcher'.next - 1 = watcher.next
      BY <1>4, <3>2
    <3>5. Latest' <=> Latest
      BY <1>2, <3>1, <3>2 DEF Latest
    <3>6. Latest => \A i \in 1..watcher.next : cfgOf'[Targets[i]] = file.cfg
      BY <3>3
    <3>7. QED
      BY <1>1, <1>2, <1>4, <3>2, <3>4, <3>5, <3>6 DEF FileFollowed, FileHandled, LoadSaving
  <2>6. CASE WatcherPurges
    <3>1. /\ watcher'.at = "applied" /\ watcher'.cfg = watcher.cfg
          /\ watcher'.seen = watcher.seen /\ watcher'.lastMod = watcher.lastMod
          /\ watcher'.next = watcher.next /\ watcher.next = Len(Targets) + 1
          /\ watcher.at = "apply" /\ cfgOf' = cfgOf
      BY <1>4, <2>6 DEF WatcherPurges, Purge, Watching
    <3>2. QED
      BY <1>1, <1>2, <1>4, <3>1 DEF FileFollowed, FileHandled, Latest, LoadSaving
  <2>7. CASE WatcherSetsServer
    <3>1. /\ watcher.at = "applied" /\ watcher.next = Len(Targets) + 1
          /\ watcher'.at = "idle" /\ watcher'.seen = 0 /\ watcher'.lastMod = watcher.seen
          /\ watcher'.next = 1
          /\ srvCfg' = watcher.cfg /\ cfgOf' = cfgOf
      BY <1>1, <2>7 DEF WatcherSetsServer, WatcherRests, Handled, FileFollowed
    <3>2. ASSUME watcher.seen = file.written PROVE InForce'
      <4>1. /\ srvCfg' = file.cfg
            /\ \A i \in 1..Len(Targets) : cfgOf[Targets[i]] = file.cfg
        BY <1>1, <3>1, <3>2, TargetsHaveLength DEF FileFollowed, Latest
      <4>2. \A x \in Components : \E i \in 1..Len(Targets) : x = Targets[i]
        BY TargetsHaveLength DEF Components
      <4>3. QED
        BY <1>2, <3>1, <4>1, <4>2 DEF InForce
    <3>3. QED
      BY <1>1, <1>2, <1>4, <3>1, <3>2 DEF FileFollowed, FileHandled, Latest, LoadSaving
  <2>8. QED
    BY <2>1, <2>2, <2>3, <2>4, <2>5, <2>6, <2>7
<1>9. QED
  BY <1>3, <1>7, <1>8 DEF SaveInv

\* The watcher's own save, and an edit by hand.
LEMMA SaveInvLoadSaves ==
  ASSUME ReloadTypeOK, ReloadTypeOK', SaveInv, ~overlap', LoadWrites \/ LoadRenames
  PROVE  SaveInv'
<1>1. ~overlap
  BY DEF LoadWrites, LoadRenames, ghosts
<1>2. FileFollowed /\ LoadSaving /\ Begins
  BY <1>1 DEF SaveInv
<1>3. /\ file.written \in Nat /\ tmp.written \in Nat /\ writes \in Nat
      /\ watcher.seen \in Nat /\ watcher.lastMod \in Nat /\ watcher \in Watching
  BY ReloadFacts
<1>4. CASE LoadWrites
  <2>1. Open = {}
    BY <1>4 DEF LoadWrites, Writing
  <2>2. /\ watcher.at = "migrating" /\ watcher'.at = "written"
        /\ watcher'.seen = watcher.seen /\ watcher'.lastMod = watcher.lastMod
        /\ watcher'.next = watcher.next
        /\ UNCHANGED <<file, handler>> /\ writes' = writes + 1 /\ tmp'.written = writes + 1
    BY <1>3, <1>4 DEF LoadWrites, Watching, Saved
  <2>3. Open' = {} /\ Begins'
    BY <1>2, <2>1, <2>2 DEF Open, Begins
  <2>4. FileFollowed' /\ LoadSaving'
    BY <1>2, <1>3, <2>2, <2>3 DEF FileFollowed, FileHandled, Latest, LoadSaving
  <2>5. QED
    BY <2>3, <2>4 DEF SaveInv
<1>5. CASE LoadRenames
  <2>1. /\ watcher.at = "written" /\ Open = {} /\ tmp.written = writes
        /\ file.written < writes /\ watcher.next = 1
    BY <1>2, <1>5 DEF LoadRenames, LoadSaving, FileFollowed
  <2>2. UNCHANGED <<writes, handler>> /\ file'.written = writes
    BY <1>5, <2>1 DEF LoadRenames
  <2>3. Open' = {} /\ Begins'
    BY <1>2, <2>1, <2>2 DEF Open, Begins
  <2>4. /\ watcher'.at \in {"apply", "idle"} /\ watcher'.next = 1
        /\ watcher'.seen \in {watcher.seen, 0} /\ watcher'.lastMod \in {watcher.lastMod, watcher.seen}
    BY <1>3, <1>5, <2>1 DEF LoadRenames, WatcherRests, Handled, Watching
  <2>5. watcher'.lastMod < file'.written /\ watcher'.seen < file'.written
    BY <1>2, <1>3, <2>1, <2>2, <2>4 DEF FileFollowed
  <2>6. watcher'.seen \in Nat /\ watcher'.lastMod \in Nat
    BY <1>3, <2>4
  <2>7. FileFollowed' /\ LoadSaving'
    BY <1>3, <2>2, <2>4, <2>5, <2>6 DEF FileFollowed, FileHandled, Latest, LoadSaving
  <2>8. QED
    BY <2>3, <2>7 DEF SaveInv
<1>6. QED
  BY <1>4, <1>5

LEMMA SaveInvEdit ==
  ASSUME ReloadTypeOK, ReloadTypeOK', SaveInv, ~overlap', EditFile
  PROVE  SaveInv'
<1>1. /\ ~overlap /\ Open = {} /\ watcher.at # "written"
  <2>1. overlap' = (overlap \/ Writing)
    BY DEF EditFile
  <2>2. overlap \in BOOLEAN
    BY ReloadFacts
  <2>3. QED
    BY <2>1, <2>2 DEF Writing
<1>2. /\ file'.written = writes + 1 /\ writes' = writes + 1
      /\ UNCHANGED <<handler, watcher>> /\ (watcher.at = "starting" => missed')
  <2>1. file'.written = writes + 1
    BY DEF EditFile
  <2>2. QED
    BY <2>1 DEF EditFile
<1>3. Open' = {}
  BY <1>1, <1>2 DEF Open
<1>4. /\ file.written \in Nat /\ writes \in Nat
      /\ watcher.seen \in Nat /\ watcher.lastMod \in Nat
  BY ReloadFacts
<1>5. FileFollowed' /\ LoadSaving' /\ Begins'
  BY <1>1, <1>2, <1>4 DEF SaveInv, FileFollowed, FileHandled, Latest, LoadSaving, Begins
<1>6. QED
  BY <1>3, <1>5 DEF SaveInv

LEMMA SaveInvNext ==
  ASSUME ReloadTypeOK, ReloadTypeOK', SaveInv, [ReloadNext]_reloadVars
  PROVE  SaveInv'
<1>1. ASSUME UNCHANGED <<file, tmp, writes, srvCfg, cfgOf, handler, watcher, overlap, missed>>
      PROVE  SaveInv'
  BY <1>1 DEF SaveInv, Open, Saving, FileFollowed, FileHandled, Latest, InForce, Installing,
              LoadSaving, Begins
<1>2. CASE UNCHANGED reloadVars
  BY <1>1, <1>2 DEF reloadVars, files, engine, ghosts
<1>3. CASE ReloadNext /\ overlap'
  BY <1>3 DEF SaveInv
<1>4. CASE ReloadNext /\ ~overlap'
  <2>1. CASE \E h \in Handlers :
               \/ Change(h) \/ WriteTmp(h) \/ Rename(h) \/ RenameFails(h)
               \/ SetServer(h) \/ HandlerInstalls(h) \/ HandlerPurges(h)
    BY <1>4, <2>1, SaveInvHandler
  <2>2. CASE EditFile
    BY <1>4, <2>2, SaveInvEdit
  <2>3. CASE LoadWrites \/ LoadRenames
    BY <1>4, <2>3, SaveInvLoadSaves
  <2>4. CASE \/ WatcherStarts \/ Notice \/ Load \/ LoadFailsToSave
             \/ WatcherInstalls \/ WatcherPurges \/ WatcherSetsServer
    <3>1. ~overlap
      BY <1>4, <2>4 DEF WatcherStarts, Notice, Load, LoadFailsToSave, WatcherInstalls,
         WatcherPurges, WatcherSetsServer, ghosts
    <3>2. QED
      BY <2>4, <3>1, SaveInvWatcher
  <2>5. CASE StartTick \/ Analyze \/ FinishTick
    BY <1>1, <2>5 DEF StartTick, Analyze, FinishTick, files, ghosts
  <2>6. QED
    BY <1>4, <2>1, <2>2, <2>3, <2>4, <2>5 DEF ReloadNext
<1>5. QED
  BY <1>2, <1>3, <1>4

\* However reloads, requests, failed saves and edits by hand follow each other:
\* once all is quiet, the server and every component run the config of the file,
\* unless a write of the file fell into another save of it, or the last edit the
\* watcher could see came before it started (watcher.go, loader.go, ai_execute.go).
THEOREM SeparateSavesTakeForce == ReloadSpec => []QuietAgrees
<1>1. ReloadInit => ReloadTypeOK /\ SaveInv
  BY ReloadTypesInit, SaveInvInit
<1>2. ReloadTypeOK /\ SaveInv /\ [ReloadNext]_reloadVars => (ReloadTypeOK /\ SaveInv)'
  BY ReloadTypesNext, SaveInvNext
<1>3. ReloadTypeOK /\ SaveInv => QuietAgrees
  <2> SUFFICES ASSUME ReloadTypeOK, FileFollowed, Quiet, ~missed PROVE InForce
    BY DEF SaveInv, QuietAgrees
  <2>1. file.written \in Nat /\ watcher.lastMod \in Nat
    BY ReloadFacts
  <2>2. Open = {}
    BY DEF Quiet, Open
  <2>3. QED
    BY <2>1, <2>2 DEF FileFollowed, FileHandled, Quiet, InForce
<1>4. QED
  BY <1>1, <1>2, <1>3, PTL DEF ReloadSpec

-----------------------------------------------------------------------------
(* The values of a config, for any documents, names, secrets and rules *)

\* What stands at some places of a sequence, in their order, is just that.
LEMMA PickedIsThere ==
  ASSUME NEW n \in Nat, NEW places \in SUBSET (1..n), NEW seq
  PROVE  /\ Cardinality(places) \in Nat
         /\ Picked(seq, places) = [k \in 1..Cardinality(places) |-> Picked(seq, places)[k]]
         /\ \A k \in 1..Cardinality(places) :
              \E i \in places : Picked(seq, places)[k] = seq[i]
         /\ \A i \in places :
              \E k \in 1..Cardinality(places) : Picked(seq, places)[k] = seq[i]
<1> DEFINE UpTo(i) == {j \in places : j <= i}
           rank == [i \in places |-> Cardinality(UpTo(i))]
           Nth(k) == CHOOSE i \in places : Cardinality({j \in places : j <= i}) = k
<1>1. IsFiniteSet(places) /\ Cardinality(places) \in Nat
  <2>1. IsFiniteSet(1..n)
    BY FS_Interval
  <2>2. QED
    BY <2>1, FS_Subset, FS_CardinalityType
<1>2. ASSUME NEW i \in places
      PROVE  IsFiniteSet(UpTo(i)) /\ Cardinality(UpTo(i)) \in 1..Cardinality(places)
  <2>1. UpTo(i) \in SUBSET places /\ i \in UpTo(i)
    OBVIOUS
  <2>2. IsFiniteSet(UpTo(i)) /\ Cardinality(UpTo(i)) <= Cardinality(places)
    BY <1>1, <2>1, FS_Subset
  <2>3. Cardinality(UpTo(i)) \in Nat /\ Cardinality(UpTo(i)) # 0
    BY <2>1, <2>2, FS_CardinalityType, FS_EmptySet
  <2>4. QED
    BY <1>1, <2>2, <2>3
<1>3. ASSUME NEW i \in places, NEW j \in places, i < j
      PROVE  Cardinality(UpTo(i)) # Cardinality(UpTo(j))
  <2>1. UpTo(i) \in SUBSET UpTo(j) /\ j \in UpTo(j) /\ j \notin UpTo(i)
    <3>1. i \in Int /\ j \in Int /\ \A k \in places : k \in Int
      OBVIOUS
    <3>2. \A k \in places : k <= i => k <= j
      BY <1>3, <3>1
    <3>3. ~(j <= i) /\ j <= j
      BY <1>3, <3>1
    <3>4. QED
      BY <3>2, <3>3
  <2>2. QED
    BY <1>2, <2>1, FS_Subset
<1>4. \A i, j \in places : Cardinality(UpTo(i)) = Cardinality(UpTo(j)) => i = j
  <2> SUFFICES ASSUME NEW i \in places, NEW j \in places,
                      Cardinality(UpTo(i)) = Cardinality(UpTo(j)), i # j
               PROVE  FALSE
    OBVIOUS
  <2>1. i < j \/ j < i
    OBVIOUS
  <2>2. QED
    BY <1>3, <2>1
<1>5. rank \in Injection(places, 1..Cardinality(places))
  <2>1. rank \in [places -> 1..Cardinality(places)]
    BY <1>2
  <2>2. \A i, j \in places : rank[i] = rank[j] => i = j
    BY <1>4
  <2>3. QED
    BY <2>1, <2>2 DEF Injection, IsInjective
<1>6. rank \in Surjection(places, 1..Cardinality(places))
  BY <1>1, <1>5, FS_Interval, FS_Injection
<1>7. \A k \in 1..Cardinality(places) :
        Nth(k) \in places /\ Cardinality(UpTo(Nth(k))) = k
  BY <1>6 DEF Surjection
<1>8. Picked(seq, places) = [k \in 1..Cardinality(places) |-> seq[Nth(k)]]
  BY Zenon DEF Picked, Cardinality, Cardinality
<1>9. \A i \in places : Nth(Cardinality(UpTo(i))) = i
  <2> SUFFICES ASSUME NEW i \in places PROVE Nth(Cardinality(UpTo(i))) = i
    OBVIOUS
  <2>1. Cardinality(UpTo(i)) \in 1..Cardinality(places)
    BY <1>2
  <2> DEFINE c == Cardinality(UpTo(i))
  <2>2. c \in 1..Cardinality(places) /\ c = Cardinality(UpTo(i))
    BY <2>1
  <2> HIDE DEF c
  <2>3. Nth(c) \in places /\ Cardinality(UpTo(Nth(c))) = c
    BY <1>7, <2>2
  <2>4. Nth(c) = i
    BY <1>4, <2>2, <2>3
  <2>5. QED
    BY <2>2, <2>4
<1> HIDE DEF Nth
<1>10. QED
  BY <1>1, <1>2, <1>7, <1>8, <1>9

LEMMA LeastPlace ==
  ASSUME NEW S \in SUBSET Nat, S # {}
  PROVE  \E i \in S : \A j \in S : i <= j
<1>1. PICK i \in S : \A j \in S : <<j, i>> \notin OpToRel(<, Nat)
  BY WFMin, NatLessThanWellFounded
<1>2. \A j \in S : ~(j < i)
  BY <1>1 DEF OpToRel
<1>3. QED
  BY <1>2

LEMMA PickedTypes ==
  ASSUME NEW names \in Seq(Names), NEW places \in SUBSET DOMAIN names
  PROVE  /\ Picked(names, places) \in Seq(Names)
         /\ {Lower[names[i]] : i \in places} = Folded(Picked(names, places))
<1> DEFINE picked == Picked(names, places)
<1>1. Len(names) \in Nat /\ DOMAIN names = 1..Len(names)
  OBVIOUS
<1>2. /\ Cardinality(places) \in Nat
      /\ picked = [k \in 1..Cardinality(places) |-> picked[k]]
      /\ \A k \in 1..Cardinality(places) : \E i \in places : picked[k] = names[i]
      /\ \A i \in places : \E k \in 1..Cardinality(places) : picked[k] = names[i]
  BY <1>1, PickedIsThere
<1> HIDE DEF picked
<1>3. \A i \in places : names[i] \in Names
  BY <1>1
<1>4. picked \in [1..Cardinality(places) -> Names] /\ DOMAIN picked = 1..Cardinality(places)
  BY <1>2, <1>3
<1>5. picked \in Seq(Names)
  <2>1. PICK c : c = Cardinality(places)
    OBVIOUS
  <2>2. c \in Nat /\ picked \in [1..c -> Names]
    BY <1>2, <1>4, <2>1
  <2>3. QED
    BY ONLY <2>2
<1>6. {Lower[names[i]] : i \in places} = {Lower[picked[k]] : k \in DOMAIN picked}
  <2>1. ASSUME NEW i \in places
        PROVE  \E k \in DOMAIN picked : Lower[picked[k]] = Lower[names[i]]
    BY <1>2, <1>4
  <2>2. ASSUME NEW k \in DOMAIN picked
        PROVE  \E i \in places : Lower[names[i]] = Lower[picked[k]]
    BY <1>2, <1>4
  <2>3. QED
    BY <2>1, <2>2
<1>7. QED
  BY <1>5, <1>6 DEF picked, Folded

LEMMA AppendedIsFolded ==
  ASSUME NEW names \in Seq(Names), NEW n \in Names
  PROVE  /\ AppendUniqueFold(names, n) \in Seq(Names)
         /\ Folded(names) \cup {Lower[n]} = Folded(AppendUniqueFold(names, n))
<1>1. CASE Lower[n] \in Folded(names)
  BY <1>1 DEF AppendUniqueFold
<1>2. CASE Lower[n] \notin Folded(names)
  <2>1. AppendUniqueFold(names, n) = Append(names, n)
    BY <1>2 DEF AppendUniqueFold
  <2>2. /\ Append(names, n) \in Seq(Names) /\ Len(names) \in Nat
        /\ DOMAIN names = 1..Len(names)
        /\ DOMAIN Append(names, n) = DOMAIN names \cup {Len(names) + 1}
        /\ Append(names, n)[Len(names) + 1] = n
        /\ \A i \in DOMAIN names : Append(names, n)[i] = names[i]
    OBVIOUS
  <2>3. QED
    BY ONLY <2>1, <2>2 DEF Folded
<1>3. QED
  BY <1>1, <1>2

LEMMA RemovedIsGone ==
  ASSUME NEW names \in Seq(Names), NEW n \in Names
  PROVE  /\ RemoveFold(names, n) \in Seq(Names)
         /\ Folded(names) \ {Lower[n]} = Folded(RemoveFold(names, n))
<1> DEFINE places == {i \in DOMAIN names : Lower[names[i]] # Lower[n]}
<1>1. RemoveFold(names, n) = Picked(names, places)
  BY Zenon DEF RemoveFold
<1>2. places \in SUBSET DOMAIN names
  OBVIOUS
<1>3. Folded(names) \ {Lower[n]} = {Lower[names[i]] : i \in places}
  BY DEF Folded
<1> HIDE DEF places
<1>4. QED
  BY <1>1, <1>2, <1>3, PickedTypes

LEMMA FirstsAreAll ==
  ASSUME NEW names \in Seq(Names)
  PROVE  /\ UniqueFold(names) \in Seq(Names)
         /\ Folded(names) = Folded(UniqueFold(names))
<1> DEFINE firsts ==
      {i \in DOMAIN names : \A j \in 1..(i - 1) : Lower[names[j]] # Lower[names[i]]}
<1>1. UniqueFold(names) = Picked(names, firsts)
  BY Zenon DEF UniqueFold
<1>2. firsts \in SUBSET DOMAIN names
  OBVIOUS
<1>3. ASSUME NEW i \in DOMAIN names PROVE \E j \in firsts : Lower[names[j]] = Lower[names[i]]
  <2> DEFINE same == {j \in DOMAIN names : Lower[names[j]] = Lower[names[i]]}
  <2>1. Len(names) \in Nat /\ DOMAIN names = 1..Len(names)
    OBVIOUS
  <2>2. same \in SUBSET Nat /\ i \in same
    BY <2>1
  <2>3. PICK j \in same : \A k \in same : j <= k
    BY <2>2, LeastPlace
  <2>4. ASSUME NEW k \in 1..(j - 1) PROVE Lower[names[k]] # Lower[names[j]]
    <3>1. k \in DOMAIN names /\ ~(j <= k)
      BY <2>1
    <3>2. QED
      BY <2>3, <3>1
  <2>5. QED
    BY <2>4
<1>4. Folded(names) = {Lower[names[i]] : i \in firsts}
  BY <1>2, <1>3 DEF Folded
<1> HIDE DEF firsts
<1>5. QED
  BY <1>1, <1>2, <1>4, PickedTypes

\* The types of the fields that WellTyped asks for.
FieldTypes ==
  [schema |-> Nat, tuning |-> Tunings, ignore |-> Seq(Names),
   interval |-> Int, ttl |-> Int, maxTokens |-> Int, reserved |-> Int,
   key |-> Values, token |-> Values, rules |-> Seq(Rules)]

LEMMA FieldsWithTypes ==
  DOMAIN FieldTypes = {"schema", "tuning", "ignore", "interval", "ttl", "maxTokens",
                       "reserved", "key", "token", "rules"}
BY DEF FieldTypes

LEMMA WellTypedMeans ==
  ASSUME NEW doc
  PROVE  WellTyped(doc) <=>
           /\ DOMAIN doc \subseteq Fields
           /\ \A f \in DOMAIN doc \cap DOMAIN FieldTypes : doc[f] \in FieldTypes[f]
BY Zenon DEF WellTyped, FieldTypes

LEMMA TypedFields ==
  ASSUME NEW c, WellTyped(c), DOMAIN c = Fields
  PROVE  /\ c.schema \in Nat /\ c.tuning \in Tunings /\ c.ignore \in Seq(Names)
         /\ {c.interval, c.ttl, c.maxTokens, c.reserved} \subseteq Int
         /\ {c.key, c.token} \subseteq Values
         /\ c.rules \in Seq(Rules)
<1>1. DOMAIN FieldTypes \subseteq DOMAIN c
  BY FieldsWithTypes DEF Fields
<1>2. \A f \in DOMAIN FieldTypes : c[f] \in FieldTypes[f]
  BY <1>1, WellTypedMeans
<1>3. /\ c.schema \in Nat /\ c.tuning \in Tunings /\ c.ignore \in Seq(Names)
      /\ c.interval \in Int /\ c.ttl \in Int /\ c.maxTokens \in Int /\ c.reserved \in Int
  BY <1>2, FieldsWithTypes DEF FieldTypes
<1>4. /\ c.key \in Values /\ c.token \in Values
      /\ c.rules \in Seq(Rules)
  BY <1>2, FieldsWithTypes DEF FieldTypes
<1>5. QED
  BY <1>3, <1>4

LEMMA KeptKeeps ==
  ASSUME NEW names \in Seq(Names)
  PROVE  Kept(names) \in Seq(Names) /\ Folded(names) \subseteq Folded(Kept(names))
<1>1. Default.ignore \in Seq(Names)
  BY TypedFields, SettingsAssumption
<1>2. CASE names = <<>>
  BY <1>1, <1>2 DEF Kept, Folded
<1>3. CASE names # <<>>
  <2>1. PICK all : all = Default.ignore \o names
    OBVIOUS
  <2>2. all \in Seq(Names) /\ Kept(names) = UniqueFold(all)
    BY <1>1, <1>3, <2>1 DEF Kept
  <2>3. /\ Len(Default.ignore) \in Nat /\ Len(names) \in Nat
        /\ DOMAIN names = 1..Len(names)
        /\ DOMAIN all = 1..(Len(Default.ignore) + Len(names))
        /\ \A i \in 1..Len(names) : all[Len(Default.ignore) + i] = names[i]
    BY ONLY <1>1, <2>1, names \in Seq(Names)
  <2>4. ASSUME NEW i \in DOMAIN names PROVE \E k \in DOMAIN all : all[k] = names[i]
    <3>1. Len(Default.ignore) + i \in DOMAIN all
      BY <2>3
    <3>2. QED
      BY <2>3, <3>1
  <2>5. Folded(names) \subseteq Folded(all)
    BY <2>4 DEF Folded
  <2>6. QED
    BY <2>2, <2>5, FirstsAreAll
<1>4. QED
  BY <1>2, <1>3

IsConfig(c) == c = [f \in Fields |-> c[f]] /\ WellTyped(c) /\ Default.ports \subseteq c.ports

\* The limits of Validate.
Limited(c) ==
  /\ c.interval >= MinInterval /\ c.ttl >= MinTtl
  /\ c.reserved >= c.maxTokens /\ c.maxTokens >= MinTokens
  /\ c.types # {}

LEMMA ConfigFields ==
  ASSUME NEW c, IsConfig(c)
  PROVE  /\ DOMAIN c = Fields
         /\ c.schema \in Nat /\ c.tuning \in Tunings /\ c.ignore \in Seq(Names)
         /\ c.interval \in Int /\ c.ttl \in Int /\ c.maxTokens \in Int /\ c.reserved \in Int
         /\ c.key \in Values /\ c.token \in Values
         /\ c.rules \in Seq(Rules)
<1>1. DOMAIN c = Fields
  BY DEF IsConfig
<1>2. QED
  BY <1>1, TypedFields DEF IsConfig

LEMMA FieldsMakeConfig ==
  ASSUME NEW c, c = [f \in Fields |-> c[f]], Default.ports \subseteq c.ports,
         c.schema \in Nat, c.tuning \in Tunings, c.ignore \in Seq(Names),
         c.interval \in Int, c.ttl \in Int, c.maxTokens \in Int, c.reserved \in Int,
         c.key \in Values, c.token \in Values,
         c.rules \in Seq(Rules)
  PROVE  IsConfig(c)
<1>1. \A f \in DOMAIN FieldTypes : c[f] \in FieldTypes[f]
  BY FieldsWithTypes DEF FieldTypes
<1>2. DOMAIN c \subseteq Fields
  OBVIOUS
<1>3. QED
  BY <1>1, <1>2, WellTypedMeans DEF IsConfig

LEMMA DefaultIsConfig ==
  /\ IsConfig(Default) /\ Limited(Default) /\ Default.schema >= Current
  /\ Current \in Nat /\ MinInterval \in Nat /\ MinTtl \in Nat /\ MinTokens \in Nat
  /\ Default.tuning = "default"
<1>1. IsConfig(Default)
  BY SettingsAssumption DEF IsConfig
<1>2. /\ {Current, MinInterval, MinTtl, MinTokens, MaxFor, MaxChanges} \subseteq Nat
      /\ Default.schema = Current /\ Default.tuning = "default"
      /\ Default.interval >= MinInterval /\ Default.ttl >= MinTtl
      /\ Default.maxTokens >= MinTokens /\ Default.reserved >= Default.maxTokens
      /\ Default.types # {}
  BY SettingsAssumption, Zenon
<1>3. Limited(Default) /\ Default.tuning = "default"
  BY ONLY <1>2 DEF Limited
<1>4. /\ Current \in Nat /\ MinInterval \in Nat /\ MinTtl \in Nat /\ MinTokens \in Nat
      /\ Default.schema >= Current
  BY ONLY <1>2
<1>5. QED
  BY <1>1, <1>3, <1>4

LEMMA ReadOfDocument ==
  ASSUME NEW doc, WellTyped(doc)
  PROVE  IsConfig(Read(doc))
<1> DEFINE read == Read(doc)
<1>1. "ports" \notin DOMAIN FieldTypes /\ DOMAIN FieldTypes \subseteq Fields
  BY FieldsWithTypes DEF Fields
<1>2. DOMAIN Default = Fields /\ WellTyped(Default)
  BY SettingsAssumption
<1>3. /\ \A f \in DOMAIN doc \cap DOMAIN FieldTypes : doc[f] \in FieldTypes[f]
      /\ \A f \in DOMAIN Default \cap DOMAIN FieldTypes : Default[f] \in FieldTypes[f]
  BY <1>2, WellTypedMeans
<1>4. /\ read = [f \in Fields |-> read[f]]
      /\ \A f \in Fields \ {"ports"} : read[f] = (IF f \in DOMAIN doc THEN doc[f] ELSE Default[f])
      /\ Default.ports \subseteq read.ports
  BY DEF Read, Fields
<1>5. /\ DOMAIN read \subseteq Fields
      /\ \A f \in DOMAIN read \cap DOMAIN FieldTypes : read[f] \in FieldTypes[f]
  BY <1>1, <1>2, <1>3, <1>4
<1>6. QED
  BY <1>4, <1>5, WellTypedMeans DEF IsConfig

LEMMA ReadOfConfig ==
  ASSUME NEW c, IsConfig(c)
  PROVE  Read(c) = c /\ c \notin {Broken, Missing} /\ WellTyped(c)
<1>1. c = [f \in Fields |-> c[f]] /\ DOMAIN c = Fields
  BY DEF IsConfig
<1>2. \A f \in Fields : f = "ports" => Default[f] \cup c[f] = c[f]
  BY DEF IsConfig
<1>3. Read(c) = [f \in Fields |-> c[f]]
  BY <1>1, <1>2 DEF Read
<1>4. c \notin {Broken, Missing}
  BY <1>1, SettingsAssumption
<1>5. QED
  BY <1>1, <1>3, <1>4 DEF IsConfig

LEMMA MigratedConfig ==
  ASSUME NEW c, IsConfig(c)
  PROVE  /\ IsConfig(Migrated(c)) /\ Migrated(c).schema >= Current
         /\ Migrated(c).interval = c.interval /\ Migrated(c).rules = c.rules
         /\ Folded(c.ignore) \subseteq Folded(Migrated(c).ignore)
         /\ c.schema >= Current => Migrated(c) = c
         /\ c.schema < Current => Migrated(c).tuning = Default.tuning
<1>1. Current \in Nat /\ c.schema \in Nat /\ DOMAIN c = Fields
  BY ConfigFields, DefaultIsConfig
<1>2. CASE c.schema >= Current
  <2>1. Migrated(c) = c
    BY <1>2 DEF Migrated
  <2>2. QED
    BY <1>1, <1>2, <2>1
<1>3. CASE ~(c.schema >= Current)
  <2>1. PICK m : m = Migrated(c)
    OBVIOUS
  <2>2. m = [c EXCEPT !.schema = Current, !.tuning = Default.tuning, !.ignore = Kept(@)]
    BY <1>3, <2>1 DEF Migrated, Stamp
  <2>3. /\ m = [f \in Fields |-> m[f]]
        /\ m.schema = Current /\ m.tuning = Default.tuning /\ m.ignore = Kept(c.ignore)
        /\ \A f \in Fields \ {"schema", "tuning", "ignore"} : m[f] = c[f]
    BY <1>1, <2>2 DEF Fields
  <2>4. /\ m.interval = c.interval /\ m.ttl = c.ttl /\ m.maxTokens = c.maxTokens
        /\ m.reserved = c.reserved /\ m.key = c.key /\ m.token = c.token
        /\ m.rules = c.rules /\ m.ports = c.ports
    BY <2>3 DEF Fields
  <2>5. m.ignore \in Seq(Names) /\ Folded(c.ignore) \subseteq Folded(m.ignore)
    <3>1. c.ignore \in Seq(Names)
      BY ConfigFields
    <3>2. QED
      BY <2>3, <3>1, KeptKeeps
  <2>6. m.tuning \in Tunings
    BY <2>3, DefaultIsConfig, ConfigFields
  <2>7. IsConfig(m)
    <3>1. Default.ports \subseteq m.ports
      BY <2>4 DEF IsConfig
    <3>2. m.schema \in Nat
      BY <1>1, <2>3
    <3>3. QED
      BY <2>3, <2>4, <2>5, <2>6, <3>1, <3>2, ConfigFields, FieldsMakeConfig
  <2>8. QED
    BY <1>1, <1>3, <2>1, <2>3, <2>4, <2>5, <2>7
<1>4. QED
  BY <1>2, <1>3

LEMMA ValidatedConfig ==
  ASSUME NEW c, IsConfig(c), ~Refused(c)
  PROVE  /\ IsConfig(Validated(c)) /\ Limited(Validated(c))
         /\ Validated(c).schema = c.schema /\ Validated(c).tuning = c.tuning
         /\ Validated(c).ignore = c.ignore /\ Validated(c).rules = c.rules
         /\ Validated(c).interval = c.interval
         /\ Limited(c) => Validated(c) = c
<1>1. PICK v : v = Validated(c)
  OBVIOUS
<1>2. /\ DOMAIN c = Fields /\ c.interval \in Int /\ c.ttl \in Int
      /\ c.maxTokens \in Int /\ c.reserved \in Int
      /\ MinInterval \in Nat /\ MinTtl \in Nat /\ MinTokens \in Nat
  BY ConfigFields, DefaultIsConfig
<1>3. v = [c EXCEPT !.ttl = Max2(@, MinTtl), !.maxTokens = Max2(@, MinTokens),
                    !.reserved = Raised(c), !.types = IF @ = {} THEN Default.types ELSE @]
  BY <1>1 DEF Validated
<1>4. /\ v = [f \in Fields |-> v[f]]
      /\ v.ttl = Max2(c.ttl, MinTtl) /\ v.maxTokens = Max2(c.maxTokens, MinTokens)
      /\ v.reserved = Raised(c)
      /\ v.types = IF c.types = {} THEN Default.types ELSE c.types
      /\ \A f \in Fields \ {"ttl", "maxTokens", "reserved", "types"} : v[f] = c[f]
  BY <1>2, <1>3 DEF Fields
<1>5. /\ v.schema = c.schema /\ v.tuning = c.tuning /\ v.ignore = c.ignore
      /\ v.interval = c.interval /\ v.key = c.key /\ v.token = c.token
      /\ v.rules = c.rules /\ v.ports = c.ports
  BY <1>4 DEF Fields
<1>6. /\ v.ttl \in Int /\ v.ttl >= MinTtl
      /\ v.maxTokens \in Int /\ v.maxTokens >= MinTokens
      /\ v.reserved \in Int /\ v.reserved >= v.maxTokens
  BY <1>2, <1>4 DEF Max2, Raised
<1>7. IsConfig(v)
  <2>1. Default.ports \subseteq v.ports
    BY <1>5 DEF IsConfig
  <2>2. QED
    BY <1>4, <1>5, <1>6, <2>1, ConfigFields, FieldsMakeConfig
<1>8. v.types # {} /\ v.interval >= MinInterval
  <2>1. Default.types # {}
    BY DefaultIsConfig DEF Limited
  <2>2. c.interval >= MinInterval
    BY <1>2 DEF Refused
  <2>3. QED
    BY <1>4, <1>5, <2>1, <2>2
<1>9. ASSUME Limited(c) PROVE v = c
  <2>1. /\ v.ttl = c.ttl /\ v.maxTokens = c.maxTokens /\ v.reserved = c.reserved
        /\ v.types = c.types
    BY <1>2, <1>4, <1>9 DEF Limited, Max2, Raised
  <2>2. \A f \in Fields : v[f] = c[f]
    BY <1>4, <2>1
  <2>3. c = [f \in Fields |-> c[f]]
    BY DEF IsConfig
  <2>4. QED
    BY <1>4, <2>2, <2>3
<1>10. QED
  BY <1>1, <1>5, <1>6, <1>7, <1>8, <1>9 DEF Limited

\* Rules that the page can send back as they are.
Back(rules) ==
  Accepted(RulesToDTO(rules)) /\ FromDTO(RulesToDTO(rules)) = rules

LEMMA SecondsAreWhole ==
  ASSUME NEW ms \in Int
  PROVE  Seconds(ms) \in Int
BY DEF Seconds

LEMMA SecondsOfSeconds ==
  ASSUME NEW n \in Nat
  PROVE  Seconds(1000 * n) = n
BY DEF Seconds

\* A Duration is an integer, and is its seconds while they fit.
LEMMA DurationsFit ==
  ASSUME NEW n \in Int
  PROVE  /\ Duration(n) \in Int
         /\ 1000 * n <= MaxDuration => Duration(n) = 1000 * n
<1>1. MaxDuration \in Nat
  BY SettingsAssumption
<1>2. CASE 1000 * n <= MaxDuration
  BY <1>2 DEF Duration
<1>3. CASE ~(1000 * n <= MaxDuration)
  <2>1. PICK b \in Nat : b = 2 * (MaxDuration + 1)
    BY <1>1
  <2>2. PICK a \in Int : a = 1000 * n + (MaxDuration + 1)
    BY <1>1
  <2>3. b > 0
    BY <1>1, <2>1
  <2>4. a % b \in Int
    BY <2>3
  <2>5. Duration(n) = (a % b) - (MaxDuration + 1)
    BY <1>3, <2>1, <2>2 DEF Duration
  <2>6. QED
    BY <1>1, <1>3, <2>4, <2>5
<1>4. QED
  BY <1>2, <1>3

LEMMA CooldownsFit ==
  ASSUME NEW cool \in Int
  PROVE  /\ Cooldown(cool) \in Int
         /\ 1000 * cool <= MaxDuration => Cooldown(cool) = 1000 * Max2(cool, 0)
<1>1. PICK n \in Nat : n = Max2(cool, 0)
  BY DEF Max2
<1>2. Cooldown(cool) = Duration(n)
  BY <1>1 DEF Cooldown
<1>3. MaxDuration \in Nat /\ (1000 * cool <= MaxDuration => 1000 * n <= MaxDuration)
  BY <1>1, SettingsAssumption DEF Max2
<1>4. QED
  BY <1>1, <1>2, <1>3, DurationsFit

\* The rules that a list becomes; a list that fits comes back as it was taken.
LEMMA RulesOfList ==
  ASSUME NEW list \in Seq(RuleDTOs), Accepted(list)
  PROVE  FromDTO(list) \in Seq(Rules)
<1>1. PICK DtoSet, RuleSet : DtoSet = RuleDTOs /\ RuleSet = Rules
  OBVIOUS
<1>2. list \in Seq(DtoSet)
  BY <1>1
<1>3. PICK n : n = Len(list)
  OBVIOUS
<1>4. n \in Nat /\ DOMAIN list = 1..n /\ \A i \in 1..n : list[i] \in DtoSet
  BY ONLY <1>2, <1>3
<1>5. PICK rules : rules = FromDTO(list)
  OBVIOUS
<1>6. rules = [i \in 1..n |-> [name |-> Trim[list[i].name], ms |-> Duration(list[i].for),
                               coolMs |-> Cooldown(list[i].cool)]]
  BY <1>4, <1>5 DEF FromDTO
<1>7. ASSUME NEW i \in 1..n PROVE rules[i] \in RuleSet
  <2>1. list[i].name \in RuleNames /\ list[i].for \in Int /\ list[i].cool \in Int
    BY <1>1, <1>4 DEF RuleDTOs
  <2>2. Trim[list[i].name] \in RuleNames
    BY <1>4, <2>1, SettingsAssumption DEF Accepted
  <2>3. Duration(list[i].for) \in Int /\ Cooldown(list[i].cool) \in Int
    <3>1. list[i].for \in Int /\ list[i].cool \in Int
      BY <2>1
    <3>2. Duration(list[i].for) \in Int
      BY <3>1, DurationsFit
    <3>3. Cooldown(list[i].cool) \in Int
      BY <3>1, CooldownsFit
    <3>4. QED
      BY <3>2, <3>3
  <2>4. QED
    BY <1>1, <1>6, <2>2, <2>3 DEF Rules
<1>8. rules \in [1..n -> RuleSet]
  BY <1>6, <1>7
<1>9. rules \in Seq(RuleSet)
  BY ONLY <1>4, <1>8
<1>10. QED
  BY <1>1, <1>5, <1>9

LEMMA AcceptedComeBack ==
  ASSUME NEW list \in Seq(RuleDTOs), Accepted(list), Fits(list)
  PROVE  Back(FromDTO(list))
<1>1. PICK DtoSet : DtoSet = RuleDTOs
  OBVIOUS
<1>2. list \in Seq(DtoSet)
  BY <1>1
<1>3. PICK n : n = Len(list)
  OBVIOUS
<1>4. n \in Nat /\ DOMAIN list = 1..n /\ \A i \in 1..n : list[i] \in DtoSet
  BY ONLY <1>2, <1>3
<1>5. PICK rules, shown, again :
        rules = FromDTO(list) /\ shown = RulesToDTO(rules) /\ again = FromDTO(shown)
  OBVIOUS
<1>6. rules = [i \in 1..n |-> [name |-> Trim[list[i].name], ms |-> Duration(list[i].for),
                               coolMs |-> Cooldown(list[i].cool)]]
  BY <1>4, <1>5 DEF FromDTO
<1>7. shown = [i \in 1..n |-> [name |-> rules[i].name, for |-> Seconds(rules[i].ms),
                               cool |-> Seconds(rules[i].coolMs)]]
  BY <1>5, <1>6 DEF RulesToDTO
<1>8. again = [i \in 1..n |-> [name |-> Trim[shown[i].name], ms |-> Duration(shown[i].for),
                               coolMs |-> Cooldown(shown[i].cool)]]
  BY <1>5, <1>7 DEF FromDTO
<1>9. ASSUME NEW i \in 1..n
      PROVE  /\ Trim[shown[i].name] = Trim[list[i].name] /\ Trim[list[i].name] # NoName
             /\ shown[i].for \in 0..MaxFor
             /\ again[i] = rules[i]
  <2>1. /\ list[i].name \in RuleNames /\ list[i].cool \in Int
        /\ list[i].for \in 0..MaxFor /\ Trim[list[i].name] # NoName
        /\ 1000 * list[i].cool <= MaxDuration
    <3>1. list[i].name \in RuleNames /\ list[i].cool \in Int
      BY <1>1, <1>4 DEF RuleDTOs
    <3>2. list[i].for \in 0..MaxFor /\ Trim[list[i].name] # NoName
      BY <1>4 DEF Accepted
    <3>3. 1000 * list[i].cool <= MaxDuration
      BY <1>4 DEF Fits
    <3>4. QED
      BY <3>1, <3>2, <3>3
  <2>2. MaxFor \in Nat /\ MaxDuration \in Nat /\ 1000 * MaxFor <= MaxDuration
    BY SettingsAssumption
  <2>3. Trim[Trim[list[i].name]] = Trim[list[i].name]
    BY <2>1, SettingsAssumption
  <2>4. PICK for \in Nat : for = list[i].for
    BY <2>1, <2>2
  <2>5. PICK cool \in Nat : cool = Max2(list[i].cool, 0)
    BY <2>1 DEF Max2
  <2>6. 1000 * for <= MaxDuration /\ 1000 * cool <= MaxDuration
    BY <2>1, <2>2, <2>4, <2>5 DEF Max2
  <2>7. /\ Duration(for) = 1000 * for
        /\ Cooldown(list[i].cool) = 1000 * cool /\ Cooldown(cool) = 1000 * Max2(cool, 0)
    <3>1. for \in Int /\ cool \in Int /\ list[i].cool \in Int
      BY <2>1
    <3>2. Duration(for) = 1000 * for
      BY <2>6, <3>1, DurationsFit
    <3>3. Cooldown(list[i].cool) = 1000 * Max2(list[i].cool, 0)
      <4>1. PICK c \in Int : c = list[i].cool
        BY <3>1
      <4>2. 1000 * c <= MaxDuration
        BY <2>1, <4>1
      <4>3. Cooldown(c) = 1000 * Max2(c, 0)
        BY <4>2, CooldownsFit
      <4>4. QED
        BY <4>1, <4>3
    <3>4. Cooldown(cool) = 1000 * Max2(cool, 0)
      BY <2>6, <3>1, CooldownsFit
    <3>5. QED
      BY <2>5, <3>2, <3>3, <3>4, Zenon
  <2>8. rules[i] = [name |-> Trim[list[i].name], ms |-> 1000 * for, coolMs |-> 1000 * cool]
    BY <1>6, <2>4, <2>7
  <2>9. Seconds(1000 * for) = for /\ Seconds(1000 * cool) = cool
    <3>1. Seconds(1000 * for) = for
      BY SecondsOfSeconds
    <3>2. Seconds(1000 * cool) = cool
      BY SecondsOfSeconds
    <3>3. QED
      BY <3>1, <3>2
  <2>10. shown[i] = [name |-> Trim[list[i].name], for |-> for, cool |-> cool]
    BY <1>7, <2>8, <2>9
  <2>11. Max2(cool, 0) = cool
    BY DEF Max2
  <2>12. again[i] = rules[i]
    BY <1>8, <2>3, <2>7, <2>8, <2>10, <2>11
  <2>13. QED
    BY <2>1, <2>3, <2>4, <2>10, <2>12
<1>10. again = rules
  BY <1>6, <1>8, <1>9
<1>11. Accepted(shown)
  <2>1. DOMAIN shown = 1..n
    BY <1>7
  <2>2. ASSUME NEW i \in 1..n, NEW j \in 1..(i - 1)
        PROVE  ~(Trim[shown[i].name] = Trim[shown[j].name])
    <3>1. j \in 1..n
      BY <1>4
    <3>2. Trim[list[i].name] # Trim[list[j].name]
      BY <1>4 DEF Accepted, SameName
    <3>3. QED
      BY <1>9, <3>1, <3>2
  <2>3. QED
    BY <1>9, <2>1, <2>2 DEF Accepted, SameName
<1>12. QED
  BY <1>5, <1>10, <1>11 DEF Back

\* The server's config: what Load and Validate promise, and what the user is owed.
MemInv ==
  /\ IsConfig(mem) /\ Limited(mem) /\ mem.schema >= Current
  /\ mem.tuning = tuned
  /\ wanted \subseteq Folded(mem.ignore)
  /\ posted => Back(mem.rules)

\* A config as the file would bring it back.
Owed(c) ==
  ~Refused(c) => wanted \subseteq Folded(c.ignore) /\ (posted => Back(c.rules))

\* A file that Save wrote, even if Validate refuses it, is never migrated again.
FileInv ==
  /\ document \in {Broken, Missing} \/ WellTyped(document)
  /\ saved => Readable /\ Read(document).schema >= Current /\ Owed(Read(document))

PageInv ==
  /\ page.maxTokens \in Int /\ page.ttl \in Int
  /\ page.key \in Values /\ page.token \in Values
  /\ page.rules \in Seq(RuleDTOs)

SettingsInv == MemInv /\ FileInv /\ PageInv

LEMMA GivenTypes ==
  ASSUME NEW c, IsConfig(c)
  PROVE  /\ Given(c).maxTokens \in Int /\ Given(c).ttl \in Int
         /\ Given(c).key \in Values /\ Given(c).token \in Values
         /\ Given(c).rules \in Seq(RuleDTOs)
<1>1. PICK RuleSet : RuleSet = Rules
  OBVIOUS
<1>2. c.rules \in Seq(RuleSet)
  BY <1>1, ConfigFields
<1>3. PICK n : n = Len(c.rules)
  OBVIOUS
<1>4. n \in Nat /\ DOMAIN c.rules = 1..n /\ \A i \in 1..n : c.rules[i] \in RuleSet
  BY ONLY <1>2, <1>3
<1>5. PICK DtoSet : DtoSet = RuleDTOs
  OBVIOUS
<1>6. \A i \in 1..n : [name |-> c.rules[i].name, for |-> Seconds(c.rules[i].ms),
                       cool |-> Seconds(c.rules[i].coolMs)] \in DtoSet
  <2> SUFFICES ASSUME NEW i \in 1..n
               PROVE  [name |-> c.rules[i].name, for |-> Seconds(c.rules[i].ms),
                       cool |-> Seconds(c.rules[i].coolMs)] \in DtoSet
    OBVIOUS
  <2>1. c.rules[i].name \in RuleNames /\ c.rules[i].ms \in Int /\ c.rules[i].coolMs \in Int
    BY <1>1, <1>4 DEF Rules
  <2>2. Seconds(c.rules[i].ms) \in Int /\ Seconds(c.rules[i].coolMs) \in Int
    BY <2>1, SecondsAreWhole
  <2>3. QED
    BY <1>5, <2>1, <2>2 DEF RuleDTOs
<1>7. PICK shown : shown = RulesToDTO(c.rules)
  OBVIOUS
<1>8. shown = [i \in 1..n |-> [name |-> c.rules[i].name, for |-> Seconds(c.rules[i].ms),
                              cool |-> Seconds(c.rules[i].coolMs)]]
  BY <1>4, <1>7 DEF RulesToDTO
<1>9. shown \in [1..n -> DtoSet]
  BY <1>6, <1>8
<1>10. shown \in Seq(DtoSet)
  BY ONLY <1>4, <1>9
<1>11. /\ Given(c).rules = shown /\ Given(c).maxTokens = c.maxTokens
       /\ Given(c).ttl = c.ttl
       /\ Given(c).key = Mask(c.key) /\ Given(c).token = Mask(c.token)
  BY <1>7 DEF Given
<1>12. Mask(c.key) \in Values /\ Mask(c.token) \in Values
  BY ConfigFields DEF Mask, Masks, Values
<1>13. QED
  BY <1>5, <1>10, <1>11, <1>12, ConfigFields

LEMMA SettingsInvInit == SettingsInit => SettingsInv
<1> SUFFICES ASSUME SettingsInit PROVE SettingsInv
  OBVIOUS
<1>1. /\ document = Default /\ mem = Default /\ page = Given(mem) /\ ~posted
      /\ tuned = Default.tuning /\ wanted = Folded(Default.ignore)
  BY DEF SettingsInit
<1>2. /\ IsConfig(mem) /\ Limited(mem) /\ mem.schema >= Current
      /\ Read(document) = document /\ document \notin {Broken, Missing} /\ WellTyped(document)
  BY <1>1, DefaultIsConfig, ReadOfConfig
<1>3. MemInv
  BY <1>1, <1>2 DEF MemInv
<1>4. FileInv
  BY <1>1, <1>2 DEF FileInv, Owed, Readable
<1>5. PageInv
  BY <1>1, <1>2, GivenTypes DEF PageInv
<1>6. QED
  BY <1>3, <1>4, <1>5 DEF SettingsInv

\* Load leaves the server's config, and the file, as a user is owed them.
LEMMA InstallKeeps ==
  ASSUME MemInv, FileInv, Loads, TakeLoaded
  PROVE  MemInv' /\ FileInv'
<1>1. CASE document = Missing
  <2>1. ~Readable /\ ~saved
    BY <1>1 DEF Readable, FileInv
  <2>2. /\ document' = Default /\ mem' = Default /\ ~posted'
        /\ tuned' = Default.tuning /\ wanted' = Folded(Default.ignore)
    BY <1>1, <2>1 DEF TakeLoaded, Stored, Loaded, NoteLoaded
  <2>3. PICK d : d = Default
    OBVIOUS
  <2>4. /\ IsConfig(d) /\ Limited(d) /\ d.schema >= Current
        /\ Read(d) = d /\ d \notin {Broken, Missing} /\ WellTyped(d)
    BY <2>3, DefaultIsConfig, ReadOfConfig
  <2>5. MemInv'
    BY <2>2, <2>3, <2>4 DEF MemInv
  <2>6. FileInv'
    BY <2>2, <2>3, <2>4 DEF FileInv, Owed, Readable
  <2>7. QED
    BY <2>5, <2>6
<1>2. CASE document # Missing
  <2>1. Readable /\ WellTyped(document) /\ ~Refused(Read(document))
    BY <1>2 DEF Loads, Readable, FileInv
  <2>2. PICK r : r = Read(document)
    OBVIOUS
  <2>3. PICK m : m = Migrated(r)
    OBVIOUS
  <2>4. PICK l : l = Validated(m)
    OBVIOUS
  <2>5. IsConfig(r) /\ ~Refused(r)
    BY <2>1, <2>2, ReadOfDocument
  <2>6. /\ IsConfig(m) /\ m.schema >= Current /\ m.interval = r.interval /\ m.rules = r.rules
        /\ Folded(r.ignore) \subseteq Folded(m.ignore)
        /\ r.schema >= Current => m = r
        /\ r.schema < Current => m.tuning = Default.tuning
    BY <2>3, <2>5, MigratedConfig
  <2>7. ~Refused(m)
    BY <2>5, <2>6 DEF Refused
  <2>8. /\ IsConfig(l) /\ Limited(l) /\ l.schema = m.schema /\ l.tuning = m.tuning
        /\ l.ignore = m.ignore /\ l.rules = m.rules
    BY <2>4, <2>6, <2>7, ValidatedConfig
  <2>9. mem' = l
    BY <1>2, <2>2, <2>3, <2>4 DEF TakeLoaded, Loaded
  <2>10. r.schema \in Nat /\ Current \in Nat
    BY <2>5, ConfigFields, DefaultIsConfig
  <2>11. Migrates <=> r.schema < Current
    BY <2>1, <2>2 DEF Migrates
  <2>12. document' = IF Migrates THEN m ELSE document
    BY <1>2, <2>2, <2>3 DEF TakeLoaded, Stored
  <2>13. CASE saved
    <3>1. /\ r.schema >= Current /\ m = r /\ ~Migrates
          /\ wanted \subseteq Folded(r.ignore) /\ (posted => Back(r.rules))
      BY <2>2, <2>5, <2>6, <2>10, <2>11, <2>13 DEF FileInv, Owed
    <3>2. document' = document /\ tuned' = r.tuning /\ wanted' = wanted /\ (posted' => posted)
      BY <2>2, <2>12, <2>13, <3>1 DEF TakeLoaded, NoteLoaded
    <3>3. MemInv'
      BY <2>6, <2>8, <2>9, <3>1, <3>2 DEF MemInv
    <3>4. FileInv'
      <4>1. WellTyped(document') /\ Read(document') = r /\ document' \notin {Broken, Missing}
        BY <2>1, <2>2, <3>2 DEF Readable
      <4>2. Owed(r)'
        BY <3>1, <3>2 DEF Owed
      <4>3. QED
        BY <3>1, <4>1, <4>2 DEF FileInv, Readable
    <3>5. QED
      BY <3>3, <3>4
  <2>14. CASE ~saved
    <3>1. /\ tuned' = (IF ~Migrates THEN r.tuning ELSE Default.tuning)
          /\ wanted' = Folded(r.ignore) /\ ~posted'
      BY <2>1, <2>2, <2>14 DEF TakeLoaded, NoteLoaded
    <3>2. MemInv'
      <4>1. m.tuning = tuned'
        BY <2>6, <2>10, <2>11, <3>1
      <4>2. QED
        BY <2>6, <2>8, <2>9, <3>1, <4>1 DEF MemInv
    <3>3. CASE Migrates
      <4>1. document' = m /\ Read(m) = m /\ m \notin {Broken, Missing} /\ WellTyped(m)
        BY <2>6, <2>12, <3>3, ReadOfConfig
      <4>2. FileInv'
        BY <2>6, <3>1, <4>1 DEF FileInv, Owed, Readable
      <4>3. QED
        BY <3>2, <4>2
    <3>4. CASE ~Migrates
      <4>1. document' = document /\ ~saved'
        BY <2>12, <2>14, <3>4 DEF TakeLoaded
      <4>2. FileInv'
        BY <2>1, <4>1 DEF FileInv
      <4>3. QED
        BY <3>2, <4>2
    <3>5. QED
      BY <3>3, <3>4
  <2>15. QED
    BY <2>13, <2>14
<1>3. QED
  BY <1>1, <1>2

LEMMA ReloadFailsKeeps ==
  ASSUME SettingsInv, ReloadFails
  PROVE  SettingsInv'
<1>1. UNCHANGED <<mem, page, tuned, wanted, posted>>
  BY DEF ReloadFails
<1>2. MemInv' /\ PageInv'
  BY <1>1 DEF SettingsInv, MemInv, PageInv
<1>3. CASE UNCHANGED <<document, saved>>
  BY <1>1, <1>2, <1>3 DEF SettingsInv, FileInv, Owed, Readable
<1>4. CASE ~UNCHANGED <<document, saved>>
  <2>1. Readable /\ ~Loads /\ document' = Stored /\ saved' = (saved \/ Migrates)
    BY <1>4 DEF ReloadFails
  <2>2. PICK r : r = Read(document)
    OBVIOUS
  <2>3. PICK m : m = Migrated(r)
    OBVIOUS
  <2>4. document # Missing /\ WellTyped(document) /\ Refused(r)
    BY <2>1, <2>2 DEF SettingsInv, FileInv, Readable, Loads
  <2>5. IsConfig(r)
    BY <2>2, <2>4, ReadOfDocument
  <2>6. IsConfig(m) /\ m.schema >= Current /\ m.interval = r.interval
    BY <2>3, <2>5, MigratedConfig
  <2>7. Read(m) = m /\ m \notin {Broken, Missing} /\ WellTyped(m) /\ Refused(m)
    BY <2>4, <2>6, ReadOfConfig DEF Refused
  <2>8. document' = IF Migrates THEN m ELSE document
    BY <2>1, <2>2, <2>3, <2>4 DEF Stored
  <2>9. CASE Migrates
    <3>1. document' = m
      BY <2>8, <2>9
    <3>2. FileInv'
      BY <2>6, <2>7, <3>1 DEF FileInv, Owed, Readable
    <3>3. QED
      BY <1>2, <3>2 DEF SettingsInv
  <2>10. CASE ~Migrates
    <3>1. document' = document /\ (saved' <=> saved)
      BY <2>1, <2>8, <2>10
    <3>2. FileInv'
      BY <1>1, <3>1 DEF SettingsInv, FileInv, Owed, Readable
    <3>3. QED
      BY <1>2, <3>2 DEF SettingsInv
  <2>11. QED
    BY <2>9, <2>10
<1>5. QED
  BY <1>3, <1>4

\* What a request saves is what the server has, and what Load will find.
LEMMA CommitKeeps ==
  ASSUME NEW n, IsConfig(n), n.schema >= Current, n.tuning = tuned,
         Commit(n), wanted' \subseteq Folded(n.ignore), posted' => Back(n.rules)
  PROVE  SettingsInv'
<1>1. PICK v : v = Validated(n)
  OBVIOUS
<1>2. ~Refused(n) /\ mem' = v /\ document' = v /\ tuned' = tuned /\ page' = Given(mem)'
  BY <1>1 DEF Commit
<1>3. /\ IsConfig(v) /\ Limited(v) /\ v.schema = n.schema /\ v.tuning = n.tuning
      /\ v.ignore = n.ignore /\ v.rules = n.rules
  BY <1>1, <1>2, ValidatedConfig
<1>4. Read(v) = v /\ v \notin {Broken, Missing} /\ WellTyped(v)
  BY <1>3, ReadOfConfig
<1>5. MemInv'
  BY <1>2, <1>3 DEF MemInv
<1>6. FileInv'
  BY <1>2, <1>3, <1>4 DEF FileInv, Owed, Readable
<1>7. PageInv'
  <2>1. page' = Given(v)
    BY <1>2
  <2>2. QED
    BY <1>3, <2>1, GivenTypes DEF PageInv
<1>8. QED
  BY <1>5, <1>6, <1>7 DEF SettingsInv

LEMMA FormsKeep ==
  ASSUME SettingsInv, SaveAI \/ SaveTelegram \/ SaveRuntime
  PROVE  SettingsInv'
<1>1. /\ IsConfig(mem) /\ mem.schema >= Current /\ mem.tuning = tuned
      /\ wanted \subseteq Folded(mem.ignore) /\ (posted => Back(mem.rules))
      /\ page.maxTokens \in Int /\ page.ttl \in Int
      /\ page.key \in Values /\ page.token \in Values
  BY DEF SettingsInv, MemInv, PageInv
<1>2. /\ DOMAIN mem = Fields
      /\ mem.schema \in Nat /\ mem.tuning \in Tunings /\ mem.ignore \in Seq(Names)
      /\ mem.interval \in Int /\ mem.ttl \in Int /\ mem.maxTokens \in Int
      /\ mem.reserved \in Int
      /\ mem.key \in Values /\ mem.token \in Values
      /\ mem.rules \in Seq(Rules)
      /\ Default.ports \subseteq mem.ports /\ Numbers \subseteq Int
  BY <1>1, ConfigFields, SettingsAssumption DEF IsConfig
<1>3. ASSUME NEW n, DOMAIN n = Fields, n = [f \in Fields |-> n[f]],
             n.schema = mem.schema, n.tuning = mem.tuning, n.ignore = mem.ignore,
             n.rules = mem.rules, n.ports = mem.ports, n.reserved = mem.reserved,
             n.interval \in Int, n.ttl \in Int, n.maxTokens \in Int,
             n.key \in Values, n.token \in Values,
             Commit(n), UNCHANGED <<wanted, posted>>
      PROVE  SettingsInv'
  <2>1. IsConfig(n)
    BY <1>2, <1>3, FieldsMakeConfig
  <2>2. QED
    BY <1>1, <1>3, <2>1, CommitKeeps
<1>4. CASE SaveAI
  <2>1. PICK key \in {Blank, page.key} \cup Secrets,
             headers \in {page.headers} \cup [Headers -> Secrets],
             tokens \in {page.maxTokens} \cup Numbers :
          UpdateAI(key, headers, tokens)
    BY <1>4 DEF SaveAI
  <2>2. PICK n : n = [mem EXCEPT !.key = Entered(key, @), !.headers = headers,
                                 !.maxTokens = IF tokens > 0 THEN tokens ELSE @]
    OBVIOUS
  <2>3. Commit(n) /\ UNCHANGED <<wanted, posted>>
    BY <2>1, <2>2 DEF UpdateAI
  <2>4. /\ n = [f \in Fields |-> n[f]] /\ DOMAIN n = Fields
        /\ n.key = Entered(key, mem.key)
        /\ n.maxTokens = IF tokens > 0 THEN tokens ELSE mem.maxTokens
        /\ \A f \in Fields \ {"key", "headers", "maxTokens"} : n[f] = mem[f]
    BY <1>2, <2>2 DEF Fields
  <2>5. /\ n.schema = mem.schema /\ n.tuning = mem.tuning /\ n.ignore = mem.ignore
        /\ n.rules = mem.rules /\ n.ports = mem.ports /\ n.reserved = mem.reserved
        /\ n.interval = mem.interval /\ n.ttl = mem.ttl /\ n.token = mem.token
    BY <2>4 DEF Fields
  <2>6. n.key \in Values /\ n.maxTokens \in Int
    BY <1>1, <1>2, <2>1, <2>4 DEF Entered, Values
  <2>7. QED
    BY <1>2, <1>3, <2>3, <2>4, <2>5, <2>6
<1>5. CASE SaveTelegram
  <2>1. PICK token \in {Blank, page.token} \cup Secrets, ttl \in {page.ttl} \cup Numbers,
             types \in {page.types, {}} :
          UpdateTelegram(token, ttl, types)
    BY <1>5 DEF SaveTelegram
  <2>2. PICK n : n = [mem EXCEPT !.token = Entered(token, @), !.ttl = ttl, !.types = types]
    OBVIOUS
  <2>3. Commit(n) /\ UNCHANGED <<wanted, posted>>
    BY <2>1, <2>2 DEF UpdateTelegram
  <2>4. /\ n = [f \in Fields |-> n[f]] /\ DOMAIN n = Fields
        /\ n.token = Entered(token, mem.token) /\ n.ttl = ttl
        /\ \A f \in Fields \ {"token", "ttl", "types"} : n[f] = mem[f]
    BY <1>2, <2>2 DEF Fields
  <2>5. /\ n.schema = mem.schema /\ n.tuning = mem.tuning /\ n.ignore = mem.ignore
        /\ n.rules = mem.rules /\ n.ports = mem.ports /\ n.reserved = mem.reserved
        /\ n.interval = mem.interval /\ n.maxTokens = mem.maxTokens /\ n.key = mem.key
    BY <2>4 DEF Fields
  <2>6. n.token \in Values /\ n.ttl \in Int
    BY <1>1, <1>2, <2>1, <2>4 DEF Entered, Values
  <2>7. QED
    BY <1>2, <1>3, <2>3, <2>4, <2>5, <2>6
<1>6. CASE SaveRuntime
  <2>1. PICK k \in Numbers : Commit([mem EXCEPT !.interval = k])
    BY <1>6 DEF SaveRuntime
  <2>2. PICK n : n = [mem EXCEPT !.interval = k]
    OBVIOUS
  <2>3. Commit(n) /\ UNCHANGED <<wanted, posted>>
    BY <1>6, <2>1, <2>2 DEF SaveRuntime
  <2>4. /\ n = [f \in Fields |-> n[f]] /\ DOMAIN n = Fields /\ n.interval = k
        /\ \A f \in Fields \ {"interval"} : n[f] = mem[f]
    BY <1>2, <2>2 DEF Fields
  <2>5. /\ n.schema = mem.schema /\ n.tuning = mem.tuning /\ n.ignore = mem.ignore
        /\ n.rules = mem.rules /\ n.ports = mem.ports /\ n.reserved = mem.reserved
        /\ n.ttl = mem.ttl /\ n.maxTokens = mem.maxTokens /\ n.key = mem.key
        /\ n.token = mem.token
    BY <2>4 DEF Fields
  <2>6. n.interval \in Int
    BY <1>2, <2>1, <2>4
  <2>7. QED
    BY <1>2, <1>3, <2>3, <2>4, <2>5, <2>6
<1>7. QED
  BY <1>4, <1>5, <1>6

LEMMA ListsKeep ==
  ASSUME SettingsInv, SaveRules \/ Ignore \/ Unignore
  PROVE  SettingsInv'
<1>1. /\ IsConfig(mem) /\ mem.schema >= Current /\ mem.tuning = tuned
      /\ wanted \subseteq Folded(mem.ignore) /\ (posted => Back(mem.rules))
      /\ page.rules \in Seq(RuleDTOs)
      /\ RuleLists \subseteq Seq(RuleDTOs)
  BY SettingsAssumption DEF SettingsInv, MemInv, PageInv
<1>2. /\ DOMAIN mem = Fields
      /\ mem.schema \in Nat /\ mem.tuning \in Tunings /\ mem.ignore \in Seq(Names)
      /\ mem.interval \in Int /\ mem.ttl \in Int /\ mem.maxTokens \in Int
      /\ mem.reserved \in Int
      /\ mem.key \in Values /\ mem.token \in Values
      /\ mem.rules \in Seq(Rules)
      /\ Default.ports \subseteq mem.ports
  BY <1>1, ConfigFields DEF IsConfig
<1>3. ASSUME NEW n, n = [f \in Fields |-> n[f]],
             \A f \in Fields \ {"ignore", "rules"} : n[f] = mem[f],
             n.ignore \in Seq(Names), n.rules \in Seq(Rules)
      PROVE  IsConfig(n) /\ n.schema >= Current /\ n.tuning = tuned
  <2>1. /\ n.schema = mem.schema /\ n.tuning = mem.tuning /\ n.ports = mem.ports
        /\ n.reserved = mem.reserved /\ n.interval = mem.interval /\ n.ttl = mem.ttl
        /\ n.maxTokens = mem.maxTokens /\ n.key = mem.key /\ n.token = mem.token
    BY <1>3 DEF Fields
  <2>2. IsConfig(n)
    BY <1>2, <1>3, <2>1, FieldsMakeConfig
  <2>3. QED
    BY <1>1, <2>1, <2>2
<1>4. CASE SaveRules
  <2>1. PICK list \in {page.rules} \cup RuleLists :
          /\ Accepted(list) /\ Commit([mem EXCEPT !.rules = FromDTO(list)])
          /\ posted' = Fits(list)
    BY <1>4 DEF SaveRules
  <2>2. PICK n : n = [mem EXCEPT !.rules = FromDTO(list)]
    OBVIOUS
  <2>3. Commit(n) /\ wanted' = wanted
    BY <1>4, <2>1, <2>2 DEF SaveRules
  <2>4. list \in Seq(RuleDTOs) /\ Accepted(list)
    BY <1>1, <2>1
  <2>5. FromDTO(list) \in Seq(Rules) /\ (posted' => Back(FromDTO(list)))
    BY <2>1, <2>4, AcceptedComeBack, RulesOfList
  <2>6. /\ n = [f \in Fields |-> n[f]] /\ n.rules = FromDTO(list) /\ n.ignore = mem.ignore
        /\ \A f \in Fields \ {"ignore", "rules"} : n[f] = mem[f]
    BY <1>2, <2>2 DEF Fields
  <2>7. IsConfig(n) /\ n.schema >= Current /\ n.tuning = tuned
    BY <1>2, <1>3, <2>5, <2>6
  <2>8. wanted' \subseteq Folded(n.ignore) /\ (posted' => Back(n.rules))
    BY <1>1, <2>3, <2>5, <2>6
  <2>9. QED
    BY <2>3, <2>7, <2>8, CommitKeeps
<1>5. CASE Ignore
  <2>1. PICK name \in Names : /\ Commit([mem EXCEPT !.ignore = AppendUniqueFold(@, name)])
                              /\ wanted' = wanted \cup {Lower[name]}
    BY <1>5 DEF Ignore
  <2>2. PICK n : n = [mem EXCEPT !.ignore = AppendUniqueFold(@, name)]
    OBVIOUS
  <2>3. Commit(n) /\ posted' = posted
    BY <1>5, <2>1, <2>2 DEF Ignore
  <2>4. /\ n = [f \in Fields |-> n[f]] /\ n.rules = mem.rules
        /\ n.ignore = AppendUniqueFold(mem.ignore, name)
        /\ \A f \in Fields \ {"ignore", "rules"} : n[f] = mem[f]
    BY <1>2, <2>2 DEF Fields
  <2>5. n.ignore \in Seq(Names) /\ Folded(mem.ignore) \cup {Lower[name]} = Folded(n.ignore)
    <3>1. PICK ignore : ignore = mem.ignore
      OBVIOUS
    <3>2. ignore \in Seq(Names) /\ n.ignore = AppendUniqueFold(ignore, name)
      BY <1>2, <2>4, <3>1
    <3>3. /\ AppendUniqueFold(ignore, name) \in Seq(Names)
          /\ Folded(ignore) \cup {Lower[name]} = Folded(AppendUniqueFold(ignore, name))
      BY <3>2, AppendedIsFolded
    <3>4. QED
      BY <3>1, <3>2, <3>3
  <2>6. IsConfig(n) /\ n.schema >= Current /\ n.tuning = tuned
    BY <1>2, <1>3, <2>4, <2>5
  <2>7. wanted' \subseteq Folded(n.ignore)
    BY <1>1, <2>1, <2>5
  <2>8. posted' => Back(n.rules)
    BY <1>1, <2>3, <2>4
  <2>9. QED
    BY <2>3, <2>6, <2>7, <2>8, CommitKeeps
<1>6. CASE Unignore
  <2>1. PICK name \in Names : /\ Commit([mem EXCEPT !.ignore = RemoveFold(@, name)])
                              /\ wanted' = wanted \ {Lower[name]}
    BY <1>6 DEF Unignore
  <2>2. PICK n : n = [mem EXCEPT !.ignore = RemoveFold(@, name)]
    OBVIOUS
  <2>3. Commit(n) /\ posted' = posted
    BY <1>6, <2>1, <2>2 DEF Unignore
  <2>4. /\ n = [f \in Fields |-> n[f]] /\ n.rules = mem.rules
        /\ n.ignore = RemoveFold(mem.ignore, name)
        /\ \A f \in Fields \ {"ignore", "rules"} : n[f] = mem[f]
    BY <1>2, <2>2 DEF Fields
  <2>5. n.ignore \in Seq(Names) /\ Folded(mem.ignore) \ {Lower[name]} = Folded(n.ignore)
    <3>1. PICK ignore : ignore = mem.ignore
      OBVIOUS
    <3>2. ignore \in Seq(Names) /\ n.ignore = RemoveFold(ignore, name)
      BY <1>2, <2>4, <3>1
    <3>3. /\ RemoveFold(ignore, name) \in Seq(Names)
          /\ Folded(ignore) \ {Lower[name]} = Folded(RemoveFold(ignore, name))
      BY <3>2, RemovedIsGone
    <3>4. QED
      BY <3>1, <3>2, <3>3
  <2>6. IsConfig(n) /\ n.schema >= Current /\ n.tuning = tuned
    BY <1>2, <1>3, <2>4, <2>5
  <2>7. wanted' \subseteq Folded(n.ignore)
    BY <1>1, <2>1, <2>5
  <2>8. posted' => Back(n.rules)
    BY <1>1, <2>3, <2>4
  <2>9. QED
    BY <2>3, <2>6, <2>7, <2>8, CommitKeeps
<1>7. QED
  BY <1>4, <1>5, <1>6

LEMMA FileStepsKeep ==
  ASSUME SettingsInv, WriteFile \/ TuneFile
  PROVE  SettingsInv'
<1>1. UNCHANGED <<mem, page, tuned, wanted, posted>>
  BY DEF WriteFile, TuneFile
<1>2. MemInv' /\ PageInv'
  BY <1>1 DEF SettingsInv, MemInv, PageInv
<1>3. CASE WriteFile
  <2>1. document' \in Documents /\ ~saved'
    BY <1>3 DEF WriteFile
  <2>2. document' \in {Broken, Missing} \/ WellTyped(document')
    BY <2>1, SettingsAssumption, Zenon
  <2>3. QED
    BY <1>2, <2>1, <2>2 DEF SettingsInv, FileInv
<1>4. CASE TuneFile
  <2>1. PICK t \in Tunings : document' = [f \in DOMAIN document \cup {"tuning"} |->
                                          IF f = "tuning" THEN t ELSE document[f]]
    BY <1>4 DEF TuneFile
  <2>2. Readable /\ saved' = saved /\ WellTyped(document)
    BY <1>4 DEF TuneFile, SettingsInv, FileInv, Readable
  <2>3. PICK d : d = document'
    OBVIOUS
  <2>4. /\ DOMAIN d = DOMAIN document \cup {"tuning"} /\ d["tuning"] = t
        /\ \A f \in DOMAIN document \ {"tuning"} : d[f] = document[f]
    BY <2>1, <2>3
  <2>5. WellTyped(d)
    <3>1. /\ DOMAIN document \subseteq Fields
          /\ \A f \in DOMAIN document \cap DOMAIN FieldTypes : document[f] \in FieldTypes[f]
      BY <2>2, WellTypedMeans
    <3>2. t \in FieldTypes["tuning"]
      BY DEF FieldTypes
    <3>3. /\ DOMAIN d \subseteq Fields
          /\ \A f \in DOMAIN d \cap DOMAIN FieldTypes : d[f] \in FieldTypes[f]
      BY <2>4, <3>1, <3>2 DEF Fields
    <3>4. QED
      BY <3>3, WellTypedMeans
  <2>6. d \notin {Broken, Missing}
    <3>1. DOMAIN d \subseteq Fields
      BY <2>5 DEF WellTyped
    <3>2. QED
      BY <3>1, SettingsAssumption
  <2>7. \A f \in Fields \ {"tuning"} : Read(d)[f] = Read(document)[f]
    BY <2>4 DEF Read
  <2>8. PICK r, q : r = Read(document) /\ q = Read(d)
    OBVIOUS
  <2>9. /\ q.schema = r.schema /\ q.interval = r.interval /\ q.ignore = r.ignore
        /\ q.rules = r.rules
    BY <2>7, <2>8 DEF Fields
  <2>10. saved => r.schema >= Current /\ Owed(r)
    BY <2>8 DEF SettingsInv, FileInv
  <2>11. saved => q.schema >= Current /\ Owed(q)'
    BY <1>1, <2>9, <2>10 DEF Owed, Refused
  <2>12. FileInv'
    BY <2>2, <2>3, <2>5, <2>6, <2>8, <2>11 DEF FileInv, Readable
  <2>13. QED
    BY <1>2, <2>12 DEF SettingsInv
<1>5. QED
  BY <1>3, <1>4

LEMMA SettingsInvNext ==
  SettingsInv /\ [SettingsNext]_settingsVars => SettingsInv'
<1> SUFFICES ASSUME SettingsInv, [SettingsNext]_settingsVars PROVE SettingsInv'
  OBVIOUS
<1>1. CASE UNCHANGED settingsVars
  BY <1>1 DEF settingsVars, SettingsInv, MemInv, FileInv, PageInv, Owed, Readable
<1>2. CASE Reload \/ Restart
  <2>1. Loads /\ TakeLoaded /\ page' = page
    BY <1>2 DEF Reload, Restart
  <2>2. MemInv' /\ FileInv'
    BY <2>1, InstallKeeps DEF SettingsInv
  <2>3. QED
    BY <2>1, <2>2 DEF SettingsInv, PageInv
<1>3. CASE OpenPage
  <2>1. page' = Given(mem) /\ UNCHANGED <<document, mem, saved, tuned, wanted, posted>>
    BY <1>3 DEF OpenPage
  <2>2. PageInv'
    BY <2>1, GivenTypes DEF SettingsInv, MemInv, PageInv
  <2>3. QED
    BY <2>1, <2>2 DEF SettingsInv, MemInv, FileInv, Owed, Readable
<1>4. QED
  BY <1>1, <1>2, <1>3, ReloadFailsKeeps, FormsKeep, ListsKeep, FileStepsKeep DEF SettingsNext

\* Validate's limits hold for the config the server runs on, and the file may as
\* well be any that a user writes (config.go, Validate).
THEOREM LimitsAreKept == SettingsSpec => []LimitsHold
<1>1. SettingsInv => LimitsHold
  BY DEF SettingsInv, MemInv, Limited, LimitsHold
<1>2. QED
  BY <1>1, SettingsInvInit, SettingsInvNext, PTL DEF SettingsSpec

\* Load returns a saved config as it was saved: no default, no migration and no
\* limit of Validate changes it on the way (loader.go, Load; config.go, Validate).
THEOREM SavedConfigsLoad == SettingsSpec => []LoadsAsSaved
<1>1. SettingsInv => LoadsAsSaved
  <2> SUFFICES ASSUME SettingsInv, document = mem PROVE Loads /\ Loaded = mem
    BY DEF LoadsAsSaved
  <2>1. IsConfig(mem) /\ Limited(mem) /\ mem.schema >= Current
    BY DEF SettingsInv, MemInv
  <2>2. Read(document) = mem /\ document \notin {Broken, Missing}
    BY <2>1, ReadOfConfig
  <2>3. mem.interval \in Int /\ MinInterval \in Nat
    BY <2>1, ConfigFields, DefaultIsConfig
  <2>4. ~Refused(mem)
    BY <2>1, <2>3 DEF Refused, Limited
  <2>5. Migrated(mem) = mem
    BY <2>1, MigratedConfig
  <2>6. Validated(mem) = mem
    BY <2>1, <2>4, ValidatedConfig
  <2>7. Loads
    BY <2>2, <2>4 DEF Loads, Readable
  <2>8. Loaded = mem
    BY <2>2, <2>5, <2>6 DEF Loaded
  <2>9. QED
    BY <2>7, <2>8
<1>2. QED
  BY <1>1, SettingsInvInit, SettingsInvNext, PTL DEF SettingsSpec

\* What a user ignores stays ignored over every migration, save and restart, in
\* any spelling (loader.go, mergeUniqueFold; ai_execute.go, removeFold).
THEOREM NamesStayIgnored == SettingsSpec => []IgnoresAreKept
<1>1. SettingsInv => IgnoresAreKept
  BY DEF SettingsInv, MemInv, IgnoresAreKept
<1>2. QED
  BY <1>1, SettingsInvInit, SettingsInvNext, PTL DEF SettingsSpec

\* A migration resets the tuning of the detectors once, since it stamps the file
\* with its version; what is tuned later stays (loader.go, Load).
THEOREM MigratesOnce == SettingsSpec => []TuningIsKept
<1>1. SettingsInv => TuningIsKept
  BY DEF SettingsInv, MemInv, TuningIsKept
<1>2. QED
  BY <1>1, SettingsInvInit, SettingsInvNext, PTL DEF SettingsSpec

\* Rules that the endpoint has taken, read back in whole seconds, are taken again
\* and do not change (rules.go, rulesToDTO and rulesFromDTO).
THEOREM RulesAreTakenAgain == SettingsSpec => []RulesComeBack
<1>1. SettingsInv => RulesComeBack
  <2>1. Given(mem).rules = RulesToDTO(mem.rules)
    BY DEF Given
  <2>2. QED
    BY <2>1 DEF SettingsInv, MemInv, Back, RulesComeBack
<1>2. QED
  BY <1>1, SettingsInvInit, SettingsInvNext, PTL DEF SettingsSpec

=============================================================================
