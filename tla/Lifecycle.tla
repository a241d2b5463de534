-------------------------------- MODULE Lifecycle --------------------------------
(***************************************************************************)
(* cmd/wtm/main.go from the single-instance guard to the end of the        *)
(* process, with the thread of the tray (internal/tray), the goroutine of  *)
(* the HTTP server and the desktop window (internal/desktop), and, while   *)
(* the process runs, the events of Delivery.                               *)
(*                                                                         *)
(* desktop: the window is to be shown, so main works for the window and    *)
(* neither waits for signals nor for the server.  External: Windows, the   *)
(* user, and WebView2.                                                     *)
(***************************************************************************)
EXTENDS Delivery

CONSTANTS
  Scenes   \* bound: flags, events, whether the user ends it and anything may go wrong

ASSUME LifecycleAssumption ==
  \A s \in Scenes : /\ {s.tray, s.desktop, s.trouble, s.stops, s.streams} \subseteq BOOLEAN
                    /\ s.events \in 0..MaxEvents /\ s.time \in Nat

VARIABLES
  scene,
  main,      \* where main is
  orderly,   \* ghost: main ended by its shutdown sequence, or without a start
  cancelled, \* rootCtx
  server,    \* the HTTP server
  thread,    \* the goroutine of Tray.Run
  hwnd,      \* Tray.hwnd is set
  icon,      \* the icon is in the notification area
  quit       \* WM_QUIT is in the queue of the tray's thread

lifeVars == <<scene, main, orderly, cancelled, server, thread, hwnd, icon, quit>>
vars == <<lifeVars, clock, deliveryVars>>

Running == main \notin {"guard", "wiring", "ended"}

-----------------------------------------------------------------------------
(* Mutants of the operations below, used by the sensitivity checks only.   *)

\* A main that does not wait for the tray.
NoWait == TRUE
\* A "Quit" that leaves the server as it is.
LeftListening == server

-----------------------------------------------------------------------------
(* Start                                                                   *)

\* AcquireSingleInstance; a second process shows the first one and ends.
Guard ==
  /\ main = "guard"
  /\ \/ main' = "wiring" /\ UNCHANGED orderly
     \/ main' = "ended" /\ orderly' = TRUE
  /\ UNCHANGED <<scene, cancelled, server, thread, hwnd, icon, quit, clock, deliveryVars>>

\* The loops, the server and the tray are started, each in its own goroutine.
StartAll ==
  /\ main = "wiring"
  /\ main' = IF scene.desktop THEN "opening" ELSE "waiting"
  /\ server' = "starting"
  /\ thread' = IF scene.tray THEN "starting" ELSE "none"
  /\ UNCHANGED <<scene, orderly, cancelled, hwnd, icon, quit, clock, deliveryVars>>

\* Server.Start listens, or fails when the port is taken.
Listen ==
  /\ server = "starting"
  /\ server' \in {"listening"} \cup (IF scene.trouble THEN {"failed"} ELSE {})
  /\ UNCHANGED <<scene, main, orderly, cancelled, thread, hwnd, icon, quit, clock, deliveryVars>>

-----------------------------------------------------------------------------
(* Tray                                                                    *)

TrayStep ==
  /\ UNCHANGED <<scene, main, orderly, clock>>
  /\ UNCHANGED <<events, telling, jobs, clients, lastBalloon, notes, balloons>>

\* create: the window; when it fails Run returns.
CreateWindow ==
  /\ thread = "starting"
  /\ \/ thread' = "created" /\ hwnd' = TRUE
     \/ scene.trouble /\ thread' = "done" /\ UNCHANGED hwnd
  /\ TrayStep
  /\ UNCHANGED <<cancelled, server, icon, quit, typedOn>>

\* The icon; without it Run returns too, and the window stays.
AddIcon ==
  /\ thread = "created"
  /\ \/ thread' = "looping" /\ icon' = TRUE /\ On("tray")
     \/ scene.trouble /\ thread' = "done" /\ UNCHANGED <<icon, typedOn>>
  /\ TrayStep
  /\ UNCHANGED <<cancelled, server, hwnd, quit>>

\* Server.Shutdown: one that does not listen yet knows of nothing.
Closed == IF server = "listening" THEN "closed" ELSE server

\* "Quit" of the menu: quit calls onQuit, which cancels the context and shuts
\* the server down.  The menu is slower than the goroutine of the server.
MenuQuit ==
  /\ scene.stops
  /\ thread = "looping" /\ server # "starting"
  /\ cancelled' = TRUE
  /\ server' = Closed
  /\ thread' = "quitting"
  /\ TrayStep
  /\ UNCHANGED <<hwnd, icon, quit, typedOn>>

\* The message loop ends and destroy takes the icon away.
Destroy ==
  /\ thread = "quitting" \/ (thread = "looping" /\ quit)
  /\ thread' = "done"
  /\ hwnd' = FALSE
  /\ icon' = FALSE
  /\ TrayStep
  /\ UNCHANGED <<cancelled, server, quit, typedOn>>

-----------------------------------------------------------------------------
(* Window                                                                  *)

MainStep == UNCHANGED <<scene, clock, deliveryVars>>

\* desktop.New; without WebView2 main opens a browser and comes to its end.
OpenWindow ==
  /\ main = "opening"
  /\ \/ main' = "window"
     \/ scene.trouble /\ main' = "ended"
  /\ MainStep
  /\ UNCHANGED <<orderly, cancelled, server, thread, hwnd, icon, quit>>

\* The close button of the page calls doShutdown.
CloseWindow ==
  /\ main = "window"
  /\ main' = "stopping"
  /\ MainStep
  /\ UNCHANGED <<orderly, cancelled, server, thread, hwnd, icon, quit>>

\* The system closes the window, or a signal comes that nobody waits for.
LoseWindow ==
  /\ scene.trouble
  /\ main \in {"opening", "window"}
  /\ main' = "ended"
  /\ MainStep
  /\ UNCHANGED <<orderly, cancelled, server, thread, hwnd, icon, quit>>

-----------------------------------------------------------------------------
(* Shutdown                                                                *)

Signal ==
  /\ scene.stops
  /\ main = "waiting"
  /\ main' = "stopping"
  /\ MainStep
  /\ UNCHANGED <<orderly, cancelled, server, thread, hwnd, icon, quit>>

\* srvErr: the server could not start, or was shut down by the tray.
ServerEnds ==
  /\ main = "waiting" /\ server \in {"failed", "closed"}
  /\ main' = "stopping"
  /\ MainStep
  /\ UNCHANGED <<orderly, cancelled, server, thread, hwnd, icon, quit>>

\* Stop posts to the tray's window, if it has one yet.
PostQuit == quit' = (quit \/ hwnd)

\* doShutdown: the context, the tray ...
StopTray ==
  /\ main = "stopping"
  /\ cancelled' = TRUE
  /\ IF scene.tray THEN PostQuit ELSE UNCHANGED quit
  /\ main' = "shutting"
  /\ MainStep
  /\ UNCHANGED <<orderly, server, thread, hwnd, icon>>

\* ... the server, for five seconds at most ...
Shutdown ==
  /\ main = "shutting"
  /\ server' = Closed
  /\ main' = "joining"
  /\ MainStep
  /\ UNCHANGED <<orderly, cancelled, thread, hwnd, icon, quit>>

TrayIsOver == thread \in {"none", "done"}

\* ... and the thread of the tray.
Join ==
  /\ main = "joining"
  /\ TrayIsOver
  /\ main' = "ended"
  /\ orderly' = TRUE
  /\ MainStep
  /\ UNCHANGED <<cancelled, server, thread, hwnd, icon, quit>>

-----------------------------------------------------------------------------

Init ==
  /\ DeliveryInit
  /\ scene \in Scenes
  /\ main = "guard"
  /\ orderly = FALSE
  /\ cancelled = FALSE
  /\ server = "none"
  /\ thread = "none"
  /\ hwnd = FALSE /\ icon = FALSE /\ quit = FALSE

MainNext ==
  Guard \/ StartAll \/ OpenWindow \/ StopTray \/ Shutdown \/ Join

Others == CreateWindow \/ AddIcon \/ Destroy \/ Listen

\* A process that has ended does nothing more.
Next ==
  \/ MainNext
  \/ CloseWindow \/ LoseWindow \/ Signal \/ ServerEnds
  \/ main # "ended" /\ (Others \/ MenuQuit)
  \/ /\ Running /\ Deliver
     /\ Len(events') <= scene.events
     /\ UNCHANGED lifeVars
  \/ Running /\ server = "listening" /\ scene.streams /\ Streams /\ UNCHANGED lifeVars
  \/ /\ Running /\ clock < scene.time
     /\ clock' = clock + 1
     /\ UNCHANGED <<lifeVars, deliveryVars>>

\* Goroutines and threads run on; the user, signals and handlers need not.
Fairness ==
  /\ WF_vars(MainNext)
  /\ WF_vars(ServerEnds)
  /\ WF_vars(main # "ended" /\ Others)
  /\ \A g \in Emitters : WF_vars(Running /\ Dispatch(g) /\ UNCHANGED lifeVars)

Spec == Init /\ [][Next]_vars

FairSpec == Spec /\ Fairness

-----------------------------------------------------------------------------
(* Properties                                                              *)

TypeOK ==
  /\ DeliveryTypeOK
  /\ main \in {"guard", "wiring", "opening", "window", "waiting", "stopping",
               "shutting", "joining", "ended"}
  /\ server \in {"none", "starting", "listening", "failed", "closed"}
  /\ thread \in {"none", "starting", "created", "looping", "quitting", "done"}
  /\ {orderly, cancelled, hwnd, icon, quit} \subseteq BOOLEAN

\* A process that ends by its shutdown sequence leaves no icon behind, whoever
\* asked for the end and however far the start of the tray had come.
EndsClean == main = "ended" /\ orderly => ~icon

\* However many of them are stuck, listeners never hold up who emits.
EmitNeverBlocks ==
  \A g \in Emitters : telling[g] # <<>> ~> telling[g] = <<>> \/ main = "ended"

\* Only the tray that has its window can be stopped; a shutdown that comes
\* after it always ends the process.
StopEnds == main = "stopping" /\ (hwnd \/ TrayIsOver) ~> main = "ended"

\* Without a window, "Quit" of the tray ends the whole process.
QuitEnds == thread = "quitting" /\ ~scene.desktop ~> main = "ended"

\* A tray told to stop by the shutdown sequence always comes to its end.
ShutdownEnds == main = "stopping" ~> main = "ended"

\* While the user has not ended it, a process whose window cannot be opened
\* goes on for the browser.
FallsBack == [][main = "opening" /\ main' = "ended" => ~(server = "listening")]_vars

=============================================================================
