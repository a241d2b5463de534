----------------------------- MODULE ConfigReload -----------------------------
(***************************************************************************)
(* How a config change reaches the running components: the HTTP handlers   *)
(* that save a changed copy of the server's config and apply it            *)
(* (internal/server, mutateConfig and its twins), the watcher that reloads *)
(* the file (internal/config/watcher.go), applyConfig and the purge of the *)
(* alerts of disabled detectors (cmd/wtm/main.go), and the anomaly engine, *)
(* whose tick works on the config it read when it began.                   *)
(*                                                                         *)
(* No lock covers a save or an applyConfig: every pointer is set in a step *)
(* of its own.  A config is reduced to two switches, one that enables a    *)
(* detector the defaults have on and one that stands for everything else.  *)
(* A file edited by hand may be of an older schema, may fail to parse or   *)
(* to validate, and may be deleted: Load saves the config it makes of an   *)
(* old or a missing file, so the watcher is one more writer.               *)
(***************************************************************************)
EXTENDS Integers, FiniteSets, Sequences

CONSTANTS
  Targets,    \* applyConfig's calls before the purge, in order
  Handlers,   \* HTTP requests that may be under way at the same time
  MaxSaves,   \* bound: writes of the file by requests
  MaxEdits    \* bound: edits of the file by hand

ASSUME ConfigAssumption ==
  /\ Targets \in Seq(STRING)
  /\ \E i \in DOMAIN Targets : Targets[i] = "engine"
  /\ MaxSaves \in Nat
  /\ MaxEdits \in Nat

Components == {Targets[i] : i \in DOMAIN Targets}

Config == [detector : BOOLEAN, other : BOOLEAN]

VARIABLES
  file,      \* config.yaml: its config, form, validity and time of writing
  tmp,       \* config.yaml.tmp, shared by all writers, or NoFile
  writes,    \* writes so far; also the clock of the file times
  saves,     \* writes by requests so far
  edits,     \* edits by hand so far
  srvCfg,    \* Server.cfg
  cfgOf,     \* the config each component runs with
  handler,   \* each request: where it is and the config it installs
  watcher,   \* the watcher: where it is, the config it installs and whether that
             \* validates, the file time it handles, lastMod
  ticking,   \* whether a tick of the engine with the detector on is under way
  alert,     \* whether the detector has an active alert
  overlap,   \* ghost: a file write fell between another writer's write and end
  missed,    \* ghost: the last edit the watcher could see came before it started
  straddled  \* ghost: a purge fell into a tick that still had the detector on

files == <<file, tmp, writes, saves, edits>>
engine == <<ticking, alert>>
ghosts == <<overlap, missed, straddled>>
reloadVars == <<files, srvCfg, cfgOf, handler, watcher, engine, ghosts>>

Flags == [detector |-> TRUE, other |-> TRUE]
NoFile == [cfg |-> Flags, form |-> "missing", valid |-> FALSE, written |-> 0]
Resting == [at |-> "idle", cfg |-> Flags, next |-> 1]

\* The requests between the first write of a save and the end of applyConfig.
Open == {h \in Handlers : handler[h].at \notin {"idle", "changed"}}

\* A writer is under way: a request, or the watcher between write and rename.
Writing == Open # {} \/ watcher.at = "written"

\* What Save writes; the file keeps the time of this write.
Saved(c, v) == [cfg |-> c, form |-> "current", valid |-> v, written |-> writes + 1]

-----------------------------------------------------------------------------
(* Mutants of the operations below, used by the sensitivity checks only.   *)

\* A watcher that takes the file's time when it is done, not when it looked.
HandledLatest == file.written
\* A purge by the config the server has.
OffAtServer(c) == ~srvCfg.detector

-----------------------------------------------------------------------------
(* applyConfig, run by whichever goroutine holds the new config            *)

\* main has loaded the file, which made it current, and made every component
\* with its config; the watcher's goroutine has yet to look at the file.
ReloadInit ==
  /\ file = [cfg |-> Flags, form |-> "current", valid |-> TRUE, written |-> 0]
  /\ srvCfg = Flags
  /\ cfgOf = [x \in Components |-> Flags]
  /\ tmp = NoFile
  /\ writes = 0
  /\ saves = 0
  /\ edits = 0
  /\ handler = [h \in Handlers |-> Resting]
  /\ watcher = [at |-> "starting", cfg |-> Flags, valid |-> TRUE, next |-> 1,
                seen |-> 0, lastMod |-> 0]
  /\ ticking = FALSE
  /\ alert = FALSE
  /\ overlap = FALSE
  /\ missed = FALSE
  /\ straddled = FALSE

Following(i) == i + 1

\* The call on the next component of the list.
Install(p) ==
  /\ p.at = "apply"
  /\ p.next \in DOMAIN Targets
  /\ cfgOf' = [cfgOf EXCEPT ![Targets[p.next]] = p.cfg]

TurnedOff(c) == ~c.detector

\* clearDisabledDetectorAlerts, after the last component.
Purge(p) ==
  /\ p.at = "apply"
  /\ p.next = Len(Targets) + 1
  /\ alert' = (alert /\ ~TurnedOff(p.cfg))
  /\ straddled' = (straddled \/ (~p.cfg.detector /\ ticking))

-----------------------------------------------------------------------------
(* An HTTP request that changes the config                                 *)

Flip(c) == {[c EXCEPT !.detector = ~@], [c EXCEPT !.other = ~@]}

\* mutateConfig clones the server's config under its lock and changes the copy.
Change(h) ==
  /\ handler[h].at = "idle"
  /\ saves < MaxSaves
  /\ \E c \in Flip(srvCfg) :
       handler' = [handler EXCEPT ![h] = [at |-> "changed", cfg |-> c, next |-> 1]]
  /\ UNCHANGED <<files, srvCfg, cfgOf, watcher, engine, ghosts>>

\* Save writes the temporary file ...
WriteTmp(h) ==
  /\ handler[h].at = "changed"
  /\ saves < MaxSaves
  /\ saves' = saves + 1
  /\ writes' = writes + 1
  /\ tmp' = Saved(handler[h].cfg, TRUE)
  /\ overlap' = (overlap \/ Writing)
  /\ handler' = [handler EXCEPT ![h].at = "written"]
  /\ UNCHANGED <<file, edits, srvCfg, cfgOf, watcher, engine, missed, straddled>>

\* ... and renames it, which keeps its time of writing.
Rename(h) ==
  /\ handler[h].at = "written"
  /\ tmp # NoFile
  /\ file' = tmp
  /\ tmp' = NoFile
  /\ handler' = [handler EXCEPT ![h].at = "saved"]
  /\ UNCHANGED <<writes, saves, edits, srvCfg, cfgOf, watcher, engine, ghosts>>

\* The rename fails, for one because another request renamed the shared file;
\* Save removes what is there and the request ends with save_failed.
RenameFails(h) ==
  /\ handler[h].at = "written"
  /\ tmp' = NoFile
  /\ handler' = [handler EXCEPT ![h] = Resting]
  /\ UNCHANGED <<file, writes, saves, edits, srvCfg, cfgOf, watcher, engine, ghosts>>

SetServer(h) ==
  /\ handler[h].at = "saved"
  /\ srvCfg' = handler[h].cfg
  /\ handler' = [handler EXCEPT ![h].at = "apply"]
  /\ UNCHANGED <<files, cfgOf, watcher, engine, ghosts>>

HandlerInstalls(h) ==
  /\ Install(handler[h])
  /\ handler' = [handler EXCEPT ![h].next = Following(@)]
  /\ UNCHANGED <<files, srvCfg, watcher, engine, ghosts>>

HandlerPurges(h) ==
  /\ Purge(handler[h])
  /\ handler' = [handler EXCEPT ![h] = Resting]
  /\ UNCHANGED <<files, srvCfg, cfgOf, watcher, ticking, overlap, missed>>

-----------------------------------------------------------------------------
(* Edits by hand and the watcher                                           *)

Forms == {"current", "old", "missing"}

\* The file may be changed, left in an older schema or in a state that does not
\* load, or deleted.
EditFile ==
  /\ edits < MaxEdits
  /\ edits' = edits + 1
  /\ writes' = writes + 1
  /\ \E c \in Flip(file.cfg), f \in Forms, v \in BOOLEAN :
       file' = [cfg |-> c, form |-> f, valid |-> v, written |-> writes + 1]
  /\ overlap' = (overlap \/ Writing)
  /\ missed' = (missed \/ watcher.at = "starting")
  /\ UNCHANGED <<tmp, saves, srvCfg, cfgOf, handler, watcher, engine, straddled>>

\* Start takes the time the file has when the goroutine comes to run.
WatcherStarts ==
  /\ watcher.at = "starting"
  /\ watcher' = [watcher EXCEPT !.at = "idle", !.lastMod = file.written]
  /\ UNCHANGED <<files, srvCfg, cfgOf, handler, engine, ghosts>>

\* reloadIfChanged: there is a file, and its time is after the last one handled.
Notice ==
  /\ watcher.at = "idle"
  /\ file.form # "missing"
  /\ file.written > watcher.lastMod
  /\ watcher' = [watcher EXCEPT !.at = "debounce", !.seen = file.written]
  /\ missed' = FALSE
  /\ UNCHANGED <<files, srvCfg, cfgOf, handler, engine, overlap, straddled>>

\* The time the watcher notes as handled: the one it saw before the debounce.
Handled == watcher.seen

WatcherRests ==
  [at |-> "idle", cfg |-> Flags, valid |-> TRUE, next |-> 1, seen |-> 0,
   lastMod |-> Handled]

\* What Load saves in place of a missing file, and of one of an older schema,
\* whose anomaly section becomes the default one.
Remade(f) == IF f.form = "missing" THEN Flags ELSE [f.cfg EXCEPT !.detector = TRUE]

\* After the debounce Load takes whatever the file holds by then ...
Load ==
  /\ watcher.at = "debounce"
  /\ watcher' =
       IF file.form # "current"
       THEN [watcher EXCEPT !.at = "migrating", !.cfg = Remade(file),
                            !.valid = (file.form = "missing" \/ file.valid)]
       ELSE IF file.valid
       THEN [watcher EXCEPT !.at = "apply", !.cfg = file.cfg]
       ELSE WatcherRests
  /\ UNCHANGED <<files, srvCfg, cfgOf, handler, engine, ghosts>>

\* ... and what it made of an old or a missing one it saves as a request does,
LoadWrites ==
  /\ watcher.at = "migrating"
  /\ writes' = writes + 1
  /\ tmp' = Saved(watcher.cfg, watcher.valid)
  /\ overlap' = (overlap \/ Writing)
  /\ watcher' = [watcher EXCEPT !.at = "written"]
  /\ UNCHANGED <<file, saves, edits, srvCfg, cfgOf, handler, engine, missed, straddled>>

\* before it validates it.  The time of this save is not the one noted.
LoadRenames ==
  /\ watcher.at = "written"
  /\ tmp # NoFile
  /\ file' = tmp
  /\ tmp' = NoFile
  /\ watcher' = IF watcher.valid THEN [watcher EXCEPT !.at = "apply"] ELSE WatcherRests
  /\ UNCHANGED <<writes, saves, edits, srvCfg, cfgOf, handler, engine, ghosts>>

\* A Load that fails to save is not tried again.
LoadFailsToSave ==
  /\ watcher.at = "written"
  /\ tmp' = NoFile
  /\ watcher' = WatcherRests
  /\ UNCHANGED <<file, writes, saves, edits, srvCfg, cfgOf, handler, engine, ghosts>>

WatcherInstalls ==
  /\ Install(watcher)
  /\ watcher' = [watcher EXCEPT !.next = Following(@)]
  /\ UNCHANGED <<files, srvCfg, handler, engine, ghosts>>

WatcherPurges ==
  /\ Purge(watcher)
  /\ watcher' = [watcher EXCEPT !.at = "applied"]
  /\ UNCHANGED <<files, srvCfg, cfgOf, handler, ticking, overlap, missed>>

\* Unlike a handler, the watcher sets the server's config last.
WatcherSetsServer ==
  /\ watcher.at = "applied"
  /\ srvCfg' = watcher.cfg
  /\ watcher' = WatcherRests
  /\ UNCHANGED <<files, cfgOf, handler, engine, ghosts>>

-----------------------------------------------------------------------------
(* The engine                                                              *)

\* analyzeOnce takes the engine's config once for the whole tick.  A tick that
\* has the detector off does nothing to its alert.
StartTick ==
  /\ ~ticking
  /\ cfgOf["engine"].detector
  /\ ticking' = TRUE
  /\ UNCHANGED <<files, srvCfg, cfgOf, handler, watcher, alert, ghosts>>

\* The detector raises its alert or clears it.
Analyze ==
  /\ ticking
  /\ alert' \in BOOLEAN
  /\ UNCHANGED <<files, srvCfg, cfgOf, handler, watcher, ticking, ghosts>>

FinishTick ==
  /\ ticking
  /\ ticking' = FALSE
  /\ UNCHANGED <<files, srvCfg, cfgOf, handler, watcher, alert, ghosts>>

-----------------------------------------------------------------------------

ReloadNext ==
  \/ \E h \in Handlers :
       \/ Change(h) \/ WriteTmp(h) \/ Rename(h) \/ RenameFails(h)
       \/ SetServer(h) \/ HandlerInstalls(h) \/ HandlerPurges(h)
  \/ EditFile
  \/ WatcherStarts \/ Notice
  \/ Load \/ LoadWrites \/ LoadRenames \/ LoadFailsToSave
  \/ WatcherInstalls \/ WatcherPurges \/ WatcherSetsServer
  \/ StartTick \/ Analyze \/ FinishTick

ReloadSpec == ReloadInit /\ [][ReloadNext]_reloadVars

-----------------------------------------------------------------------------
(* Properties                                                              *)

Places == {"starting", "idle", "changed", "debounce", "migrating", "written", "saved",
           "apply", "applied"}

\* Types; a fan-out never runs past the purge.
ReloadTypeOK ==
  /\ {file, tmp} \subseteq [cfg : Config, form : Forms, valid : BOOLEAN, written : Nat]
  /\ writes \in Nat
  /\ saves \in 0..MaxSaves
  /\ edits \in 0..MaxEdits
  /\ srvCfg \in Config
  /\ cfgOf \in [Components -> Config]
  /\ handler \in [Handlers -> [at : Places, cfg : Config, next : 1..(Len(Targets) + 1)]]
  /\ watcher \in [at : Places, cfg : Config, valid : BOOLEAN,
                  next : 1..(Len(Targets) + 1), seen : Nat, lastMod : Nat]
  /\ ticking \in BOOLEAN
  /\ alert \in BOOLEAN
  /\ overlap \in BOOLEAN
  /\ missed \in BOOLEAN
  /\ straddled \in BOOLEAN

\* No request is under way and the watcher has nothing to handle.
Quiet ==
  /\ \A h \in Handlers : handler[h].at \in {"idle", "changed"}
  /\ watcher.at = "idle"
  /\ file.form = "missing" \/ file.written <= watcher.lastMod

InForce ==
  file.form = "current" /\ file.valid =>
    srvCfg = file.cfg /\ \A x \in Components : cfgOf[x] = file.cfg

\* When everything is quiet, the server and all components run the config of
\* the file, unless a write of the file fell into another save of it, or the
\* file was edited before the watcher started and it has noticed nothing since.
QuietAgrees == Quiet /\ ~overlap /\ ~missed => InForce

\* The alert of a detector that is off goes with the config that turned it off,
\* unless the purge fell into a tick that had the detector on.
AlertsOfDisabledGo ==
  Quiet /\ ~ticking /\ alert => (cfgOf["engine"].detector \/ straddled)

\* "hot-reloads config changes through the native watcher and applies them live":
\* what runs, once everything is quiet, is what the file says.
AppliedLive == Quiet => InForce

\* "Purge active alerts whose detector is now disabled - otherwise the UI keeps
\* showing stale entries that will never refresh or clear".
NoStaleAlerts == Quiet /\ ~ticking /\ alert => cfgOf["engine"].detector

=============================================================================
