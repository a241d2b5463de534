# WindowsTaskManager in TLA+

WindowsTaskManager (WTM) is one Go process on Windows: it samples the machine,
detects anomalies, acts on processes for users and for rules, talks to an AI
provider and to Telegram, and serves a dashboard over HTTP. Its goroutines
share a handful of structures, each with a lock of its own, and many steps that
belong together take several locks one after the other. That is what these
modules are about. Paths below are relative to `src/`.

## The system

| Part | Code | State it keeps | Who calls it |
|---|---|---|---|
| Collector | `internal/collector` | three loops, the snapshot under construction | timers |
| Store | `internal/storage`, `internal/stats` | latest snapshot, rings of history by pid | collector writes, everyone reads |
| Anomaly engine | `internal/anomaly/engine.go` | detectors, config, actuator | a timer |
| Detectors | `internal/anomaly/*.go` | maps by pid | the engine, one after the other |
| User rules | `internal/anomaly/rules.go` | a state for each rule and process | the engine; calls the controller |
| Alert store | `internal/anomaly/alert.go` | active set, history ring, snoozes, cap | detectors, HTTP, Telegram, main |
| Event emitter, SSE | `internal/event`, `internal/server/sse.go` | subscribers, 64 slots; client channels | everyone emits |
| Controller, safety | `internal/controller` | job objects by pid, the config | HTTP, rules, Telegram, AI |
| AI advisor | `internal/ai/advisor.go`, `cache.go`, `ratelimit.go` | config, cache, token bucket, chat | HTTP, Telegram, scheduler |
| Background scheduler | `internal/ai/background.go` | guardrail counters, run history | the emitter's goroutines |
| AI suggestions | `internal/server/ai_execute.go` | suggestions issued and not yet used | HTTP |
| Telegram bot | `internal/telegram/bot.go` | update offset, pending confirmations | its own loop, the emitter |
| Config | `internal/config` | the file, the file time handled | watcher, HTTP handlers |
| HTTP server | `internal/server` | its config, the parts above | net/http goroutines |
| Tray, window, main | `internal/tray`, `internal/desktop`, `cmd/wtm` | window handles, shutdown | Win32 messages, signals |
| Dashboard | `frontend` | view state | the browser |

A snapshot goes from the collector to the store, from there to the engine's
tick, the controller and the bot, and is old by the time it is used. A raised
alert goes from a detector through the alert store to the emitter, which starts
a goroutine for each listener: the tray, SSE, the bot, the scheduler. A new
config goes from an HTTP handler or the watcher through `applyConfig` in `main`
to every part, one pointer at a time. An action on a process comes from HTTP, a
rule, a confirmed Telegram command or an approved suggestion, and always ends in
the controller.

What is hard there: decisions taken by a time, a config or a snapshot read
earlier (scheduler, tick, controller); steps of a save and of a reload that
interleave; pids that are reused; a state machine per process whose states must
come and go with the processes; bounded rings, caps and channels; actions that
fail half-way; confirmations racing their expiry. `PROJECT.json` lists these
under `hazards`, each at its line, with the properties that watch it.

## The models

| Module | Models | Code |
|---|---|---|
| `AlertStore` | the alert store and the two helpers through which detectors use it, with the HTTP handlers and `applyConfig` as its other callers | `anomaly/alert.go`, `engine.go:158-171`, `handlers.go`, `main.go` |
| `RulesDetector` | the user rules over whole ticks; it holds an `AlertStore` instance and takes its actions | `anomaly/rules.go`, `engine.go:107-132` |
| `Detectors` | the eight built-in detectors of a tick, their maps by pid, configs and dismissals in between | `anomaly/*.go` |
| `Background` | the background scheduler and the analyses it starts | `ai/background.go` |
| `ConfigReload` | save, fan-out, file watcher, purge and the engine's tick, every pointer a step of its own | `config/loader.go`, `watcher.go`, `server/ai_execute.go:378-403`, `main.go` |
| `Settings` | the values of a config on their way between file, server and settings page: defaults, migration, validation, masks, the update endpoints | `config/*.go`, `server/ai_config.go`, `config_api.go`, `rules.go`, `telegram_config.go` |
| `Controller` | kill, kill tree, suspend, resume, priority, affinity and job limits, over a machine whose pids are reused | `controller/*.go` |
| `Approval` | abstract: an offer made once, to one owner, for a limited time, used at most once | |
| `TelegramBot` | the bot's polling loop and its table of confirmation codes; implements `Approval` | `telegram/bot.go` |
| `Suggestions` | the advisor's cache, token bucket and chat history, the suggestions issued and executed, and the config they change; implements `Approval` | `ai/advisor.go`, `cache.go`, `ratelimit.go`, `server/ai_execute.go` |
| `Ring` | the ring buffer, as operators | `stats/ringbuf.go` |
| `Readings` | what one sample reads: processes and their CPU, adapters, performance queries, from counters of a system that goes on | `collector/process.go`, `network.go`, `disk.go`, `gpu.go` |
| `Collector` | extends `Readings`: the three loops, the store with the history by pid, the process tree, the port bindings | `collector/manager.go`, `tree.go`, `ports.go`, `storage/store.go` |
| `Delivery` | the emitter with its slots and those who listen: SSE clients, advisor, bot, balloons of the tray | `event/emitter.go`, `server/sse.go`, `tray/tray.go` |
| `Lifecycle` | extends `Delivery`: from the single-instance guard to the end of the process, with tray, window and HTTP server | `cmd/wtm/main.go`, `tray/tray.go`, `desktop/window.go` |
| `*Proofs` | theorems about the module they extend: `AlertStore`, `RulesDetector` (`RulesProofs`), `Detectors`, `Background`, `Controller`, `TelegramBot`, `Collector`, `Lifecycle`; `BackgroundProofs` also has those about `Suggestions`, `LifecycleProofs` those about `ConfigReload` and `Settings` | |
| `MC*` | constants for TLC | |

How state corresponds:

- `AlertStore.active`, `history`, `snoozed`, `maxActive`, `nextID` are the fields
  of the struct, a map entry that does not exist being `NotActive` or 0. An
  expired snooze is still an entry of the map, as in the code, until `Raise`
  drops it. `RulesDetector.states` is the detector's map; `tick` holds what
  `analyzeOnce` captured and what is left of the loops.
- `Detectors` has one map for each detector that keeps one. No other goroutine
  touches these maps and an `Analyze` visits each alert key once, so a whole
  `Analyze` is one action. Of the store only the active set is kept; a snooze or
  the cap is a raise turned down. What a detector works out from readings
  (regression, connection counts, the age of a socket) is left open.
- `Background` has the fields of `backgroundTracker` under their names; a handler
  that has read the time and not yet got `bgMu` holds that time in `handler`.
- `ConfigReload.cfgOf` is the config pointer of each part, in the order in which
  `applyConfig` sets them. In `Settings` requests and reloads are single steps;
  there is one field for each treatment a field gets, `mem` is the server's
  config, `document` the file, `page` what the settings page was given last.
- `Controller.snap` is `Store.Latest`, `os` the machine.
- `TelegramBot` has `offset`, `lastToken` and `pending` under their names; `loop`
  holds the config that the loop took before the poll, and the part of the batch
  still to handle. A batch is the updates of one bot between two numbers, as an
  update id is its place among the messages sent to that bot. Confirmation codes
  are 40 random bits and taken to differ. A command that changes a process is
  `kill` (asks, if the config says so) or `force` (never asks: `/taskkill /F` and
  `/resume`); what the controller then does is in `Controller`. Telegram's side,
  which forgets the updates below the offset it is asked for, is external.
- `Suggestions.reqs` is what each `net/http` goroutine is at: waiting for the
  provider, or holding a clone of the config that it will put in place. `items`
  is the table of suggestions, `bucket` the token bucket with its whole tokens,
  `turns` the chat history. Two suggestions may have the same id, as
  `hashSuggestion` makes it of part of the content.
- `Readings.prev` and `netPrev` are the counters kept from an earlier sample;
  `Collector.fast`, `tree` and `ports` are what each loop holds between its read
  of the store and its write, so an update by another loop falls in between.
- `Delivery.telling` is what an emitter has yet to dispatch, `jobs` the handlers
  that hold a slot. `Lifecycle.main`, `thread` and `server` are where `main`, the
  tray's thread and the server's goroutine are; `quit` is a `WM_QUIT` in the
  queue of the tray's thread.

Operations under one mutex are one action; between two critical sections, and
between a read of a shared pointer and its use, other actions take steps.

Ghost variables, marked as such where they are declared, record what the code
does not: the ticks a rule has held (`streak`) or a detector has looked
(`seenSince`, `onSince`, `broke`, `found`, `told`), past actions, runs and calls
(`lastDone`, `log`, `calls`), clock disorder (`rewound`), overlapping saves
(`overlap`), a purge inside a tick (`straddled`), processes whose threads a
failed or overlapping call touched (`torn`), the identity of a process (`id`),
what ran for an offer (`usedBy`, `ran`), the updates handled ever (`seen`) and
since the offset was reset (`done`), what a process has used and an adapter has
moved since it was read (`spent`, `moved`), all samples of a pid (`log` in
`Collector`), the balloons (`notes`, `balloons`), an orderly end (`orderly`), and
what the user wrote (`tuned`, `wanted`, `posted`).

## What the runs check

`TypeOK` of each module describes its state. Where a theorem or a run of a
stronger property says as much, it is in no run; it may be added to any cfg.

Runs that pass:

- `alerts` (`MCAlertStore.cfg`): three alert types of one process, so three
  keys, a ring of two entries and three raises, so the ring overflows, a cap
  that moves between none, one and two, and two ticks of the clock, so snoozes
  expire and are renewed. Nothing active is snoozed, a running snooze silences
  its key, the ring holds the entries of the active alerts.
- `rules` (`MCRulesDetector.cfg`): a rule that kills after a wait of one, with a
  cooldown of two, and one that suspends at once, with a cooldown of three, and
  room for one active alert; dismissals come between any two steps. A rule acts
  only after its wait, two actions in one streak are a cooldown apart even when
  attempts fail in between, a pair below the threshold ends the tick without
  alert, states do not pile up.
- `detectors` (`MCDetectors.cfg`): three pids, of which one is used twice, four
  ticks and two new configs, so a detector goes off and on again; durations of
  two and three, a storm of two children in a window of two. Each scene has the
  detectors that share a hazard, as no two of them share a map. A report means
  that the process was so for the whole duration at every tick that looked;
  storms are of children that came into the snapshots within the window; a calm
  process has no alert; nobody is told of a process twice while the snapshots have
  it.
- `background` (`MCBackground.cfg`): two handlers, seven clock values over two
  days of four and hours of two, a budget for two analyses and half of a third.
  Interval, back-off and, as long as no handler decides by a time of an earlier
  day, the budget; every analysis ends.
- `config` (`MCConfigReload.cfg`): two requests and one edit by hand (to a file
  that is valid or not, of an older schema, or deleted) against the watcher, which
  starts, reloads and saves what it migrated, and the engine; the engine and one
  more component follow the config. When all is quiet every part runs the config
  of the file, unless a write of the file fell into another save of it or an edit
  came before the watcher; no alert of a disabled detector stays, unless a tick
  straddled the purge.
- `settings` (`MCSettings.cfg`): seven files (two older schemas, values below
  the limits, rules no page would accept, one that does not parse, one that
  Validate refuses after its migration, none) and four edits, so a file, a form
  that saves what the page shows, and a reload or restart follow each other in
  any order. What is saved loads as it was; what the user ignores survives
  migrations; what the user tunes after one stays; rules once accepted can be
  saved again as the page shows them, unless a cooldown wraps around (the longest
  `Duration` is just under 8 seconds here, so that one does).
- `controller` (`MCController.cfg`): three kinds of scene, drawn at the start. In
  the first, one request kills processes and trees, or limits, tunes and kills,
  among two processes that are critical or under the system's directory, on two
  pids, of which one may have a second holder. In the second it kills trees of
  three plain processes on three pids, enough for a child of a child and for a
  reused pid; that others kill meanwhile is an exit like any other. In the third,
  a request that suspends and one that suspends and resumes meet in a process or
  in WTM, whose two thread ids pass from one thread to the next, while lists break
  off. Samples come at any time and may lack a process or not have read it, and
  any call may fail. No request is cleared to open WTM, or a critical process,
  unless the pid changed hands since the sample or the sample could not read the
  flag; a tree kill without an error leaves nothing of what it listed; a process
  that was resumed as often as it was suspended runs; job handles do not leak.
- `telegram` (`MCTelegramBot.cfg`): two chats and two bots, three messages, two
  codes; a config with a short life of codes, one that asks for no confirmation,
  one with the other bot and one with Telegram off; two new configs or restarts
  and two ticks, enough for a question, its `/confirm` and its redelivery to a
  bot that has forgotten its offset. No update is lost; between two resets each
  is handled at most once and in order; the table implements `Approval`.
- `suggestions` (`MCSuggestions.cfg`): two requests in four scenes: calls and
  changes of the limit over two minutes; four exchanges of overlapping chats with a
  history of two, so the older ones are dropped and the order of those kept shows;
  answers of which two, or two suggestions of one, have the same id and another
  content, taken up while they are good and after, two issues in all; a rule and a
  name added while the user switches that name. No minute sees more than twice the
  limit, the chat history is the latest exchanges in order, and the table implements
  `Approval`.
- `collector` (`MCCollector.cfg`): seven scenes of two pids, an adapter and two
  queries; rings of two samples, four samples of a pid, pruning after two units.
  Rings read back as the last samples in order; shares and rates are of what was
  really used or moved since, if the last sample read the process or adapter
  too; no query leaks; the tree hides nobody whose start is known.
- `lifecycle` (`MCLifecycle.cfg`): every start with and without tray and window,
  where any part may fail and the end may come from a signal, the window, the
  menu or the server; two alerts that meet two slots and a browser, and two that
  meet in the tray. Balloons are spaced but for alerts that meet in the handler,
  no icon stays, stuck listeners never hold up an emitter, "Quit" ends a process
  without a window.

One run shows a property violated, with its finding in `PROJECT.json`, which quotes
the sentence the property states:

- `controller_tree` (`MCControllerTree.cfg`): reused pids close a cycle of parents,
  and the walk of a tree kill does not end (`TreeEnds`).

The bounds are enough in this sense: the passing runs reach every action between
them, and for each property a mutated definition (`mutants` in `PROJECT.json`,
written beside the definitions they replace) makes the run fail.

Deadlock is checked except in runs where the system may stop: `config`, when the
bounded edits and requests are used up and the detector is off; `telegram`, where
the bot sleeps for ever once the last config switches it off; and `lifecycle`,
where the process ends.

Fairness: `Background` assumes that an analysis under way ends
(`WF(FinishSome)`), as the provider call has a context with a timeout of 45
seconds and the goroutine always reaches its end; `Controller` assumes in
`FairSpec` that the goroutine of a request keeps running while it walks a tree.
`Lifecycle` assumes in `FairSpec` that goroutines and threads that can take a
step do: `main`, the server's, the tray's, and each emitter's dispatch. Users,
signals, failures and the handlers of listeners need not ever act, so a listener
may be stuck for good.

### Stated, not promised

Some definitions say more than the code keeps. They stay beside the properties
that hold, so that the difference is on record, and TLC refutes them. Seven state
what a sentence of the repository says, or can be read to say, and have a cfg of
their own:

- `CriticalNeverHit` (`Controller`, `MCControllerCritical.cfg`): "WTM protects
  critical processes and its own PID automatically"
  (`frontend/src/pages/processes-page.tsx:357`). A process that denied the query,
  or whose flag could not be read, is listed as not critical
  (`collector/process.go:123`, `:204`), and the safety check clears a kill of it;
  so it does when the pid has passed to a critical process since the sample.
  Whether the system then grants the open is outside the model.
- `PausesEveryThread` (`Controller`, `MCControllerSuspend.cfg`): "Suspend pauses
  every thread in a process" (`controller/controller.go:149`). A thread that a not
  yet suspended one starts meanwhile is not on the list and runs on, while the
  suspend reports success.
- `AlertedOnce` (`Detectors`, `MCDetectorsTold.cfg`): "Each PID alerts at most
  once" (`anomaly/new_process.go:11`). A process that one snapshot lacks is told of
  again with the next one.
- `StormsAreStorms` (`Detectors`, `MCDetectorsStorms.cfg`): "SpawnStormDetector
  flags processes spawning excessive children rapidly"
  (`anomaly/spawn_storm.go:55`). Children that one snapshot lacks count as new
  with the next one, and so do those that came while the detector was off.
- `EachRuleWaits` (`RulesDetector`, `MCRulesDetectorTwins.cfg`): "ruleState tracks
  how long a (rule, pid) pair has been matching" (`anomaly/rules.go:14`). Two rules
  of a file may have the same name, as `Validate` does not refuse it, and one acts
  on the wait of the other.
- `CooldownRespected` (`RulesDetector`, `MCRulesDetectorFlapping.cfg`): "Each
  (rule,pid) respects a cooldown so a flapping process" is not "killed in a loop"
  (`anomaly/rules.go:23`). One tick below the threshold forgets the cooldown.
- `AppliedLive` (`ConfigReload`, `MCConfigReloadLive.cfg`): "WTM hot-reloads config
  changes through the native watcher and applies them live" (`README.md:158`). An
  edit between `main`'s `Load` and the start of the watcher is never applied;
  overlapping requests violate it as well.

The others can be put into the cfg of the run they belong to:

- `SatisfiedThroughout` (`RulesDetector`): an empty rule list freezes the waits of
  the rules it dropped.
- `SustainedAlways` (`Detectors`): a detector that is switched off and on, or that
  passes over a process for a while, goes on with the state it had.
- `DailyBudget` (`Background`): around midnight a late handler sets the day back,
  and the reservation of the day is forgotten.
- `NoStaleAlerts` (`ConfigReload`): a tick raises an alert after its detector was
  purged.
- `TreeIsCarried` (`Collector`): a sample that read the snapshot before the tree
  loop wrote into it drops that tree until the loop's next turn.
- `SecretsAreReal` (`Settings`): the page shows sensitive headers masked and
  posts them back with the form (`server/ai_config.go:203-205`), so a mask is
  stored as the value of the header; the settings page empties the fields of the
  key and the token, but the server takes whatever is not empty, so a client that
  posts back what it was given stores their masks too.
- `ShutdownEnds` (`Lifecycle`): a shutdown that comes before the tray has its
  window is not noticed by the tray, and `main` waits for it. `FallsBack`: a
  window that cannot be opened ends the process instead of leaving the server.

`HistoryIsLatest`, `SingleFlight`, `CycleLimit`, `VisitsOnce`, `RuleNamesDiffer`
and `LimitsHold` are proved and in no run; `GrowsBelowCap`, `AnnouncedWhenNew`,
`PruneSparesListed` and `StopEnds` hold in the runs' instances but follow closely
from one guard, so no run spends its time on them.

Seen while modelling, without a property: a refresh that takes an active alert from
warning to critical tells nobody; a process that could not be opened leaves
a baseline of zero, and one with a reused pid is subtracted from its predecessor, so
that its next reading shows up to 100 percent of CPU; the page of rules gives waits
in whole seconds, so one of 1500 ms in the file comes back as one second; a
well-known port removed from the config returns with the next load, as a map is
unmarshalled over the defaults; the hung detector compares bytes of one sample with
those of another as if they were totals.

## What is proved

TLAPS proves the following for all values of the constants that satisfy the
named assumptions of the modules. Every safety property and every refinement that
a run checks is stated by one of the theorems.

Two modules of proofs extend more than one component. Names such as `Init` and
`Next`, which a component would otherwise have in common with another, have the
component's name in `Suggestions`, `ConfigReload`, `Settings` and `Delivery`.

`AlertStoreProofs`, from `StoreAssumption`: `Typing`, `SnoozeExcludesActive`,
`SnoozeIsKept`, `HistoryIsASuffix`, `ActiveAlertsAreRecorded`. Types and the
exclusion of snoozed and active keys are inductive together. The history
property is not inductive alone: the proof adds that entries carry the numbers
`nextID - Len + i` and times up to `now`, and that an active alert's number and
time are those of its entry, in `HistoryInvariant`; a lemma says what
`AppendHistory` does to a full and to a shorter ring.

`RulesProofs`, from `RulesAssumption`: `RulesWait`, `ActionsAreApart`,
`MissesAreCleared`, `StatesDoNotPileUp`, the four properties of the run. One
invariant carries them all. `Tied` says of each pair what the detector remembers
against what happened: the streak began no later than the state's `since`, the
state has the time of the last action if that was in this streak, and outside of
the loops there is a state exactly for the pairs that hold. All of this is of
pairs that are `Alone` with their name; of any key, shared or not, `Held` says
that its state belongs to a pair that hits, or is still to be visited, or waits
for the collection that ends the tick. `Cleared` says that
a pair already visited and found below its threshold has no alert; it needs that
a raise touches its own key only.

`DetectorsProofs`, from `DetectorsAssumption`: `ToldOncePerComing`,
`ReportsHaveLasted`, `CalmHasNoAlert`, `StormChildrenCameIn`. `MetOnce` says that a
process told of since it came in is known for as long as the snapshots have it;
`TimedInv` ties each state's time to the ticks that looked at its process, and the
alerts to the states; `StormInv` ties the recorded children to the ticks at which
they came into the snapshots, from the tick on that found the detector switched on,
and needs that sets of children are finite to compare their numbers.

`BackgroundProofs`, from `BackgroundAssumption`: `Typing`, `OneAtATime`,
`IntervalIsKept`, `BackOffIsKept`. The inductive invariant `GuardInv` adds to
the two properties what ties the tracker to the log (`LastRun`: only the last
element may be under way and `inFlight` says whether it is, `lastStartedAt` is
its time, `cooldownUntil` belongs to it if it failed) and that nothing in the
log or in a handler is later than the clock (`PastOnly`). `BudgetIsKept` needs
that the tracker's count is what the runs charged to its day have reserved, that
the last run's day is the latest, and that no other day was overdrawn
(`Accounts`); a run that turns out to be answered from the cache is taken off both.
`HoursAreLimited` needs that a start is on the list of starts or an hour old for
some decision, and that decisions are at most `MaxDelay` late (`CyclesInv`): so
the runs of an hour less that delay are all on the list the last of them counted.

There too, from `SuggestionsAssumption`: `ProviderIsSpared`, `ChatsStayPaired`,
`SuggestionsAreApproved`, `NoRuleTwice`. `RateInv` bounds, for each call, the calls
since and the tokens left by what the bucket held and what the time since has
refilled, with the division of the code bounded by lemmas of its own; a bucket made
anew by a change of the limit may be full again, which is why a minute sees up to
twice the limit. `TurnsInv` says that the history is even, ends with the last
exchange and goes back from there without a gap, so that dropping what is beyond an
even limit cuts between two exchanges. `SuggestionsAreApproved` maps the offers to
the issues of an id and the open ones to what the table holds and has not expired: a
new analysis withdraws what it replaces, an execution uses what it takes out of the
table before it reads the config, and a sweep changes nothing that is open.
`RulesInv` says that neither the server's config nor the copy that a request holds
names a rule twice.

`ControllerProofs`, from `ControllerAssumption`: `Typing`, `NoHandleLeaks`,
`CriticalIsSpared`, `TreesAreComplete`, `WalksVisitOnce`, `ResumedProcessesRun`.
`TypeInv` adds to the types that a request other than a tree has one target and
lists nothing. `Numbered` says that a process keeps its pid and its number is its
own, so an entry of a snapshot and a process of the same number are of the same
kind: with it, what `Check` found of a pid is still true of the process it found,
but for the flag and the path of one whose entry was not read (`blind`). `TreeInv`
describes the worklist (what has been visited is closed but for the stack, lies
below the root, and comes after its parent) and says where the listed processes that
live may still be; as what is below the root is the smallest closed set, an empty
stack means that all of it has been visited. `HeldInv` bounds, for a process that is
not `torn`, the suspend count of each thread: with the suspends that have the thread
still on their list, and the resumes that are past it, it is no more than the
suspends that listed the process less the resumes that ended, or it is zero. It
needs that the requests among the threads of one process all pull the same way, and
a thread that starts or ends in between counts as not suspended.

`TelegramBotProofs`, from `BotAssumption`: `Typing`, `NoUpdateIsLost`,
`UpdatesKeepTheirOrder`, `ActionsAreApproved`. `Place` ties the offset to what
has been handled: everything before it, and before the update in hand, has been
`seen`, and `done` ends just below it; so the offset the service is given never
passes an update that was not handled. `ActionsAreApproved` maps the offers of
`Approval` to the codes made and the open ones to those that `cleanupPendingLocked`
would keep now: storing makes an offer, a granted `/confirm` uses one, a
`/cancel` or a restart withdraws, a tick ends those whose time is up, and every
other step is a stutter. A cleanup changes nothing that is open, which is why
the code may leave it to the next command.

`CollectorProofs`, from `ReadingsAssumption` and `CollectorAssumption`:
`NoQueryLeaks`, `NobodyIsLost`, `NoReadingIsInvented`, `HistoriesAreLogs`.
`World` has the types of the system and that no process is its own parent. The
tree needs an argument on order: of any set of processes one started first
(well-foundedness of the numbers), and its parent, if listed, cannot be among
them. For the readings, `UsageInv` and `RateInv` say that a baseline is the
counter less what was used since. For the histories, `Holds` says that a ring
has the last entries of a log at the places `Place` computes without a modulus;
`AddHolds` shows that one `Add` keeps that, full or not, and `HeldIsRead` that
`Slice` then is the end of the log.

`LifecycleProofs`, from `LifecycleAssumption` and `DeliveryAssumption`:
`NoIconIsLeft`, because an icon needs the tray's thread and an orderly end waits
for it; and `LateAlertsWait`, where `Spacing` says that the time of the last balloon
is the latest of all that were noted, and that a handler which passed the test
has waited out the limit after each balloon it could see.

There too, from `ConfigAssumption`: `DisabledDetectorsFallSilent`, because
whatever could show an alert of a detector that is off has a purge ahead of it
(`AlertInv`), and `SeparateSavesTakeForce`. `SaveInv` says that, as long as no
write fell into another save, one request at most is under way and brings what it
wrote, that the watcher's own save meets no request, and that the file the watcher
has handled is in force or being installed by the request that wrote it, unless
the watcher missed it, that it is installing the latest one, or has yet to look at
it; so a fan-out of the watcher and one of a request may interleave and still end
in the same config.

And from `SettingsAssumption`: `LimitsAreKept`, `SavedConfigsLoad`,
`NamesStayIgnored`, `MigratesOnce`, `RulesAreTakenAgain`, the last of rules whose
cooldown fits a `Duration`. `SettingsInv` says of the server's config that it is
within the limits, of the current schema and holds what the user is owed (tuning,
ignored names, rules that come back as shown), and of a file that was saved that it
would bring back the same, unless Validate refuses it. A list that the code merges
or filters is what stands at some places of another, in their order (`Picked`);
`PickedIsThere` says, by counting places, that nothing else and nothing less is in
it, and the rest speaks of sets of names.

With TLC stays liveness, as the prover does neither fairness nor ENABLED:
`FlightEnds` of `Background`, `EmitNeverBlocks` and `QuitEnds` of `Lifecycle`, and
`TreeEnds` of `Controller`, which the code does not keep.

## Not modelled

Texts, JSON, layout and Win32 readings; the floating-point statistics
(regression, Welford) and the judgements detectors make with them; the wire
formats of the AI providers; routing, middleware and read-only endpoints; the
dashboard, but for what the settings page shows and posts. The recovery of a
detector that panics and the timers of the loops add no state: a tick, a sample
or a poll may come at any time. When the directory of the config cannot be
watched, the watcher polls instead and takes the file's time once more; that
fallback is left out. `PROJECT.json` gives the reason for each
component.

## Plan

What is left, in order:

1. The type invariants of `RulesDetector` and `Detectors` in full, and
   `AnnouncedWhenNew` and `GrowsBelowCap` of the alert store, as theorems.
2. The detectors' judgements on readings, as far as they are integer arithmetic:
   connection counts and the byte counts of the hung detector.
