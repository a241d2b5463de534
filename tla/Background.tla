------------------------------ MODULE Background ------------------------------
(***************************************************************************)
(* The background scheduler of internal/ai/background.go: it starts an AI  *)
(* analysis for a critical alert unless one of its guardrails says no (one *)
(* at a time, back-off after an error, least interval, cycles per hour,    *)
(* tokens per day).                                                        *)
(*                                                                         *)
(* maybeScheduleBackground runs in the goroutines the event emitter starts *)
(* for its listeners.  It reads the config and the time first and takes    *)
(* bgMu afterwards, so handlers decide in any order, each by its own,      *)
(* possibly old, time.  The analysis is a goroutine of its own; its result *)
(* comes from the cache, from the provider, or is an error.                *)
(*                                                                         *)
(* config.Validate keeps MinInterval, CooldownAfterError and               *)
(* MaxCyclesPerHour positive and the day's budget at least one             *)
(* reservation; the limits are constants here, only the switches change.   *)
(***************************************************************************)
EXTENDS Integers, FiniteSets, Sequences

CONSTANTS
  Handlers,            \* the emitter's goroutines that run the listener
  Hour, Day,           \* lengths, in units of the clock
  MinInterval, MaxCyclesPerHour, MaxReservedTokensPerDay, CooldownAfterError,
  MaxTokens,           \* reserved for each analysis
  MaxDelay,            \* bound: from a handler's clock reading to its decision
  MaxTime              \* bound: the clock stops here

ASSUME BackgroundAssumption ==
  /\ Hour \in Nat /\ Day \in Nat \ {0} /\ MaxDelay \in Nat /\ MaxTime \in Nat
  /\ MinInterval \in Nat \ {0}
  /\ MaxCyclesPerHour \in Nat \ {0}
  /\ CooldownAfterError \in Nat \ {0}
  /\ MaxTokens \in Nat \ {0}
  /\ MaxReservedTokensPerDay \in Nat /\ MaxReservedTokensPerDay >= MaxTokens

VARIABLES
  clock,
  enabled,   \* cfg: scheduler, auto-analysis and the advisor all switched on
  handler,   \* each handler: the time it has read, or Idle
  inFlight, lastStartedAt, cooldownUntil, cycleStarts,
  reservedDay, reservedTokensToday,              \* backgroundTracker
  log,       \* every run ever started; its last element is what runs, if any does
  rewound    \* ghost: some handler decided by a time of an earlier day

tracker == <<inFlight, lastStartedAt, cooldownUntil, cycleStarts,
             reservedDay, reservedTokensToday>>
vars == <<clock, enabled, handler, tracker, log, rewound>>

Never == -1
Idle == Never
Outcomes == {"ok", "cached", "error"}
DayOf(t) == t \div Day

\* The goroutines of runBackgroundAnalysis that have not ended.
Running == {i \in DOMAIN log : log[i].outcome = "running"}

-----------------------------------------------------------------------------
(* Mutants of the operations below, used by the sensitivity checks only.   *)

IntervalShort(t) == lastStartedAt # Never => t - lastStartedAt >= MinInterval - 1
BackOffFromStart(i) == log[i].now + CooldownAfterError
RefundErrors(o) ==
  IF o # "ok" /\ reservedTokensToday >= MaxTokens THEN MaxTokens ELSE 0
LandOnSuccess(o) == IF o = "error" THEN inFlight ELSE FALSE

-----------------------------------------------------------------------------
(* maybeScheduleBackground                                                 *)

Init ==
  /\ clock = 0
  /\ enabled \in BOOLEAN
  /\ handler = [h \in Handlers |-> Idle]
  /\ inFlight = FALSE
  /\ lastStartedAt = Never
  /\ cooldownUntil = Never
  /\ cycleStarts = {}
  /\ reservedDay = Never
  /\ reservedTokensToday = 0
  /\ log = <<>>
  /\ rewound = FALSE

\* A critical alert reaches the listener while the scheduler is on; any other
\* alert only changes the skip reason that the UI shows.
Read(h) ==
  /\ handler[h] = Idle
  /\ enabled
  /\ handler' = [handler EXCEPT ![h] = clock]
  /\ UNCHANGED <<clock, enabled, tracker, log, rewound>>

\* trimCycleStarts; the list never holds a time twice, so it is a set here.
RecentStarts(t) == {ts \in cycleStarts : t - ts <= Hour}

\* resetReservedDay: what the day of t has reserved, as far as the tracker knows.
Reserved(t) == IF reservedDay = DayOf(t) THEN reservedTokensToday ELSE 0

\* The guardrails, in the order of the code's switch.
NoneInFlight == ~inFlight
CooledDown(t) == cooldownUntil # Never => t >= cooldownUntil
IntervalPassed(t) == lastStartedAt # Never => t - lastStartedAt >= MinInterval
CyclesLeft(t) == Cardinality(RecentStarts(t)) < MaxCyclesPerHour
BudgetLeft(t) == Reserved(t) + MaxTokens <= MaxReservedTokensPerDay

MayStart(t) ==
  NoneInFlight /\ CooledDown(t) /\ IntervalPassed(t) /\ CyclesLeft(t) /\ BudgetLeft(t)

\* What every decision does first, whatever its result.
Decide(h) ==
  /\ handler[h] # Idle
  /\ handler' = [handler EXCEPT ![h] = Idle]
  /\ reservedDay' = DayOf(handler[h])
  /\ rewound' = (rewound \/ DayOf(handler[h]) < reservedDay)
  /\ UNCHANGED <<clock, enabled, cooldownUntil>>

Skip(h) ==
  LET t == handler[h] IN
  /\ Decide(h)
  /\ ~MayStart(t)
  /\ cycleStarts' = RecentStarts(t)
  /\ reservedTokensToday' = Reserved(t)
  /\ UNCHANGED <<inFlight, lastStartedAt, log>>

Start(h) ==
  LET t == handler[h] IN
  /\ Decide(h)
  /\ MayStart(t)
  /\ inFlight' = TRUE
  /\ lastStartedAt' = t
  /\ cycleStarts' = RecentStarts(t) \cup {t}
  /\ reservedTokensToday' = Reserved(t) + MaxTokens
  /\ log' = Append(log, [now |-> t, at |-> clock, failed |-> Never, outcome |-> "running"])

-----------------------------------------------------------------------------
(* runBackgroundAnalysis                                                   *)

\* The end of the back-off after the error of run i, which ends now.
BackOff(i) == clock + CooldownAfterError

Landed(o) == FALSE

\* A cached answer gives its reservation back.
Refund(o) ==
  IF o = "cached" /\ reservedTokensToday >= MaxTokens THEN MaxTokens ELSE 0

Finish(i, o) ==
  /\ i \in Running
  /\ log' = [log EXCEPT ![i].outcome = o,
                         ![i].failed = IF o = "error" THEN clock ELSE Never]
  /\ inFlight' = Landed(o)
  /\ reservedTokensToday' = reservedTokensToday - Refund(o)
  /\ cooldownUntil' = IF o = "error" THEN BackOff(i) ELSE Never
  /\ UNCHANGED <<clock, enabled, handler, lastStartedAt, cycleStarts, reservedDay, rewound>>

-----------------------------------------------------------------------------
(* The rest                                                                *)

\* Advisor.SetConfig turns the scheduler on or off; handlers that have read the
\* old config go on with it.
SetConfig ==
  /\ enabled' = ~enabled
  /\ UNCHANGED <<clock, handler, tracker, log, rewound>>

Tick ==
  /\ clock < MaxTime
  /\ \A h \in Handlers : handler[h] # Idle => clock - handler[h] < MaxDelay
  /\ clock' = clock + 1
  /\ UNCHANGED <<enabled, handler, tracker, log, rewound>>

FinishSome == \E i \in DOMAIN log, o \in Outcomes : Finish(i, o)

Next ==
  \/ \E h \in Handlers : Read(h) \/ Skip(h) \/ Start(h)
  \/ FinishSome
  \/ SetConfig
  \/ Tick

Spec == Init /\ [][Next]_vars

\* The provider call has a timeout of 45 seconds, so every analysis ends.
FairSpec == Spec /\ WF_vars(FinishSome)

-----------------------------------------------------------------------------
(* Properties                                                              *)

Time == 0..MaxTime

Run == [now : Time, at : Time, failed : Time \cup {Never},
        outcome : Outcomes \cup {"running"}]

\* Types; the tracker's counters stay in their ranges.
TypeOK ==
  /\ clock \in Time
  /\ enabled \in BOOLEAN
  /\ handler \in [Handlers -> Time \cup {Idle}]
  /\ inFlight \in BOOLEAN
  /\ lastStartedAt \in Time \cup {Never}
  /\ cooldownUntil \in Int
  /\ cycleStarts \subseteq Time
  /\ reservedDay \in Int
  /\ reservedTokensToday \in 0..MaxReservedTokensPerDay
  /\ log \in Seq(Run)
  /\ rewound \in BOOLEAN

\* At most one analysis runs, it is the last one started, and inFlight says
\* whether there is one.
SingleFlight == Running = IF inFlight THEN {Len(log)} ELSE {}

\* Successive analyses start MinInterval apart by the times they record, in
\* whatever order the handlers decide.
MinIntervalKept ==
  \A i, j \in DOMAIN log : i < j => log[j].now - log[i].now >= MinInterval

\* After an error no analysis starts, by the clock, before the back-off ends.
ErrorBacksOff ==
  \A i, j \in DOMAIN log :
    i < j /\ log[i].outcome = "error" => log[j].at >= log[i].failed + CooldownAfterError

\* Any hour, less the delay of a handler, sees at most MaxCyclesPerHour starts,
\* although each decision trims the list of starts by a time of its own.
CycleLimit ==
  \A j \in DOMAIN log :
    Cardinality({i \in 1..j : log[j].at - log[i].at <= Hour - MaxDelay}) <= MaxCyclesPerHour

\* The tokens of the analyses charged to a day: a cached one costs nothing.
SpentOn(d) ==
  MaxTokens * Cardinality({i \in DOMAIN log :
                            DayOf(log[i].now) = d /\ log[i].outcome # "cached"})

\* No day's analyses cost more than its budget: refunds go back to the day that
\* paid, and only a decision by a time of an earlier day can break the count.
BudgetUnlessRewound == rewound \/ \A d \in 0..DayOf(MaxTime) : SpentOn(d) <= MaxReservedTokensPerDay

\* max_reserved_tokens_per_day bounds the tokens of a day.
DailyBudget == \A d \in 0..DayOf(MaxTime) : SpentOn(d) <= MaxReservedTokensPerDay

\* An analysis in flight lands, so alerts are not skipped for ever.
FlightEnds == inFlight ~> ~inFlight

=============================================================================
