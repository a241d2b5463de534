--------------------------- MODULE BackgroundProofs ---------------------------
(***************************************************************************)
(* What the guardrails of internal/ai promise: those of the background     *)
(* scheduler, for every number of handlers, every limit and every delay    *)
(* between a handler's reading of the clock and its decision; and, in the  *)
(* second half, those of the advisor and of the suggestions it leads to,   *)
(* for every set of requests, prompts and suggestions.                     *)
(***************************************************************************)
EXTENDS Background, Suggestions, TLAPS, FiniteSetTheorems

USE BackgroundAssumption DEF Time, Never, Idle

(* A decision leaves the clock and the switches alone, whatever it decides. *)
DecisionEffect(h) ==
  /\ handler[h] \in Time
  /\ handler' \in [Handlers -> Time \cup {Idle}]
  /\ \A g \in Handlers : handler'[g] \in {handler[g], Idle}
  /\ reservedDay' \in Int
  /\ rewound' \in BOOLEAN
  /\ UNCHANGED <<clock, enabled, cooldownUntil>>

LEMMA DecideEffect ==
  ASSUME TypeOK, NEW h \in Handlers, Decide(h)
  PROVE  DecisionEffect(h)
<1>1. handler[h] \in Time
  BY DEF TypeOK, Decide
<1>2. DayOf(handler[h]) \in Int
  BY <1>1 DEF DayOf
<1>3. rewound' \in BOOLEAN
  BY DEF TypeOK, Decide
<1>4. QED
  BY <1>1, <1>2, <1>3 DEF TypeOK, Decide, DecisionEffect

(* What the tracker takes a day to have reserved is within the budget. *)
LEMMA ReservedInRange ==
  ASSUME TypeOK, NEW t PROVE Reserved(t) \in 0..MaxReservedTokensPerDay
BY DEF TypeOK, Reserved

(* A run that starts is appended to the log. *)
NewRun(t) == [now |-> t, at |-> clock, failed |-> Never, outcome |-> "running"]

LEMMA StartLogs ==
  ASSUME TypeOK, NEW h \in Handlers, Start(h)
  PROVE  /\ NewRun(handler[h]) \in Run
         /\ log' \in Seq(Run)
         /\ Len(log') = Len(log) + 1
         /\ \A i \in 1..Len(log) : log'[i] = log[i]
         /\ log'[Len(log) + 1] = NewRun(handler[h])
<1>1. handler[h] \in Time
  BY DecideEffect DEF Start, DecisionEffect
<1>2. NewRun(handler[h]) \in Run
  BY <1>1 DEF TypeOK, NewRun, Run
<1>3. log' = Append(log, NewRun(handler[h])) /\ log \in Seq(Run)
  BY DEF TypeOK, Start, NewRun
<1>4. QED
  BY <1>2, <1>3

(* A run that ends keeps its place in the log and its times. *)
LEMMA FinishLogs ==
  ASSUME TypeOK, NEW i \in DOMAIN log, NEW o \in Outcomes, Finish(i, o)
  PROVE  /\ log' \in Seq(Run)
         /\ Len(log') = Len(log)
         /\ i \in 1..Len(log)
         /\ \A j \in 1..Len(log) :
              /\ log'[j].now = log[j].now
              /\ log'[j].at = log[j].at
              /\ j # i => log'[j] = log[j]
         /\ log'[i].outcome = o
         /\ log'[i].failed = IF o = "error" THEN clock ELSE Never
<1> DEFINE f == IF o = "error" THEN clock ELSE Never
           r == [log[i] EXCEPT !.outcome = o, !.failed = f]
<1>1. log \in Seq(Run) /\ i \in 1..Len(log) /\ clock \in Time
  BY DEF TypeOK
<1>2. log[i] \in Run
  BY <1>1
<1>3. r \in Run /\ r.outcome = o /\ r.failed = f /\ r.now = log[i].now /\ r.at = log[i].at
  BY <1>1, <1>2 DEF Run
<1>4. log' = [log EXCEPT ![i] = r]
  BY <1>1, <1>2 DEF Finish, Run
<1> HIDE DEF r
<1>5. log' \in Seq(Run) /\ Len(log') = Len(log)
  BY <1>1, <1>3, <1>4
<1>6. \A j \in 1..Len(log) : log'[j] = IF j = i THEN r ELSE log[j]
  BY <1>1, <1>4
<1>7. QED
  BY <1>1, <1>3, <1>5, <1>6

-----------------------------------------------------------------------------
(* Typing *)

LEMMA TypeOKInductive == TypeOK /\ [Next]_vars => TypeOK'
<1> SUFFICES ASSUME TypeOK, [Next]_vars PROVE TypeOK'
  OBVIOUS
<1>1. ASSUME NEW h \in Handlers, Read(h) PROVE TypeOK'
  BY <1>1 DEF TypeOK, Read, tracker
<1>2. ASSUME NEW h \in Handlers, Skip(h) PROVE TypeOK'
  <2>1. DecisionEffect(h) /\ Reserved(handler[h]) \in 0..MaxReservedTokensPerDay
    BY <1>2, DecideEffect, ReservedInRange DEF Skip
  <2>2. cycleStarts' \subseteq Time
    BY <1>2 DEF TypeOK, Skip, RecentStarts
  <2>3. QED
    BY <1>2, <2>1, <2>2 DEF TypeOK, Skip, DecisionEffect
<1>3. ASSUME NEW h \in Handlers, Start(h) PROVE TypeOK'
  <2>1. DecisionEffect(h) /\ Reserved(handler[h]) \in 0..MaxReservedTokensPerDay
    BY <1>3, DecideEffect, ReservedInRange DEF Start
  <2>2. cycleStarts' \subseteq Time /\ lastStartedAt' \in Time
    BY <1>3, <2>1 DEF TypeOK, Start, RecentStarts, DecisionEffect
  <2>3. reservedTokensToday' \in 0..MaxReservedTokensPerDay
    BY <1>3, <2>1 DEF Start, MayStart, BudgetLeft
  <2>4. log' \in Seq(Run)
    BY <1>3, StartLogs
  <2>5. QED
    BY <1>3, <2>1, <2>2, <2>3, <2>4 DEF TypeOK, Start, DecisionEffect
<1>4. ASSUME NEW i \in DOMAIN log, NEW o \in Outcomes, Finish(i, o) PROVE TypeOK'
  <2>1. log' \in Seq(Run)
    BY <1>4, FinishLogs
  <2>2. reservedTokensToday' \in 0..MaxReservedTokensPerDay
    BY <1>4 DEF TypeOK, Finish, Refund
  <2>3. cooldownUntil' \in Int
    BY <1>4 DEF TypeOK, Finish, BackOff
  <2>4. QED
    BY <1>4, <2>1, <2>2, <2>3 DEF TypeOK, Finish, Landed
<1>5. CASE SetConfig
  BY <1>5 DEF TypeOK, SetConfig, tracker
<1>6. CASE Tick
  BY <1>6 DEF TypeOK, Tick, tracker
<1>7. CASE UNCHANGED vars
  BY <1>7 DEF TypeOK, vars, tracker
<1>8. QED
  BY <1>1, <1>2, <1>3, <1>4, <1>5, <1>6, <1>7 DEF Next, FinishSome

(* The tracker keeps its types; the reserved tokens of the tracker's day never
   leave 0..MaxReservedTokensPerDay, through resets and refunds. *)
THEOREM Typing == Spec => []TypeOK
<1>1. Init => TypeOK
  <2> SUFFICES ASSUME Init PROVE TypeOK
    OBVIOUS
  <2>1. log \in Seq(Run)
    BY DEF Init
  <2>2. inFlight \in BOOLEAN /\ enabled \in BOOLEAN /\ rewound \in BOOLEAN
    BY DEF Init
  <2>3. reservedTokensToday \in 0..MaxReservedTokensPerDay
    BY DEF Init
  <2>4. QED
    BY <2>1, <2>2, <2>3 DEF Init, TypeOK
<1>2. QED
  BY <1>1, TypeOKInductive, PTL DEF Spec

-----------------------------------------------------------------------------
(* The guardrails *)

(* What makes the properties of the log inductive: the last run is the only one
   that may be under way, and the tracker's scalars describe it. *)
LastRun ==
  /\ SingleFlight
  /\ inFlight => log # <<>>
  /\ lastStartedAt = IF log = <<>> THEN Never ELSE log[Len(log)].now
  /\ log # <<>> /\ log[Len(log)].outcome = "error" =>
       cooldownUntil = log[Len(log)].failed + CooldownAfterError

(* No run and no handler has read the clock in the future. *)
PastOnly ==
  /\ \A h \in Handlers : handler[h] <= clock
  /\ \A i \in DOMAIN log :
       /\ log[i].now <= log[i].at
       /\ log[i].at <= clock
       /\ log[i].outcome = "error" => log[i].failed \in Time

GuardInv == LastRun /\ PastOnly /\ MinIntervalKept /\ ErrorBacksOff

LEMMA StartGuarded ==
  ASSUME TypeOK, GuardInv, NEW h \in Handlers, Start(h)
  PROVE  GuardInv'
<1> DEFINE t == handler[h]
           n == Len(log)
<1>1. /\ log' \in Seq(Run) /\ log \in Seq(Run)
      /\ n \in Nat
      /\ Len(log') = n + 1
      /\ \A i \in 1..n : log'[i] = log[i]
      /\ log'[n + 1] = NewRun(t)
      /\ DOMAIN log' = 1..(n + 1)
      /\ DOMAIN log = 1..n
  BY StartLogs DEF TypeOK
<1>2. /\ t \in Time /\ t <= clock /\ clock \in Time /\ clock' = clock
      /\ \A g \in Handlers : handler'[g] <= clock
  BY DecideEffect DEF Start, DecisionEffect, GuardInv, PastOnly, TypeOK
<1>3. /\ NewRun(t).now = t /\ NewRun(t).at = clock
      /\ NewRun(t).outcome = "running"
  BY DEF NewRun
<1>4. ~inFlight /\ \A i \in 1..n : log[i].outcome # "running"
  BY <1>1 DEF Start, MayStart, NoneInFlight, GuardInv, LastRun, SingleFlight, Running
<1>5. \A i \in 1..n : log[i] \in Run
  BY <1>1
<1>6. lastStartedAt' = t /\ inFlight' = TRUE /\ log' # <<>>
  BY <1>1 DEF Start
<1> HIDE DEF t, n
<1>7. LastRun'
  <2>1. Running' = {n + 1}
    BY <1>1, <1>3, <1>4 DEF Running
  <2>2. QED
    BY <1>1, <1>3, <1>6, <2>1 DEF LastRun, SingleFlight
<1>8. PastOnly'
  <2>1. ASSUME NEW i \in 1..(n + 1)
        PROVE  /\ log'[i].now <= log'[i].at
               /\ log'[i].at <= clock
               /\ log'[i].outcome = "error" => log'[i].failed \in Time
    <3>1. CASE i = n + 1
      BY <1>1, <1>2, <1>3, <3>1
    <3>2. CASE i \in 1..n
      BY <1>1, <3>2 DEF GuardInv, PastOnly
    <3>3. QED
      BY <1>1, <3>1, <3>2
  <2>2. QED
    BY <1>1, <1>2, <2>1 DEF PastOnly
\* The last run started MinInterval before t, and the others before that.
<1>9. ASSUME NEW i \in 1..n PROVE t - log[i].now >= MinInterval
  <2>a. n \in 1..n
    BY <1>1
  <2>b. log[n] \in Run /\ log[i] \in Run
    BY <1>5, <2>a
  <2>c. log # <<>>
    BY <1>1, <2>a
  <2>1. n \in 1..n /\ log # <<>> /\ log[n].now \in Time /\ log[i].now \in Time
    BY <2>a, <2>b, <2>c DEF Run
  <2>2. lastStartedAt = log[n].now
    BY <2>1 DEF GuardInv, LastRun, n
  <2>3. t - log[n].now >= MinInterval
    BY <2>1, <2>2 DEF Start, MayStart, IntervalPassed, t
  <2>4. i = n \/ log[n].now - log[i].now >= MinInterval
    BY <1>1, <2>1 DEF GuardInv, MinIntervalKept
  <2>5. QED
    BY <1>2, <2>1, <2>3, <2>4
<1>10. MinIntervalKept'
  <2> SUFFICES ASSUME NEW i \in 1..(n + 1), NEW j \in 1..(n + 1), i < j
               PROVE  log'[j].now - log'[i].now >= MinInterval
    BY <1>1 DEF MinIntervalKept
  <2>1. i \in 1..n /\ log'[i] = log[i]
    BY <1>1
  <2>2. CASE j = n + 1
    BY <1>1, <1>3, <1>9, <2>1, <2>2
  <2>3. CASE j \in 1..n
    BY <1>1, <2>1, <2>3 DEF GuardInv, MinIntervalKept
  <2>4. QED
    BY <1>1, <2>2, <2>3
\* The last run's back-off is over at t, and the others' were when it started.
<1>11. ASSUME NEW i \in 1..n, log[i].outcome = "error"
       PROVE  clock >= log[i].failed + CooldownAfterError
  <2>a. n \in 1..n
    BY <1>1
  <2>b. log[n] \in Run /\ log[i] \in Run
    BY <1>5, <2>a
  <2>c. log # <<>> /\ log[i].failed \in Time
    BY <1>1, <1>11, <2>a DEF GuardInv, PastOnly
  <2>1. n \in 1..n /\ log # <<>> /\ log[i].failed \in Time /\ log[n].at \in Time
    BY <2>a, <2>b, <2>c DEF Run
  <2>2. CASE i = n
    <3>1. cooldownUntil = log[i].failed + CooldownAfterError
      BY <1>11, <2>1, <2>2 DEF GuardInv, LastRun, n
    <3>2. t >= cooldownUntil
      BY <2>1, <3>1 DEF Start, MayStart, CooledDown, t
    <3>3. QED
      BY <1>2, <2>1, <3>1, <3>2
  <2>3. CASE i # n
    <3>1. log[n].at >= log[i].failed + CooldownAfterError
      BY <1>1, <1>11, <2>1, <2>3 DEF GuardInv, ErrorBacksOff
    <3>2. log[n].at <= clock
      BY <1>1, <2>1 DEF GuardInv, PastOnly
    <3>3. QED
      BY <1>2, <2>1, <3>1, <3>2
  <2>4. QED
    BY <2>2, <2>3
<1>12. ErrorBacksOff'
  <2> SUFFICES ASSUME NEW i \in 1..(n + 1), NEW j \in 1..(n + 1), i < j,
                      log'[i].outcome = "error"
               PROVE  log'[j].at >= log'[i].failed + CooldownAfterError
    BY <1>1 DEF ErrorBacksOff
  <2>1. i \in 1..n /\ log'[i] = log[i]
    BY <1>1
  <2>2. CASE j = n + 1
    BY <1>1, <1>3, <1>11, <2>1, <2>2
  <2>3. CASE j \in 1..n
    BY <1>1, <2>1, <2>3 DEF GuardInv, ErrorBacksOff
  <2>4. QED
    BY <1>1, <2>2, <2>3
<1>13. QED
  BY <1>7, <1>8, <1>10, <1>12 DEF GuardInv

LEMMA FinishGuarded ==
  ASSUME TypeOK, GuardInv, NEW i \in DOMAIN log, NEW o \in Outcomes, Finish(i, o)
  PROVE  GuardInv'
<1> DEFINE n == Len(log)
<1>1. /\ log' \in Seq(Run) /\ log \in Seq(Run)
      /\ n \in Nat
      /\ Len(log') = n
      /\ i \in 1..n
      /\ \A j \in 1..n : /\ log'[j].now = log[j].now
                         /\ log'[j].at = log[j].at
                         /\ j # i => log'[j] = log[j]
      /\ log'[i].outcome = o
      /\ log'[i].failed = IF o = "error" THEN clock ELSE Never
      /\ DOMAIN log' = 1..n
      /\ DOMAIN log = 1..n
  BY FinishLogs DEF TypeOK
<1>2. i = n /\ inFlight
  BY <1>1 DEF Finish, GuardInv, LastRun, SingleFlight
<1>3. \A j \in 1..n : j # i => log[j].outcome # "running"
  BY <1>1, <1>2 DEF GuardInv, LastRun, SingleFlight, Running
<1>4. o # "running" /\ inFlight' = FALSE /\ clock' = clock /\ clock \in Time
  BY DEF Outcomes, Finish, Landed, TypeOK
<1>5. lastStartedAt' = lastStartedAt /\ handler' = handler
  BY DEF Finish
<1>6. o = "error" => cooldownUntil' = clock + CooldownAfterError
  BY DEF Finish, BackOff
<1> HIDE DEF n
<1>7. LastRun'
  <2>1. Running' = {}
    BY <1>1, <1>3, <1>4 DEF Running
  <2>2. log # <<>> /\ log' # <<>>
    BY <1>1 DEF n
  <2>3. lastStartedAt' = log'[n].now
    BY <1>1, <1>2, <1>5, <2>2 DEF GuardInv, LastRun, n
  <2>4. QED
    BY <1>1, <1>2, <1>4, <1>6, <2>1, <2>2, <2>3 DEF LastRun, SingleFlight
<1>8. PastOnly'
  BY <1>1, <1>4, <1>5 DEF GuardInv, PastOnly
<1>9. MinIntervalKept'
  BY <1>1 DEF GuardInv, MinIntervalKept
\* The run that ends is the last one: no later run has to wait for its back-off.
<1>10. ErrorBacksOff'
  <2> SUFFICES ASSUME NEW k \in 1..n, NEW j \in 1..n, k < j,
                      log'[k].outcome = "error"
               PROVE  log'[j].at >= log'[k].failed + CooldownAfterError
    BY <1>1 DEF ErrorBacksOff
  <2>1. log'[k] = log[k] /\ log'[j].at = log[j].at
    BY <1>1, <1>2
  <2>2. QED
    BY <1>1, <2>1 DEF GuardInv, ErrorBacksOff
<1>11. QED
  BY <1>7, <1>8, <1>9, <1>10 DEF GuardInv

LEMMA GuardInvInductive == TypeOK /\ GuardInv /\ [Next]_vars => GuardInv'
<1> SUFFICES ASSUME TypeOK, GuardInv, [Next]_vars PROVE GuardInv'
  OBVIOUS
<1> USE DEF GuardInv, LastRun, SingleFlight, Running, PastOnly, MinIntervalKept,
            ErrorBacksOff
<1>1. ASSUME NEW h \in Handlers, Read(h) PROVE GuardInv'
  BY <1>1 DEF TypeOK, Read, tracker
<1>2. ASSUME NEW h \in Handlers, Skip(h) PROVE GuardInv'
  <2>1. DecisionEffect(h)
    BY <1>2, DecideEffect DEF Skip
  <2>2. \A g \in Handlers : handler'[g] <= clock
    BY <2>1 DEF TypeOK, DecisionEffect
  <2>3. QED
    BY <1>2, <2>1, <2>2 DEF Skip, DecisionEffect
<1>3. ASSUME NEW h \in Handlers, Start(h) PROVE GuardInv'
  BY <1>3, StartGuarded
<1>4. ASSUME NEW i \in DOMAIN log, NEW o \in Outcomes, Finish(i, o) PROVE GuardInv'
  BY <1>4, FinishGuarded
<1>5. CASE SetConfig
  BY <1>5 DEF SetConfig, tracker
<1>6. CASE Tick
  <2>1. UNCHANGED <<handler, tracker, log>> /\ clock' = clock + 1 /\ clock \in Time
    BY <1>6 DEF Tick, TypeOK
  <2>2. \A h \in Handlers : handler[h] \in Int
    BY DEF TypeOK
  <2>a. log \in Seq(Run)
    BY DEF TypeOK
  <2>b. \A i \in DOMAIN log : log[i] \in Run
    BY <2>a
  <2>3. \A i \in DOMAIN log : log[i].at \in Int
    BY <2>b DEF Run, Time
  <2>4. QED
    BY <2>1, <2>2, <2>3 DEF tracker
<1>7. CASE UNCHANGED vars
  BY <1>7 DEF vars, tracker
<1>8. QED
  BY <1>1, <1>2, <1>3, <1>4, <1>5, <1>6, <1>7 DEF Next, FinishSome

THEOREM Guarded == Spec => []GuardInv
<1>1. Init => GuardInv
  BY DEF Init, GuardInv, LastRun, SingleFlight, Running, PastOnly, MinIntervalKept,
         ErrorBacksOff
<1>2. QED
  BY <1>1, Typing, GuardInvInductive, PTL DEF Spec

(* At most one analysis runs at a time, however many alerts arrive at once. *)
THEOREM OneAtATime == Spec => []SingleFlight
<1>1. GuardInv => SingleFlight
  BY DEF GuardInv, LastRun
<1>2. QED
  BY <1>1, Guarded, PTL

(* Analyses are MinInterval apart by the times they record, although handlers
   decide in any order. *)
THEOREM IntervalIsKept == Spec => []MinIntervalKept
<1>1. GuardInv => MinIntervalKept
  BY DEF GuardInv
<1>2. QED
  BY <1>1, Guarded, PTL

(* No analysis starts within the back-off after an error. *)
THEOREM BackOffIsKept == Spec => []ErrorBacksOff
<1>1. GuardInv => ErrorBacksOff
  BY DEF GuardInv
<1>2. QED
  BY <1>1, Guarded, PTL

-----------------------------------------------------------------------------
(* The day's budget *)

(* The analyses charged to a day. *)
ChargedTo(d) == {i \in DOMAIN log : DayOf(log[i].now) = d /\ log[i].outcome # "cached"}

(* What makes the budget inductive: the tracker's count is what its day has
   spent, no run belongs to a later day, and the last run's day is the latest. *)
Accounts ==
  /\ reservedTokensToday = SpentOn(reservedDay)
  /\ \A i \in DOMAIN log :
       /\ DayOf(log[i].now) <= reservedDay
       /\ DayOf(log[i].now) <= DayOf(log[Len(log)].now)
  /\ \A d \in Int : SpentOn(d) <= MaxReservedTokensPerDay

BudgetInv == rewound \/ Accounts

(* Days are integers, and charges are counted by a natural number. *)
LEMMA Charges ==
  ASSUME log \in Seq(Run)
  PROVE  /\ \A i \in 1..Len(log) : DayOf(log[i].now) \in Int
         /\ \A d : IsFiniteSet(ChargedTo(d)) /\ Cardinality(ChargedTo(d)) \in Nat
<1>1. ASSUME NEW i \in 1..Len(log) PROVE DayOf(log[i].now) \in Int
  <2>1. log[i] \in Run
    OBVIOUS
  <2>2. log[i].now \in Int
    BY <2>1 DEF Run
  <2>3. QED
    BY <2>2 DEF DayOf
<1>2. ASSUME NEW d PROVE IsFiniteSet(ChargedTo(d)) /\ Cardinality(ChargedTo(d)) \in Nat
  <2>1. Len(log) \in Nat /\ DOMAIN log = 1..Len(log)
    OBVIOUS
  <2>2. IsFiniteSet(1..Len(log))
    BY <2>1, FS_Interval
  <2>3. ChargedTo(d) \in SUBSET (1..Len(log))
    BY <2>1 DEF ChargedTo
  <2>4. IsFiniteSet(ChargedTo(d))
    BY <2>2, <2>3, FS_Subset
  <2>5. QED
    BY <2>4, FS_CardinalityType
<1>3. QED
  BY <1>1, <1>2

(* A day that no run belongs to has spent nothing. *)
LEMMA NothingSpent ==
  ASSUME log \in Seq(Run), NEW d, \A i \in 1..Len(log) : DayOf(log[i].now) # d
  PROVE  SpentOn(d) = 0
<1>1. ChargedTo(d) = {}
  BY DEF ChargedTo
<1>2. Cardinality(ChargedTo(d)) = 0
  BY <1>1, FS_EmptySet
<1>3. QED
  BY <1>2 DEF SpentOn, ChargedTo

(* resetReservedDay at a time that is not of an earlier day finds what that day
   has spent. *)
LEMMA ReservedIsSpent ==
  ASSUME TypeOK, Accounts, NEW t \in Time, reservedDay <= DayOf(t)
  PROVE  Reserved(t) = SpentOn(DayOf(t))
<1>1. CASE reservedDay = DayOf(t)
  BY <1>1 DEF Reserved, Accounts
<1>2. CASE reservedDay # DayOf(t)
  <2>1. DayOf(t) \in Int /\ reservedDay \in Int /\ log \in Seq(Run)
    BY DEF DayOf, TypeOK
  <2>2. reservedDay < DayOf(t)
    BY <1>2, <2>1
  <2>3. \A i \in 1..Len(log) : DayOf(log[i].now) \in Int /\ DayOf(log[i].now) <= reservedDay
    BY <2>1, Charges DEF Accounts
  <2>4. \A i \in 1..Len(log) : DayOf(log[i].now) # DayOf(t)
    BY <2>1, <2>2, <2>3
  <2>5. SpentOn(DayOf(t)) = 0
    BY <2>1, <2>4, NothingSpent
  <2>6. QED
    BY <1>2, <2>5 DEF Reserved
<1>3. QED
  BY <1>1, <1>2

(* The decision of a handler moves the tracker to the day of its time. *)
LEMMA DecidesForward ==
  ASSUME TypeOK, NEW h \in Handlers, Decide(h), ~rewound'
  PROVE  /\ ~rewound
         /\ handler[h] \in Time /\ DayOf(handler[h]) \in Int
         /\ reservedDay' = DayOf(handler[h])
         /\ reservedDay \in Int /\ reservedDay <= DayOf(handler[h])
<1>1. handler[h] \in Time /\ reservedDay \in Int
  BY DecideEffect DEF DecisionEffect, TypeOK
<1>2. DayOf(handler[h]) \in Int
  BY <1>1 DEF DayOf
<1>3. ~rewound /\ ~(DayOf(handler[h]) < reservedDay) /\ reservedDay' = DayOf(handler[h])
  BY DEF Decide
<1>4. QED
  BY <1>1, <1>2, <1>3

(* A run that starts is one more charge to its day, and no other day's. *)
LEMMA StartCharges ==
  ASSUME TypeOK, NEW h \in Handlers, Start(h), NEW d \in Int
  PROVE  SpentOn(d)' = IF d = DayOf(handler[h]) THEN SpentOn(d) + MaxTokens ELSE SpentOn(d)
<1> DEFINE n == Len(log)
           C == ChargedTo(d)
<1>1. /\ log \in Seq(Run) /\ n \in Nat /\ DOMAIN log = 1..n
      /\ log' \in Seq(Run) /\ DOMAIN log' = 1..(n + 1)
      /\ \A i \in 1..n : log'[i] = log[i]
      /\ log'[n + 1] = NewRun(handler[h])
  BY StartLogs DEF TypeOK
<1>a. log'[n + 1].now = handler[h] /\ log'[n + 1].outcome = "running"
  BY <1>1 DEF NewRun
<1>b. n + 1 \notin C
  BY <1>1 DEF ChargedTo
<1>2. IsFiniteSet(C) /\ Cardinality(C) \in Nat /\ n + 1 \notin C
  BY <1>1, <1>b, Charges
<1>3. CASE d = DayOf(handler[h])
  <2>1. ChargedTo(d)' = C \cup {n + 1}
    BY <1>1, <1>a, <1>3 DEF ChargedTo
  <2>2. Cardinality(ChargedTo(d)') = Cardinality(C) + 1
    BY <1>2, <2>1, FS_AddElement
  <2>3. MaxTokens * (Cardinality(C) + 1) = MaxTokens * Cardinality(C) + MaxTokens
    BY <1>2
  <2>4. QED
    BY <1>3, <2>2, <2>3 DEF SpentOn, ChargedTo
<1>4. CASE d # DayOf(handler[h])
  <2>1. ChargedTo(d)' = C
    BY <1>1, <1>a, <1>4 DEF ChargedTo
  <2>2. QED
    BY <1>4, <2>1 DEF SpentOn, ChargedTo
<1>5. QED
  BY <1>3, <1>4

LEMMA StartAccounted ==
  ASSUME TypeOK, GuardInv, BudgetInv, NEW h \in Handlers, Start(h)
  PROVE  BudgetInv'
<1> SUFFICES ASSUME ~rewound' PROVE Accounts'
  BY DEF BudgetInv
<1> DEFINE t == handler[h]
           n == Len(log)
<1>1. /\ Accounts /\ t \in Time /\ DayOf(t) \in Int
      /\ reservedDay' = DayOf(t) /\ reservedDay \in Int /\ reservedDay <= DayOf(t)
  BY DecidesForward DEF Start, BudgetInv
<1>2. Reserved(t) = SpentOn(DayOf(t)) /\ Reserved(t) \in 0..MaxReservedTokensPerDay
  BY <1>1, ReservedIsSpent, ReservedInRange
<1>3. /\ reservedTokensToday' = Reserved(t) + MaxTokens
      /\ Reserved(t) + MaxTokens <= MaxReservedTokensPerDay
  BY DEF Start, MayStart, BudgetLeft
<1>4. \A d \in Int : SpentOn(d)' = IF d = DayOf(t) THEN SpentOn(d) + MaxTokens ELSE SpentOn(d)
  BY StartCharges
<1>5. SpentOn(reservedDay)' = reservedTokensToday'
  <2>1. PICK d \in Int : d = DayOf(t)
    BY <1>1
  <2>2. SpentOn(d)' = SpentOn(d) + MaxTokens
    BY <1>4, <2>1
  <2>3. QED
    BY <1>1, <1>2, <1>3, <2>1, <2>2 DEF SpentOn
<1>6. \A d \in Int : SpentOn(d)' <= MaxReservedTokensPerDay
  BY <1>1, <1>2, <1>3, <1>4 DEF Accounts
<1>7. /\ log \in Seq(Run) /\ n \in Nat /\ DOMAIN log' = 1..(n + 1) /\ Len(log') = n + 1
      /\ \A i \in 1..n : log'[i] = log[i]
      /\ log'[n + 1] = NewRun(t)
      /\ DOMAIN log = 1..n
  BY StartLogs DEF TypeOK
<1>a. log'[n + 1].now = t
  BY <1>7 DEF NewRun
<1>8. \A i \in 1..n : DayOf(log[i].now) \in Int /\ DayOf(log[i].now) <= reservedDay
  BY <1>1, <1>7, Charges DEF Accounts
<1>9. \A i \in 1..(n + 1) : DayOf(log'[i].now) <= DayOf(t)
  <2> SUFFICES ASSUME NEW i \in 1..(n + 1) PROVE DayOf(log'[i].now) <= DayOf(t)
    OBVIOUS
  <2>1. CASE i = n + 1
    BY <1>1, <1>7, <1>a, <2>1
  <2>2. CASE i \in 1..n
    BY <1>1, <1>7, <1>8, <2>2
  <2>3. QED
    BY <1>7, <2>1, <2>2
<1>10. \A i \in DOMAIN log' : DayOf(log'[i].now) <= reservedDay'
                              /\ DayOf(log'[i].now) <= DayOf(log'[Len(log')].now)
  BY <1>1, <1>7, <1>a, <1>9
<1>11. QED
  BY <1>5, <1>6, <1>10 DEF Accounts, DayOf

(* A refund is the charge of a cached run: it goes back to the day that paid,
   and a day that has begun in between has nothing to give back. *)
LEMMA FinishAccounted ==
  ASSUME TypeOK, GuardInv, BudgetInv, NEW i \in DOMAIN log, NEW o \in Outcomes, Finish(i, o)
  PROVE  BudgetInv'
<1> SUFFICES ASSUME ~rewound' PROVE Accounts'
  BY DEF BudgetInv
<1> DEFINE n == Len(log)
<1>1. Accounts /\ reservedDay' = reservedDay /\ reservedDay \in Int
  BY DEF Finish, BudgetInv, TypeOK
<1>2. /\ log \in Seq(Run) /\ n \in Nat /\ DOMAIN log = 1..n
      /\ log' \in Seq(Run) /\ DOMAIN log' = 1..n /\ Len(log') = n
      /\ \A j \in 1..n : log'[j].now = log[j].now /\ (j # i => log'[j] = log[j])
      /\ log'[i].outcome = o
      /\ i \in 1..n
  BY FinishLogs DEF TypeOK
<1>3. i = n /\ log[i].outcome = "running"
  BY <1>2 DEF Finish, GuardInv, LastRun, SingleFlight, Running
<1>d. \A j \in 1..n : DayOf(log[j].now) \in Int
  BY <1>2, Charges
<1>5. PICK D \in Int : D = DayOf(log[n].now)
  BY <1>2, <1>3, <1>d
<1>4. \A j \in 1..n : DayOf(log[j].now) \in Int /\ DayOf(log[j].now) <= reservedDay
                      /\ DayOf(log[j].now) <= D
  BY <1>1, <1>2, <1>5, <1>d DEF Accounts
<1>6. \A d \in Int : IsFiniteSet(ChargedTo(d)) /\ Cardinality(ChargedTo(d)) \in Nat
  BY <1>2, Charges
<1>7. reservedTokensToday' = reservedTokensToday - Refund(o) /\ reservedTokensToday \in Nat
  BY DEF Finish, TypeOK
<1>8. reservedTokensToday = SpentOn(reservedDay)
      /\ \A d \in Int : SpentOn(d) <= MaxReservedTokensPerDay
  BY <1>1 DEF Accounts
<1> HIDE DEF n
<1>l. /\ \A j \in 1..n : DayOf(log'[j].now) = DayOf(log[j].now)
      /\ \A j \in DOMAIN log' : /\ DayOf(log'[j].now) <= reservedDay'
                                /\ DayOf(log'[j].now) <= DayOf(log'[Len(log')].now)
  <2>1. \A j \in 1..n : DayOf(log'[j].now) = DayOf(log[j].now)
    BY <1>2
  <2>2. n \in 1..n /\ DayOf(log'[n].now) = D
    BY <1>2, <1>3, <1>5, <2>1
  <2>3. QED
    BY <1>1, <1>2, <1>4, <2>1, <2>2
<1>9. CASE o # "cached"
  <2>1. \A d \in Int : ChargedTo(d)' = ChargedTo(d)
    BY <1>2, <1>3, <1>9 DEF ChargedTo
  <2>2. \A d \in Int : SpentOn(d)' = SpentOn(d)
    BY <2>1 DEF SpentOn, ChargedTo
  <2>3. reservedTokensToday' = reservedTokensToday
    BY <1>7, <1>9 DEF Refund
  <2>4. QED
    BY <1>1, <1>8, <1>l, <2>2, <2>3 DEF Accounts, DayOf
<1>10. CASE o = "cached"
  <2>1. \A d \in Int : d # D => ChargedTo(d)' = ChargedTo(d)
    BY <1>2, <1>3, <1>5, <1>10, <1>l DEF ChargedTo
  <2>2. ChargedTo(D)' = ChargedTo(D) \ {i} /\ i \in ChargedTo(D)
    BY <1>2, <1>3, <1>5, <1>10, <1>l DEF ChargedTo
  <2>3. Cardinality(ChargedTo(D)') = Cardinality(ChargedTo(D)) - 1
    <3>1. IsFiniteSet(ChargedTo(D))
      BY <1>6
    <3>2. Cardinality(ChargedTo(D) \ {i}) = Cardinality(ChargedTo(D)) - 1
      BY <2>2, <3>1, FS_RemoveElement
    <3>3. QED
      BY <2>2, <3>2
  <2>4. SpentOn(D)' = SpentOn(D) - MaxTokens
    <3>1. MaxTokens * (Cardinality(ChargedTo(D)) - 1)
            = MaxTokens * Cardinality(ChargedTo(D)) - MaxTokens
      BY <1>5, <1>6
    <3>2. QED
      BY <2>3, <3>1 DEF SpentOn, ChargedTo
  <2>5. \A d \in Int : d # D => SpentOn(d)' = SpentOn(d)
    BY <2>1 DEF SpentOn, ChargedTo
  <2>6. SpentOn(D) \in Nat /\ SpentOn(D) >= MaxTokens
    <3>1. Cardinality(ChargedTo(D)) >= 1
      BY <1>5, <1>6, <2>2, FS_EmptySet
    <3>2. QED
      BY <1>5, <1>6, <3>1 DEF SpentOn, ChargedTo
  <2>7. CASE reservedDay = D
    <3>1. reservedTokensToday' = SpentOn(D) - MaxTokens
      BY <1>7, <1>8, <1>10, <2>6, <2>7 DEF Refund
    <3>2. QED
      BY <1>1, <1>8, <1>l, <2>4, <2>5, <2>6, <2>7, <3>1 DEF Accounts, DayOf
  <2>8. CASE reservedDay # D
    <3>1. D < reservedDay
      BY <1>1, <1>2, <1>3, <1>4, <1>5, <2>8
    <3>2. \A j \in 1..n : DayOf(log[j].now) # reservedDay
      BY <1>1, <1>4, <1>5, <3>1
    <3>3. SpentOn(reservedDay) = 0
      BY <1>2, <3>2, NothingSpent DEF n
    <3>a. reservedTokensToday = 0 /\ ~(reservedTokensToday >= MaxTokens)
      BY <1>8, <3>3
    <3>b. Refund(o) = 0
      BY <3>a DEF Refund
    <3>4. reservedTokensToday' = SpentOn(reservedDay)
      BY ONLY <1>7, <3>a, <3>b, <3>3
    <3>5. QED
      BY <1>1, <1>8, <1>l, <2>4, <2>5, <2>6, <2>8, <3>4 DEF Accounts, DayOf
  <2>9. QED
    BY <2>7, <2>8
<1>11. QED
  BY <1>9, <1>10

LEMMA BudgetInvInductive == TypeOK /\ GuardInv /\ BudgetInv /\ [Next]_vars => BudgetInv'
<1> SUFFICES ASSUME TypeOK, GuardInv, BudgetInv, [Next]_vars PROVE BudgetInv'
  OBVIOUS
<1>1. ASSUME NEW h \in Handlers, Skip(h) PROVE BudgetInv'
  <2> SUFFICES ASSUME ~rewound' PROVE Accounts'
    BY DEF BudgetInv
  <2>1. /\ Accounts /\ handler[h] \in Time /\ DayOf(handler[h]) \in Int
        /\ reservedDay' = DayOf(handler[h])
        /\ reservedDay \in Int /\ reservedDay <= DayOf(handler[h])
    BY <1>1, DecidesForward DEF Skip, BudgetInv
  <2>2. reservedTokensToday' = SpentOn(DayOf(handler[h])) /\ log' = log
    BY <1>1, <2>1, ReservedIsSpent DEF Skip
  <2>3. \A i \in DOMAIN log : DayOf(log[i].now) \in Int
    BY Charges DEF TypeOK
  <2>4. \A i \in DOMAIN log : DayOf(log[i].now) <= reservedDay'
    BY <2>1, <2>3 DEF Accounts
  <2>5. SpentOn(reservedDay)' = reservedTokensToday'
    BY <2>1, <2>2 DEF SpentOn
  <2>6. \A i \in DOMAIN log : DayOf(log[i].now) <= DayOf(log[Len(log)].now)
    BY <2>1 DEF Accounts
  <2>7. \A d \in Int : SpentOn(d)' <= MaxReservedTokensPerDay
    BY <2>1, <2>2 DEF Accounts, SpentOn
  <2>8. QED
    BY <2>2, <2>4, <2>5, <2>6, <2>7 DEF Accounts, DayOf
<1>2. ASSUME NEW h \in Handlers, Start(h) PROVE BudgetInv'
  BY <1>2, StartAccounted
<1>3. ASSUME NEW i \in DOMAIN log, NEW o \in Outcomes, Finish(i, o) PROVE BudgetInv'
  BY <1>3, FinishAccounted
<1>4. ASSUME UNCHANGED <<tracker, log, rewound>> PROVE BudgetInv'
  BY <1>4 DEF BudgetInv, Accounts, SpentOn, tracker
<1>5. QED
  BY <1>1, <1>2, <1>3, <1>4 DEF Next, Read, FinishSome, SetConfig, Tick, vars

(* The analyses of a day never reserve more than the day's budget: a refund goes
   back to the day that paid it, even one that lands after midnight, unless some
   handler decides by a time of a day before the tracker's. *)
THEOREM BudgetIsKept == Spec => []BudgetUnlessRewound
<1>1. Init => BudgetInv
  <2> SUFFICES ASSUME Init PROVE Accounts
    BY DEF BudgetInv
  <2>1. log \in Seq(Run) /\ Len(log) = 0
    BY DEF Init
  <2>2. \A d \in Int : SpentOn(d) = 0
    BY <2>1, NothingSpent
  <2>3. QED
    BY <2>1, <2>2 DEF Init, Accounts
<1>2. BudgetInv => BudgetUnlessRewound
  <2> SUFFICES ASSUME Accounts PROVE \A d \in 0..DayOf(MaxTime) : SpentOn(d) <= MaxReservedTokensPerDay
    BY DEF BudgetInv, BudgetUnlessRewound
  <2>1. DayOf(MaxTime) \in Int
    BY DEF DayOf
  <2>2. 0..DayOf(MaxTime) \subseteq Int
    BY <2>1
  <2>3. QED
    BY <2>2 DEF Accounts
<1>3. QED
  BY <1>1, <1>2, BudgetInvInductive, Guarded, Typing, PTL DEF Spec

-----------------------------------------------------------------------------
(* The starts of an hour *)

(* A start is still on the list unless its hour was over for some decision, which
   was not later than the clock; and no handler, and no start, is later than
   MaxDelay after the time it was decided by. *)
CyclesInv ==
  /\ \A h \in Handlers : handler[h] # Idle => clock - handler[h] <= MaxDelay
  /\ \A i \in DOMAIN log :
       /\ log[i].at - log[i].now <= MaxDelay
       /\ log[i].now \in cycleStarts \/ clock - log[i].now > Hour
  /\ CycleLimit

(* The runs of the hour that ends with run j. *)
Window(j) == {i \in 1..j : log[j].at - log[i].at <= Hour - MaxDelay}

LEMMA LogTimes ==
  ASSUME TypeOK
  PROVE  /\ Len(log) \in Nat /\ DOMAIN log = 1..Len(log)
         /\ \A i \in 1..Len(log) : log[i].now \in Int /\ log[i].at \in Int
<1>1. log \in Seq(Run)
  BY DEF TypeOK
<1>2. Len(log) \in Nat /\ DOMAIN log = 1..Len(log) /\ \A i \in 1..Len(log) : log[i] \in Run
  BY <1>1
<1>3. QED
  BY <1>2 DEF Run, Time

(* Windows depend on the times of the runs before only. *)
LEMMA WindowsStay ==
  ASSUME TypeOK, CyclesInv, \A i \in 1..Len(log) : log'[i].at = log[i].at
  PROVE  \A j \in 1..Len(log) : Cardinality(Window(j)') <= MaxCyclesPerHour
<1> SUFFICES ASSUME NEW j \in 1..Len(log) PROVE Cardinality(Window(j)') <= MaxCyclesPerHour
  OBVIOUS
<1>1. Len(log) \in Nat /\ \A i \in 1..j : i \in 1..Len(log)
  BY LogTimes
<1>2. Window(j)' = Window(j)
  BY <1>1 DEF Window
<1>3. Cardinality(Window(j)) <= MaxCyclesPerHour
  BY LogTimes DEF CyclesInv, CycleLimit, Window
<1>4. QED
  BY <1>2, <1>3

(* The log once a run has started. *)
LEMMA StartedLog ==
  ASSUME TypeOK, NEW h \in Handlers, Start(h), NEW n, n = Len(log)
  PROVE  /\ log' \in Seq(Run) /\ Len(log') = n + 1 /\ \A i \in 1..n : log'[i] = log[i]
         /\ log'[n + 1].now = handler[h] /\ log'[n + 1].at = clock
<1>1. log'[n + 1] = NewRun(handler[h])
  BY StartLogs
<1>2. NewRun(handler[h]).now = handler[h] /\ NewRun(handler[h]).at = clock
  BY DEF NewRun
<1>3. QED
  BY <1>1, <1>2, StartLogs

(* The starts of the new run's hour have a place each on the list. *)
LEMMA StartsInHour ==
  ASSUME TypeOK, GuardInv, GuardInv', CyclesInv, NEW h \in Handlers, Start(h),
         NEW n, n = Len(log)
  PROVE  Cardinality(Window(n + 1)') <= MaxCyclesPerHour
<1>1. PICK t : t = handler[h]
  OBVIOUS
<1>2. /\ n \in Nat /\ DOMAIN log = 1..n
      /\ \A i \in 1..n : log[i].now \in Int /\ log[i].at \in Int
  BY LogTimes
<1>3. /\ log' \in Seq(Run) /\ Len(log') = n + 1 /\ \A i \in 1..n : log'[i] = log[i]
      /\ log'[n + 1].now = t /\ log'[n + 1].at = clock
  BY <1>1, StartedLog
<1>4. /\ t \in Int /\ clock \in Int /\ t <= clock /\ clock - t <= MaxDelay /\ MaxDelay \in Nat
      /\ Hour \in Nat /\ MaxCyclesPerHour \in Nat
  BY <1>1, DecideEffect, BackgroundAssumption
     DEF Start, Decide, DecisionEffect, GuardInv, PastOnly, TypeOK, CyclesInv
<1> DEFINE window == {i \in 1..(n + 1) : log'[n + 1].at - log'[i].at <= Hour - MaxDelay}
           recent == RecentStarts(t)
           times == [i \in window |-> log'[i].now]
<1>5. ASSUME NEW i \in window PROVE times[i] \in recent \cup {t}
  <2>1. CASE i = n + 1
    BY <1>3, <2>1
  <2>2. CASE i \in 1..n
    <3>1. clock - log[i].at <= Hour - MaxDelay /\ times[i] = log[i].now
      BY <1>3, <2>2
    <3>2. /\ log[i].at - log[i].now <= MaxDelay /\ log[i].now <= log[i].at
          /\ log[i].now \in cycleStarts \/ clock - log[i].now > Hour
      BY <1>2, <2>2 DEF CyclesInv, GuardInv, PastOnly
    <3>3. clock - log[i].now <= Hour
      BY <1>2, <1>4, <2>2, <3>1, <3>2
    <3>4. t - log[i].now <= Hour
      BY <1>2, <1>4, <2>2, <3>3
    <3>5. log[i].now \in cycleStarts
      BY <1>2, <1>4, <2>2, <3>2, <3>3
    <3>6. QED
      BY <3>1, <3>4, <3>5 DEF RecentStarts
  <2>3. QED
    BY <1>2, <2>1, <2>2
<1>6. ASSUME NEW i \in window, NEW j \in window, times[i] = times[j] PROVE i = j
  <2>1. \A k, m \in 1..(n + 1) : k < m => log'[m].now - log'[k].now >= MinInterval
    <3>1. DOMAIN log' = 1..(n + 1)
      BY <1>2, <1>3
    <3>2. MinIntervalKept'
      BY DEF GuardInv
    <3>3. QED
      BY <3>1, <3>2 DEF MinIntervalKept
  <2>2. \A k \in 1..(n + 1) : log'[k].now \in Int
    BY <1>2, <1>3, <1>4
  <2>3. MinInterval \in Nat \ {0}
    BY BackgroundAssumption
  <2>4. ~(i < j) /\ ~(j < i)
    BY <1>6, <2>1, <2>2, <2>3
  <2>5. QED
    BY <1>2, <2>4
<1>7. IsFiniteSet(recent) /\ Cardinality(recent) < MaxCyclesPerHour
  <2>1. recent \in SUBSET Time
    BY DEF RecentStarts, TypeOK
  <2>2. IsFiniteSet(Time)
    BY FS_Interval, BackgroundAssumption DEF Time
  <2>3. IsFiniteSet(recent)
    BY <2>1, <2>2, FS_Subset
  <2>4. QED
    BY <1>1, <2>3 DEF Start, MayStart, CyclesLeft
<1>8. /\ IsFiniteSet(recent \cup {t})
      /\ Cardinality(recent \cup {t}) <= MaxCyclesPerHour
  <2>1. Cardinality(recent) \in Nat
    BY <1>7, FS_CardinalityType
  <2>2. /\ IsFiniteSet(recent \cup {t})
        /\ Cardinality(recent \cup {t}) = (IF t \in recent THEN Cardinality(recent)
                                            ELSE Cardinality(recent) + 1)
    BY <1>7, FS_AddElement
  <2>3. QED
    BY <1>4, <1>7, <2>1, <2>2
<1> HIDE DEF recent
<1>9. times \in Injection(window, recent \cup {t})
  <2>1. times \in [window -> recent \cup {t}]
    BY <1>5
  <2>2. \A i, j \in window : times[i] = times[j] => i = j
    BY <1>6
  <2> HIDE DEF times, window
  <2>3. QED
    BY <2>1, <2>2 DEF Injection, IsInjective
<1>10. IsFiniteSet(window) /\ Cardinality(window) <= Cardinality(recent \cup {t})
  <2> HIDE DEF times, window
  <2>1. QED
    BY <1>8, <1>9, FS_Injection
<1>11. Cardinality(window) \in Nat /\ Cardinality(recent \cup {t}) \in Nat
  BY <1>8, <1>10, FS_CardinalityType
<1>12. Cardinality(window) <= MaxCyclesPerHour
  BY <1>4, <1>8, <1>10, <1>11
<1>13. QED
  BY <1>12 DEF Window

LEMMA CyclesInvInductive ==
  TypeOK /\ GuardInv /\ GuardInv' /\ CyclesInv /\ [Next]_vars => CyclesInv'
<1> SUFFICES ASSUME TypeOK, GuardInv, GuardInv', CyclesInv, [Next]_vars PROVE CyclesInv'
  OBVIOUS
<1>1. /\ clock \in Int /\ MaxDelay \in Nat /\ Hour \in Nat
      /\ \A h \in Handlers : handler[h] \in Int
      /\ handler \in [Handlers -> Time \cup {Idle}]
  BY BackgroundAssumption DEF TypeOK
<1>2. /\ Len(log) \in Nat /\ DOMAIN log = 1..Len(log)
      /\ \A i \in 1..Len(log) : log[i].now \in Int /\ log[i].at \in Int
  BY LogTimes
<1>3. ASSUME UNCHANGED <<log, cycleStarts>>, clock' = clock \/ clock' = clock + 1,
             \A h \in Handlers : handler'[h] # Idle => clock' - handler'[h] <= MaxDelay
      PROVE  CyclesInv'
  <2>1. \A i \in 1..Len(log) : clock - log[i].now > Hour => clock' - log[i].now > Hour
    BY <1>1, <1>2, <1>3
  <2>2. CycleLimit'
    BY <1>3 DEF CyclesInv, CycleLimit
  <2>3. QED
    BY <1>2, <1>3, <2>1, <2>2 DEF CyclesInv
<1>4. ASSUME NEW h \in Handlers, Read(h) PROVE CyclesInv'
  <2>1. \A g \in Handlers : handler'[g] = IF g = h THEN clock ELSE handler[g]
    BY <1>1, <1>4 DEF Read
  <2>2. UNCHANGED <<log, cycleStarts, clock>>
    BY <1>4 DEF Read, tracker
  <2>3. \A g \in Handlers : handler'[g] # Idle => clock' - handler'[g] <= MaxDelay
    BY <1>1, <2>1, <2>2 DEF CyclesInv
  <2>4. QED
    BY <1>3, <2>2, <2>3
<1>5. ASSUME NEW h \in Handlers, Skip(h) \/ Start(h)
      PROVE  /\ clock' = clock /\ handler[h] \in Int /\ handler[h] <= clock
             /\ \A g \in Handlers : handler'[g] # Idle => clock' - handler'[g] <= MaxDelay
             /\ \A ts \in cycleStarts : ts \in cycleStarts' \/ handler[h] - ts > Hour
             /\ cycleStarts \subseteq Int
  <2>1. clock' = clock /\ \A g \in Handlers : handler'[g] = IF g = h THEN Idle ELSE handler[g]
    BY <1>1, <1>5 DEF Skip, Start, Decide
  <2>2. handler[h] \in Int /\ handler[h] <= clock
    BY <1>1 DEF GuardInv, PastOnly
  <2>3. cycleStarts \subseteq Int
    BY DEF TypeOK
  <2>4. RecentStarts(handler[h]) \subseteq cycleStarts'
    BY <1>5 DEF Skip, Start
  <2>5. \A ts \in cycleStarts : ts \in RecentStarts(handler[h]) \/ handler[h] - ts > Hour
    BY <1>1, <2>2, <2>3 DEF RecentStarts
  <2>6. QED
    BY <2>1, <2>2, <2>3, <2>4, <2>5 DEF CyclesInv
<1>6. ASSUME NEW h \in Handlers, Skip(h) \/ Start(h), NEW i \in 1..Len(log)
      PROVE  log[i].now \in cycleStarts' \/ clock' - log[i].now > Hour
  <2>1. log[i].now \in cycleStarts \/ clock - log[i].now > Hour
    BY <1>2 DEF CyclesInv
  <2>2. QED
    BY <1>1, <1>2, <1>5, <1>6, <2>1
<1>7. ASSUME NEW h \in Handlers, Skip(h) PROVE CyclesInv'
  <2>1. log' = log
    BY <1>7 DEF Skip
  <2>2. CycleLimit'
    BY <2>1 DEF CyclesInv, CycleLimit
  <2>3. QED
    BY <1>2, <1>5, <1>6, <1>7, <2>1, <2>2 DEF CyclesInv
<1>8. ASSUME NEW h \in Handlers, Start(h) PROVE CyclesInv'
  <2>1. PICK n : n = Len(log)
    OBVIOUS
  <2>2. /\ log' \in Seq(Run) /\ Len(log') = n + 1 /\ \A i \in 1..n : log'[i] = log[i]
        /\ log'[n + 1].now = handler[h] /\ log'[n + 1].at = clock
    BY <1>8, <2>1, StartedLog
  <2>3. DOMAIN log' = 1..(n + 1) /\ n \in Nat
    BY <1>2, <2>1, <2>2
  <2>4. \A j \in 1..n : Cardinality(Window(j)') <= MaxCyclesPerHour
    BY <2>1, <2>2, WindowsStay
  <2>5. Cardinality(Window(n + 1)') <= MaxCyclesPerHour
    BY <1>8, <2>1, StartsInHour
  <2>6. CycleLimit'
    <3>1. \A j \in 1..(n + 1) : j \in 1..n \/ j = n + 1
      BY <2>3
    <3>2. QED
      BY <2>3, <2>4, <2>5, <3>1 DEF CycleLimit, Window
  <2>7. handler[h] \in cycleStarts' /\ clock - handler[h] <= MaxDelay
    BY <1>8 DEF Start, Decide, CyclesInv
  <2>8. \A i \in 1..(n + 1) :
          /\ log'[i].at - log'[i].now <= MaxDelay
          /\ log'[i].now \in cycleStarts' \/ clock' - log'[i].now > Hour
    <3>1. \A i \in 1..n : log[i].at - log[i].now <= MaxDelay
      BY <1>2, <2>1 DEF CyclesInv
    <3>2. \A i \in 1..n : log[i].now \in cycleStarts' \/ clock' - log[i].now > Hour
      BY <1>6, <1>8, <2>1
    <3>3. \A i \in 1..(n + 1) : i \in 1..n \/ i = n + 1
      BY <2>3
    <3>4. QED
      BY <2>2, <2>7, <3>1, <3>2, <3>3
  <2>9. QED
    BY <1>5, <1>8, <2>3, <2>6, <2>8 DEF CyclesInv
<1>9. ASSUME NEW i \in DOMAIN log, NEW o \in Outcomes, Finish(i, o) PROVE CyclesInv'
  <2>1. /\ log' \in Seq(Run) /\ Len(log') = Len(log)
        /\ \A j \in 1..Len(log) : log'[j].now = log[j].now /\ log'[j].at = log[j].at
    BY <1>9, FinishLogs
  <2>2. DOMAIN log' = 1..Len(log)
    BY <2>1
  <2>3. UNCHANGED <<clock, handler, cycleStarts>>
    BY <1>9 DEF Finish
  <2>4. \A j \in 1..Len(log) : Cardinality(Window(j)') <= MaxCyclesPerHour
    BY <2>1, WindowsStay
  <2>5. CycleLimit'
    BY <2>2, <2>4 DEF CycleLimit, Window
  <2>6. QED
    BY <1>2, <2>1, <2>2, <2>3, <2>5 DEF CyclesInv
<1>10. CASE SetConfig \/ UNCHANGED vars
  BY <1>10, <1>3 DEF SetConfig, vars, tracker, CyclesInv
<1>11. CASE Tick
  <2>1. /\ UNCHANGED <<handler, log, cycleStarts>> /\ clock' = clock + 1
        /\ \A h \in Handlers : handler[h] # Idle => clock - handler[h] < MaxDelay
    BY <1>11 DEF Tick, tracker
  <2>2. \A h \in Handlers : handler'[h] # Idle => clock' - handler'[h] <= MaxDelay
    BY <1>1, <2>1
  <2>3. QED
    BY <1>3, <2>1, <2>2
<1>12. QED
  BY <1>4, <1>7, <1>8, <1>9, <1>10, <1>11 DEF Next, FinishSome

(* Any hour, less the delay of a handler, sees at most MaxCyclesPerHour starts,
   although the list of starts is trimmed by the times of handlers that decide in
   any order. *)
THEOREM HoursAreLimited == Spec => []CycleLimit
<1>1. Init => CyclesInv
  BY DEF Init, CyclesInv, CycleLimit
<1>2. CyclesInv => CycleLimit
  BY DEF CyclesInv
<1>3. QED
  BY <1>1, <1>2, CyclesInvInductive, Guarded, Typing, PTL DEF Spec

HIDE BackgroundAssumption DEF Time, Never, Idle

-----------------------------------------------------------------------------
(* The advisor's answers and what may come of them, for any requests, prompts *)
(* and suggestions *)

(* The token bucket *)

Bucket == [max : Nat \ {0}, tokens : Nat, filled : Nat]

BucketTypes ==
  /\ now \in Nat
  /\ bucket \in Bucket /\ bucket.tokens <= bucket.max /\ bucket.filled <= now
  /\ calls \in Seq(Nat)

\* The calls since one of them, and the tokens that are left, are within what
\* the bucket held then and what the time since has added to it.
Drawn(i) ==
  /\ calls[i] <= now
  /\ Minute * ((Len(calls) - i + 1) + bucket.tokens - bucket.max)
       <= bucket.max * (bucket.filled - calls[i]) + Minute - 1

RateInv == BucketTypes /\ RateKept /\ \A i \in DOMAIN calls : Drawn(i)

LEMMA AdvisorConstants ==
  /\ Minute \in Nat \ {0} /\ OfferTtl \in Nat \ {0} /\ MaxTurns \in Nat \ {0}
  /\ MaxTurns % 2 = 0 /\ MaxIssues \in Nat
  /\ Limits \subseteq Nat \ {0} /\ Limits # {}
  /\ \A s \in Scenes : s.limits \subseteq Limits /\ s.answers \subseteq Answers
  /\ Answers \subseteq Seq(Suggestions)
BY SuggestionsAssumption

(* Whole tokens for the time that has passed, and less than one is lost. *)
LEMMA DivisionBounds ==
  ASSUME NEW p \in Nat, NEW m \in Nat \ {0}
  PROVE  /\ p \div m \in Nat /\ m * (p \div m) <= p /\ p < m * (p \div m) + m
OBVIOUS

LEMMA DifferencesAdd ==
  ASSUME NEW m \in Int, NEW a \in Int, NEW b \in Int, NEW c \in Int
  PROVE  m * (c - a) = m * (c - b) + m * (b - a)
OBVIOUS

LEMMA MoreIsMore ==
  ASSUME NEW m \in Nat, NEW a \in Int, NEW b \in Int, a <= b
  PROVE  m * a <= m * b
OBVIOUS

LEMMA Refills ==
  ASSUME BucketTypes, NEW b, b = Refilled(bucket)
  PROVE  /\ b \in Bucket /\ b.max = bucket.max /\ b.tokens <= b.max
         /\ bucket.filled <= b.filled /\ b.filled <= now
         /\ Minute * (b.tokens - bucket.tokens) <= bucket.max * (b.filled - bucket.filled)
         /\ bucket.max * (now - b.filled) <= Minute - 1
<1>1. /\ Minute \in Nat \ {0} /\ now \in Nat /\ bucket \in Bucket
      /\ bucket.max \in Nat \ {0} /\ bucket.tokens \in Nat /\ bucket.filled \in Nat
      /\ bucket.tokens <= bucket.max /\ bucket.filled <= now
  BY AdvisorConstants DEF BucketTypes, Bucket
<1>2. PICK p : p = bucket.max * (now - bucket.filled)
  OBVIOUS
<1>3. p \in Nat
  BY <1>1, <1>2
<1>4. PICK add : add = p \div Minute
  OBVIOUS
<1>5. add \in Nat /\ Minute * add <= p /\ p < Minute * add + Minute
  BY <1>1, <1>3, <1>4, DivisionBounds
<1>6. CASE add > 0
  <2>1. b = [bucket EXCEPT !.tokens = Min2(bucket.max, bucket.tokens + add),
                           !.filled = now]
    BY <1>2, <1>4, <1>6 DEF Refilled, Filled
  <2>2. PICK t : t = Min2(bucket.max, bucket.tokens + add)
    OBVIOUS
  <2>3. t \in Nat /\ t <= bucket.max /\ t <= bucket.tokens + add
    BY <1>1, <1>5, <2>2 DEF Min2
  <2>4. b \in Bucket /\ b.max = bucket.max /\ b.tokens = t /\ b.filled = now
    BY <1>1, <2>1, <2>2, <2>3 DEF Bucket
  <2>5. t - bucket.tokens <= add
    BY <1>1, <1>5, <2>3
  <2>6. Minute * (t - bucket.tokens) <= Minute * add
    BY <1>1, <1>5, <2>3, <2>5, MoreIsMore
  <2>7. Minute * (t - bucket.tokens) <= p
    <3>1. Minute * (t - bucket.tokens) \in Int /\ Minute * add \in Int
      BY <1>1, <1>5, <2>3
    <3>2. QED
      BY <1>3, <1>5, <2>6, <3>1
  <2>8. bucket.max * (now - now) = 0
    BY <1>1
  <2>9. QED
    BY <1>1, <1>2, <2>3, <2>4, <2>7, <2>8
<1>7. CASE add = 0
  <2>1. b = bucket
    BY <1>2, <1>4, <1>7 DEF Refilled
  <2>2. p <= Minute - 1
    BY <1>1, <1>3, <1>5, <1>7
  <2>3. Minute * (bucket.tokens - bucket.tokens) = 0
    BY <1>1
  <2>4. bucket.max * (bucket.filled - bucket.filled) = 0
    BY <1>1
  <2>5. QED
    BY <1>1, <1>2, <2>1, <2>2, <2>3, <2>4
<1>8. QED
  BY <1>5, <1>6, <1>7

LEMMA Telescopes ==
  ASSUME NEW m \in Nat, NEW M \in Nat, NEW n \in Int, NEW t \in Int, NEW u \in Int,
         NEW f \in Int, NEW g \in Int, NEW c \in Int,
         m * (n + t - M) <= M * (f - c) + m - 1, m * (u - t) <= M * (g - f)
  PROVE  m * (n + u - M) <= M * (g - c) + m - 1
<1>1. m * (n + u - M) = m * (u - t) + m * (n + t - M)
  OBVIOUS
<1>2. M * (g - c) = M * (g - f) + M * (f - c)
  BY DifferencesAdd
<1>3. PICK p \in Int : p = m * (u - t)
  OBVIOUS
<1>4. PICK q \in Int : q = m * (n + t - M)
  OBVIOUS
<1>5. PICK r \in Int : r = M * (g - f)
  OBVIOUS
<1>6. PICK s \in Int : s = M * (f - c)
  OBVIOUS
<1>7. p + q <= r + s + m - 1
  BY <1>3, <1>4, <1>5, <1>6
<1>8. QED
  BY <1>1, <1>2, <1>3, <1>4, <1>5, <1>6, <1>7

(* What one step may do to the clock, the bucket and the calls. *)
BucketStep ==
  \/ UNCHANGED <<bucket, calls>> /\ now' \in {now, now + 1}
  \/ UNCHANGED now /\ (Take \/ TakeFails)
  \/ /\ UNCHANGED now
     /\ \E limit \in Limits : bucket' = NewBucket(limit) /\ calls' = <<>>

LEMMA BucketSteps ==
  ASSUME scene \in Scenes, [SuggestionsNext]_suggestionsVars
  PROVE  BucketStep /\ scene' \in Scenes
<1> USE DEF advisor, table
<1>1. CASE UNCHANGED suggestionsVars
  BY <1>1 DEF suggestionsVars, BucketStep
<1>2. ASSUME NEW r \in Requests, NEW p \in Prompts, NEW chat \in scene.chats,
             AskCache(r, p, chat) \/ AskProvider(r, p, chat) \/ AskTooOften(r, p, chat)
      PROVE  BucketStep /\ scene' = scene
  <2>1. UNCHANGED <<scene, now>>
    BY <1>2 DEF AskCache, AskProvider, AskTooOften, Ask
  <2>2. UNCHANGED <<bucket, calls>> \/ Take \/ TakeFails
    BY <1>2 DEF AskCache, AskProvider, AskTooOften
  <2>3. QED
    BY <2>1, <2>2 DEF BucketStep
<1>3. ASSUME NEW limit \in scene.limits, SetAdvisorConfig(limit)
      PROVE  BucketStep /\ scene' = scene
  BY <1>3, AdvisorConstants DEF SetAdvisorConfig, BucketStep
<1>4. ASSUME NEW r \in Requests,
             \/ Answered(r) \/ AskFails(r) \/ Commit(r) \/ ChangeFails(r)
             \/ \E s \in Suggestions : Refuse(r, s) \/ Act(r, s) \/ Change(r, s)
             \/ \E list, name, on : Toggle(r, list, name, on)
      PROVE  BucketStep /\ scene' = scene
  BY <1>4 DEF Answered, AskFails, Commit, ChangeFails, Refuse, Act, Change,
              Toggle, BucketStep
<1>5. CASE TimePasses
  BY <1>5 DEF TimePasses, BucketStep
<1>6. QED
  BY <1>1, <1>2, <1>3, <1>4, <1>5 DEF SuggestionsNext

(* A bucket that only refills draws nothing. *)
LEMMA DrawnRefilled ==
  ASSUME BucketTypes, NEW i \in DOMAIN calls, Drawn(i),
         NEW b, b = Refilled(bucket)
  PROVE  /\ calls[i] \in Nat /\ calls[i] <= now
         /\ Minute * ((Len(calls) - i + 1) + b.tokens - b.max)
              <= b.max * (b.filled - calls[i]) + Minute - 1
<1>1. /\ Minute \in Nat \ {0} /\ now \in Nat
      /\ bucket.max \in Nat \ {0} /\ bucket.tokens \in Nat /\ bucket.filled \in Nat
  BY AdvisorConstants DEF BucketTypes, Bucket
<1>2. Len(calls) \in Nat /\ i \in 1..Len(calls) /\ calls[i] \in Nat
  BY DEF BucketTypes
<1>3. /\ b.max = bucket.max /\ b.tokens \in Nat /\ b.filled \in Nat
      /\ Minute * (b.tokens - bucket.tokens) <= bucket.max * (b.filled - bucket.filled)
  BY Refills DEF Bucket
<1>4. PICK n \in Int : n = Len(calls) - i + 1
  BY <1>2
<1>5. Minute * (n + bucket.tokens - bucket.max)
        <= bucket.max * (bucket.filled - calls[i]) + Minute - 1
  BY <1>4 DEF Drawn
<1>6. Minute * (n + b.tokens - bucket.max)
        <= bucket.max * (b.filled - calls[i]) + Minute - 1
  <2>1. PICK m \in Nat : m = Minute
    BY <1>1
  <2>2. PICK M \in Nat : M = bucket.max
    BY <1>1
  <2>3. PICK t \in Int : t = bucket.tokens
    BY <1>1
  <2>4. PICK u \in Int : u = b.tokens
    BY <1>3
  <2>5. PICK f \in Int : f = bucket.filled
    BY <1>1
  <2>6. PICK g \in Int : g = b.filled
    BY <1>3
  <2>7. PICK c \in Int : c = calls[i]
    BY <1>2
  <2>8. m * (n + t - M) <= M * (f - c) + m - 1
    BY ONLY <1>5, <2>1, <2>2, <2>3, <2>5, <2>7
  <2>9. m * (u - t) <= M * (g - f)
    BY ONLY <1>3, <2>1, <2>2, <2>3, <2>4, <2>5, <2>6
  <2>10. m * (n + u - M) <= M * (g - c) + m - 1
    BY ONLY <2>8, <2>9, Telescopes
  <2>11. QED
    BY ONLY <2>1, <2>2, <2>4, <2>6, <2>7, <2>10
<1>7. QED
  BY <1>2, <1>3, <1>4, <1>6 DEF Drawn

(* What was drawn within a minute is what a full bucket holds, twice. *)
LEMMA TwoBuckets ==
  ASSUME NEW m \in Nat \ {0}, NEW M \in Nat \ {0}, NEW n \in Int, NEW t \in Nat,
         NEW d \in Int, d <= m - 1, m * (n + t - M) <= M * d + m - 1
  PROVE  n <= 2 * M
<1>1. PICK k \in Int : k = n + t - M
  OBVIOUS
<1>2. M * d <= M * (m - 1)
  BY MoreIsMore
<1>3. M * (m - 1) = m * M - M
  OBVIOUS
<1>4. PICK p, q, r \in Int : p = m * k /\ q = M * d /\ r = m * M
  BY <1>1
<1>5. p <= r - M + m - 1
  BY <1>1, <1>2, <1>3, <1>4
<1>6. p < r + m
  BY <1>4, <1>5
<1>7. m * (M + 1) = r + m
  BY <1>4
<1>8. k < M + 1
  <2>1. SUFFICES ASSUME M + 1 <= k PROVE FALSE
    BY <1>1
  <2>2. m * (M + 1) <= m * k
    BY <1>1, <2>1, MoreIsMore
  <2>3. QED
    BY <1>4, <1>6, <1>7, <2>2
<1>9. QED
  BY <1>1, <1>8

LEMMA RateInvTake ==
  ASSUME RateInv, UNCHANGED now, Take
  PROVE  RateInv'
<1>1. /\ Minute \in Nat \ {0} /\ now \in Nat /\ calls \in Seq(Nat)
      /\ bucket \in Bucket /\ Len(calls) \in Nat /\ BucketTypes
  BY AdvisorConstants DEF RateInv, BucketTypes
<1>2. PICK b : b = Refilled(bucket)
  OBVIOUS
<1>3. /\ b \in Bucket /\ b.max \in Nat \ {0} /\ b.tokens \in Nat /\ b.filled \in Nat
      /\ b.max = bucket.max /\ b.tokens <= b.max /\ b.filled <= now
  BY <1>1, <1>2, Refills DEF Bucket
<1>4. /\ b.tokens > 0 /\ bucket' = [b EXCEPT !.tokens = b.tokens - 1]
      /\ calls' = Append(calls, now)
  BY <1>2 DEF Take
<1>5. /\ bucket' \in Bucket /\ bucket'.max = b.max /\ bucket'.filled = b.filled
      /\ bucket'.tokens = b.tokens - 1 /\ bucket'.tokens \in Nat
  <2>1. PICK t \in Nat : t = b.tokens - 1
    BY <1>3, <1>4
  <2>2. bucket' = [b EXCEPT !.tokens = t]
    BY <1>4, <2>1
  <2>3. QED
    BY ONLY <1>3, <2>1, <2>2 DEF Bucket
<1>6. /\ Len(calls') = Len(calls) + 1 /\ DOMAIN calls' = 1..(Len(calls) + 1)
      /\ calls' \in Seq(Nat) /\ calls'[Len(calls) + 1] = now
      /\ \A i \in 1..Len(calls) : calls'[i] = calls[i] /\ calls[i] \in Nat
  BY <1>1, <1>4
<1>7. BucketTypes'
  <2>1. bucket'.tokens <= bucket'.max /\ bucket'.filled <= now
    BY ONLY <1>3, <1>5
  <2>2. QED
    BY <1>1, <1>5, <1>6, <2>1 DEF BucketTypes
<1>8. ASSUME NEW i \in DOMAIN calls' PROVE Drawn(i)'
  <2>1. CASE i = Len(calls) + 1
    <3>1. (Len(calls') - i + 1) + bucket'.tokens - bucket'.max = b.tokens - b.max
      BY ONLY <1>1, <1>3, <1>5, <1>6, <2>1
    <3>2. b.max * (now - b.filled) <= Minute - 1
      BY <1>1, <1>2, <1>3, Refills
    <3>3. Minute * (b.tokens - b.max) <= 0
      <4>1. b.tokens - b.max <= 0 /\ b.tokens - b.max \in Int
        BY <1>3
      <4>2. Minute * (b.tokens - b.max) <= Minute * 0
        BY <1>1, <4>1, MoreIsMore
      <4>3. QED
        BY <1>1, <4>2
    <3>4. b.max * (b.filled - now) = 0 - b.max * (now - b.filled)
      BY <1>1, <1>3
    <3>5. PICK p \in Int : p = b.max * (now - b.filled)
      BY <1>1, <1>3
    <3>6. Minute * (b.tokens - b.max) <= b.max * (b.filled - now) + Minute - 1
      <4>1. p <= Minute - 1 /\ b.max * (b.filled - now) = 0 - p
        BY ONLY <3>2, <3>4, <3>5
      <4>2. PICK q \in Int : q = Minute * (b.tokens - b.max)
        BY <1>1, <1>3
      <4>3. q <= 0
        BY ONLY <3>3, <4>2
      <4>4. q <= (0 - p) + Minute - 1
        BY ONLY <1>1, <4>1, <4>3
      <4>5. QED
        BY ONLY <4>1, <4>2, <4>4
    <3>7. calls'[i] <= now' /\ calls'[i] = now
      BY <1>1, <1>6, <2>1
    <3>8. QED
      BY ONLY <1>5, <3>1, <3>6, <3>7 DEF Drawn
  <2>2. CASE i \in 1..Len(calls)
    <3>1. /\ calls[i] \in Nat /\ calls[i] <= now
          /\ Minute * ((Len(calls) - i + 1) + b.tokens - b.max)
               <= b.max * (b.filled - calls[i]) + Minute - 1
      <4>1. i \in DOMAIN calls /\ Drawn(i)
        BY <1>1, <2>2 DEF RateInv
      <4>2. QED
        BY <1>1, <1>2, <4>1, DrawnRefilled
    <3>2. (Len(calls') - i + 1) + bucket'.tokens - bucket'.max
            = (Len(calls) - i + 1) + b.tokens - b.max
      <4>1. i \in Int /\ Len(calls) \in Int /\ b.tokens \in Int /\ b.max \in Int
        BY <1>1, <1>3, <2>2
      <4>2. /\ Len(calls') = Len(calls) + 1 /\ bucket'.max = b.max
            /\ bucket'.tokens = b.tokens - 1
        BY <1>5, <1>6
      <4>3. QED
        BY ONLY <4>1, <4>2
    <3>3. calls'[i] = calls[i] /\ now' = now
      BY <1>6, <2>2
    <3>4. QED
      BY ONLY <1>5, <3>1, <3>2, <3>3 DEF Drawn
  <2>3. QED
    BY <1>1, <1>6, <1>8, <2>1, <2>2
<1>9. RateKept'
  <2> SUFFICES ASSUME NEW i \in DOMAIN calls', NEW j \in DOMAIN calls', i <= j,
                      calls'[j] - calls'[i] < Minute
               PROVE  j - i + 1 <= 2 * bucket'.max
    BY DEF RateKept
  <2>1. CASE j \in 1..Len(calls)
    <3>1. i \in 1..Len(calls) /\ DOMAIN calls = 1..Len(calls)
      BY <1>1, <1>6, <2>1
    <3>2. calls'[i] = calls[i] /\ calls'[j] = calls[j]
      BY <1>6, <2>1, <3>1
    <3>3. j - i + 1 <= 2 * bucket.max
      BY <2>1, <3>1, <3>2 DEF RateInv, RateKept
    <3>4. QED
      BY <1>3, <1>5, <3>3
  <2>2. CASE j = Len(calls) + 1
    <3>1. calls'[i] \in Nat /\ now - calls'[i] <= Minute - 1
      <4>1. calls'[j] = now
        BY <1>6, <2>2
      <4>2. calls'[i] \in Nat
        BY <1>6
      <4>3. QED
        BY <1>1, <4>1, <4>2
    <3>2. PICK n \in Int : n = Len(calls') - i + 1
      BY <1>1, <1>6
    <3>3. PICK d \in Int : d = bucket'.filled - calls'[i]
      BY <1>3, <1>5, <3>1
    <3>4. d <= Minute - 1
      <4>1. /\ bucket'.filled \in Int /\ bucket'.filled <= now /\ now \in Int
            /\ Minute \in Int /\ calls'[i] \in Int
        BY ONLY <1>1, <1>3, <1>5, <3>1
      <4>2. QED
        BY ONLY <3>1, <3>3, <4>1
    <3>5. Minute * (n + bucket'.tokens - bucket'.max) <= bucket'.max * d + Minute - 1
      BY <1>8, <3>2, <3>3 DEF Drawn
    <3>6. n <= 2 * bucket'.max
      BY <1>1, <1>3, <1>5, <3>4, <3>5, TwoBuckets
    <3>7. QED
      BY <1>1, <1>6, <2>2, <3>2, <3>6
  <2>3. QED
    BY <1>1, <1>6, <2>1, <2>2
<1>10. QED
  BY <1>7, <1>8, <1>9 DEF RateInv

LEMMA RateInvNext ==
  ASSUME RateInv, BucketStep
  PROVE  RateInv'
<1>1. BucketTypes /\ now \in Nat
  BY DEF RateInv, BucketTypes
<1>2. CASE UNCHANGED <<bucket, calls>> /\ now' \in {now, now + 1}
  <2>1. \A i \in DOMAIN calls : calls[i] \in Nat
    BY <1>1 DEF BucketTypes
  <2>2. BucketTypes'
    BY <1>1, <1>2 DEF BucketTypes, Bucket
  <2>3. \A i \in DOMAIN calls' : Drawn(i)'
    BY <1>1, <1>2, <2>1 DEF RateInv, Drawn
  <2>4. RateKept'
    BY <1>2 DEF RateInv, RateKept
  <2>5. QED
    BY <2>2, <2>3, <2>4 DEF RateInv
<1>3. CASE UNCHANGED now /\ Take
  BY <1>3, RateInvTake
<1>4. CASE UNCHANGED now /\ TakeFails
  <2>1. PICK b : b = Refilled(bucket)
    OBVIOUS
  <2>2. bucket' = b /\ calls' = calls
    BY <1>4, <2>1 DEF TakeFails
  <2>3. b \in Bucket /\ b.max = bucket.max /\ b.tokens <= b.max /\ b.filled <= now
    BY <1>1, <2>1, Refills
  <2>4. BucketTypes'
    BY <1>1, <1>4, <2>2, <2>3 DEF BucketTypes
  <2>5. ASSUME NEW i \in DOMAIN calls PROVE Drawn(i)'
    BY <1>1, <1>4, <2>1, <2>2, DrawnRefilled DEF RateInv, Drawn
  <2>6. RateKept'
    BY <2>2, <2>3 DEF RateInv, RateKept
  <2>7. QED
    BY <2>2, <2>4, <2>5, <2>6 DEF RateInv
<1>5. CASE UNCHANGED now
           /\ \E limit \in Limits : bucket' = NewBucket(limit) /\ calls' = <<>>
  BY <1>1, <1>5, AdvisorConstants
     DEF NewBucket, RateInv, BucketTypes, Bucket, RateKept
<1>6. QED
  BY <1>2, <1>3, <1>4, <1>5 DEF BucketStep

\* The token bucket (ratelimit.go) starts full and drops the rest of the time when
\* it refills: whatever is asked and whenever, fewer than a minute apart are at
\* most two buckets of calls to the provider.
THEOREM ProviderIsSpared == SuggestionsSpec => []RateKept
<1>1. SuggestionsInit => scene \in Scenes /\ RateInv
  <2> SUFFICES ASSUME SuggestionsInit PROVE scene \in Scenes /\ RateInv
    OBVIOUS
  <2>1. PICK limit \in Limits : bucket = NewBucket(limit)
    BY AdvisorConstants DEF SuggestionsInit
  <2>2. scene \in Scenes /\ now = 0 /\ calls = <<>>
    BY DEF SuggestionsInit
  <2>3. QED
    BY <2>1, <2>2, AdvisorConstants
       DEF NewBucket, RateInv, BucketTypes, Bucket, RateKept
<1>2. scene \in Scenes /\ RateInv /\ [SuggestionsNext]_suggestionsVars => (scene \in Scenes /\ RateInv)'
  BY BucketSteps, RateInvNext
<1>3. RateInv => RateKept
  BY DEF RateInv
<1>4. QED
  BY <1>1, <1>2, <1>3, PTL DEF SuggestionsSpec

(* The chat history *)

Message == [who : {"user", "assistant"}, n : Nat]

\* A question with its answer; the answer's exchange is followed by the next.
TurnsInv ==
  /\ turns \in Seq(Message) /\ exchanges \in Nat
  /\ Len(turns) % 2 = 0
  /\ TurnsArePaired

LEMMA SaidKeeps ==
  ASSUME TurnsInv, NEW chat, Said(chat)
  PROVE  TurnsInv'
<1>1. MaxTurns \in Nat \ {0} /\ MaxTurns % 2 = 0
  BY AdvisorConstants
<1>2. CASE UNCHANGED <<turns, exchanges>>
  BY <1>2 DEF TurnsInv, TurnsArePaired
<1>3. CASE ~UNCHANGED <<turns, exchanges>>
  <2> DEFINE u == [who |-> "user", n |-> exchanges + 1]
             a == [who |-> "assistant", n |-> exchanges + 1]
  <2>1. exchanges' = exchanges + 1 /\ turns' = Trimmed(turns \o <<u, a>>)
    BY <1>3 DEF Said
  <2>2. u \in Message /\ a \in Message /\ exchanges \in Nat
    BY DEF TurnsInv, Message
  <2>3. a = [u EXCEPT !.who = "assistant"] /\ u.who = "user"
        /\ u.n = exchanges + 1 /\ a.n = exchanges + 1
    OBVIOUS
  <2> HIDE DEF u, a
  <2>4. PICK h : h = turns \o <<u, a>>
    OBVIOUS
  <2>5. PICK n \in Nat : n = Len(turns)
    BY DEF TurnsInv
  <2>6. /\ h \in Seq(Message) /\ Len(h) = n + 2 /\ DOMAIN h = 1..(n + 2)
        /\ h[n + 1] = u /\ h[n + 2] = a
        /\ \A i \in 1..n : h[i] = turns[i]
    BY <2>2, <2>4, <2>5 DEF TurnsInv
  <2>7. /\ n % 2 = 0 /\ n <= MaxTurns /\ DOMAIN turns = 1..n
        /\ n = Min2(2 * exchanges, MaxTurns)
    BY <1>1, <2>2, <2>5 DEF TurnsInv, TurnsArePaired, Min2
  <2>8. ASSUME NEW i \in 1..(n + 2)
        PROVE  IF i % 2 = 1
               THEN h[i].who = "user" /\ i + 1 \in 1..(n + 2)
                    /\ h[i + 1] = [h[i] EXCEPT !.who = "assistant"]
               ELSE i + 1 \in 1..(n + 2) => h[i + 1].n = h[i].n + 1
    <3>1. CASE i \in 1..n /\ i % 2 = 1
      <4>1. turns[i].who = "user" /\ i + 1 \in 1..n
            /\ turns[i + 1] = [turns[i] EXCEPT !.who = "assistant"]
        BY <2>7, <3>1 DEF TurnsInv, TurnsArePaired
      <4>2. h[i] = turns[i] /\ h[i + 1] = turns[i + 1] /\ i + 1 \in 1..(n + 2)
        BY ONLY n \in Nat, <2>6, <3>1, <4>1
      <4>3. QED
        BY <3>1, <4>1, <4>2
    <3>2. CASE i \in 1..n /\ i % 2 # 1
      <4>1. CASE i = n
        <5>1. turns # <<>>
          BY <2>5, <3>2
        <5>2. h[i] = turns[i] /\ turns[i].n = exchanges
          BY <2>5, <2>6, <3>2, <4>1, <5>1 DEF TurnsInv, TurnsArePaired
        <5>3. QED
          BY <2>2, <2>3, <2>6, <3>2, <4>1, <5>2
      <4>2. CASE i # n
        <5>1. i + 1 \in 1..n
          BY <3>2, <4>2
        <5>2. turns[i + 1].n = turns[i].n + 1
          BY <2>7, <3>2, <5>1 DEF TurnsInv, TurnsArePaired
        <5>3. QED
          BY <2>6, <3>2, <5>1, <5>2
      <4>3. QED
        BY <4>1, <4>2
    <3>3. CASE i = n + 1
      <4>1. h[i] = u /\ h[i + 1] = a /\ i + 1 \in 1..(n + 2)
        BY <2>6, <3>3
      <4>2. i % 2 = 1
        BY <2>7, <3>3
      <4>3. QED
        BY ONLY <2>3, <4>1, <4>2
    <3>4. CASE i = n + 2
      BY <2>7, <3>4
    <3>5. QED
      BY <3>1, <3>2, <3>3, <3>4
  <2>9. exchanges' \in Nat /\ a.n = exchanges'
    <3>1. exchanges' = exchanges + 1 /\ exchanges \in Nat
      BY <2>1, <2>2
    <3>2. exchanges' \in Nat
      BY ONLY <3>1
    <3>3. a.n = exchanges'
      BY <2>3, <3>1
    <3>4. QED
      BY <3>2, <3>3
  <2>10. CASE n + 2 <= MaxTurns
    <3>1. turns' = h
      <4>1. ~(Len(h) > MaxTurns)
        BY <1>1, <2>6, <2>10
      <4>2. QED
        BY <2>1, <2>4, <4>1 DEF Trimmed
    <3>2. (n + 2) % 2 = 0
      BY <2>7
    <3>3. exchanges' \in Nat /\ turns'[n + 2].n = exchanges'
      BY <2>6, <2>9, <3>1
    <3>4. n + 2 = Min2(2 * exchanges', MaxTurns)
      BY <1>1, <2>1, <2>2, <2>7, <2>10 DEF Min2
    <3>5. turns' \in Seq(Message) /\ Len(turns') = n + 2 /\ DOMAIN turns' = 1..(n + 2)
      BY <2>6, <3>1
    <3>7. TurnsArePaired'
      BY <2>8, <3>1, <3>3, <3>4, <3>5 DEF TurnsArePaired
    <3>6. QED
      BY ONLY <3>2, <3>3, <3>5, <3>7 DEF TurnsInv
  <2>11. CASE n + 2 > MaxTurns
    <3>1. n = MaxTurns
      BY <1>1, <2>7, <2>11
    <3>2. turns' = SubSeq(h, 3, n + 2)
      <4>1. Len(h) > MaxTurns /\ Len(h) - MaxTurns + 1 = 3 /\ Len(h) = n + 2
        BY <1>1, <2>6, <3>1
      <4>2. QED
        BY <2>1, <2>4, <4>1 DEF Trimmed
    <3>3. /\ turns' \in Seq(Message) /\ Len(turns') = n /\ DOMAIN turns' = 1..n
          /\ \A i \in 1..n : turns'[i] = h[i + 2]
      BY ONLY n \in Nat, <2>6, <3>2
    <3>4. ASSUME NEW i \in 1..n
          PROVE  IF i % 2 = 1
                 THEN turns'[i].who = "user" /\ i + 1 \in 1..n
                      /\ turns'[i + 1] = [turns'[i] EXCEPT !.who = "assistant"]
                 ELSE i + 1 \in 1..n => turns'[i + 1].n = turns'[i].n + 1
      <4>1. PICK k \in 1..(n + 2) : k = i + 2
        OBVIOUS
      <4>2. k % 2 = i % 2 /\ (k + 1 \in 1..(n + 2) <=> i + 1 \in 1..n)
        BY <4>1
      <4>3. turns'[i] = h[k] /\ (i + 1 \in 1..n => turns'[i + 1] = h[k + 1])
        BY <3>3, <4>1
      <4>4. QED
        BY <2>8, <4>2, <4>3
    <3>5. turns'[n] = a
      BY <1>1, <2>6, <3>1, <3>3
    <3>6. exchanges' \in Nat /\ turns'[n].n = exchanges'
      BY <2>9, <3>5
    <3>7. n = Min2(2 * exchanges', MaxTurns)
      BY <1>1, <2>1, <2>2, <2>7, <3>1 DEF Min2
    <3>8. TurnsArePaired'
      BY <3>3, <3>4, <3>6, <3>7 DEF TurnsArePaired
    <3>9. QED
      BY ONLY <2>7, <3>3, <3>6, <3>8 DEF TurnsInv
  <2>12. QED
    BY <1>1, <2>10, <2>11
<1>4. QED
  BY <1>2, <1>3

LEMMA TurnsSteps ==
  ASSUME [SuggestionsNext]_suggestionsVars
  PROVE  UNCHANGED <<turns, exchanges>> \/ \E chat : Said(chat)
<1> USE DEF advisor, Reply
<1>1. CASE UNCHANGED suggestionsVars
  BY <1>1 DEF suggestionsVars
<1>2. ASSUME NEW r \in Requests, NEW p \in Prompts, NEW chat \in scene.chats,
             AskCache(r, p, chat) \/ AskProvider(r, p, chat) \/ AskTooOften(r, p, chat)
      PROVE  UNCHANGED <<turns, exchanges>> \/ \E c : Said(c)
  BY <1>2 DEF AskCache, AskProvider, AskTooOften
<1>3. ASSUME NEW r \in Requests, Answered(r) PROVE \E c : Said(c)
  BY <1>3 DEF Answered
<1>4. CASE \/ TimePasses
           \/ \E limit \in scene.limits : SetAdvisorConfig(limit)
           \/ \E r \in Requests :
                \/ AskFails(r) \/ Commit(r) \/ ChangeFails(r)
                \/ \E s \in Suggestions : Refuse(r, s) \/ Act(r, s) \/ Change(r, s)
                \/ \E list, name, on : Toggle(r, list, name, on)
  BY <1>4 DEF TimePasses, SetAdvisorConfig, AskFails, Commit, ChangeFails, Refuse, Act,
              Change, Toggle
<1>5. QED
  BY <1>1, <1>2, <1>3, <1>4 DEF SuggestionsNext

\* Chats overlap, and the history is cut to its last ten messages (advisor.go):
\* it stays a list of questions with their answers, in order and without a gap.
THEOREM ChatsStayPaired == SuggestionsSpec => []TurnsArePaired
<1>1. SuggestionsInit => TurnsInv
  BY AdvisorConstants DEF SuggestionsInit, TurnsInv, TurnsArePaired, Min2
<1>2. TurnsInv /\ [SuggestionsNext]_suggestionsVars => TurnsInv'
  <2> SUFFICES ASSUME TurnsInv, [SuggestionsNext]_suggestionsVars PROVE TurnsInv'
    OBVIOUS
  <2>1. CASE UNCHANGED <<turns, exchanges>>
    BY <2>1 DEF TurnsInv, TurnsArePaired
  <2>2. QED
    BY <2>1, TurnsSteps, SaidKeeps
<1>3. TurnsInv => TurnsArePaired
  BY DEF TurnsInv
<1>4. QED
  BY <1>1, <1>2, <1>3, PTL DEF SuggestionsSpec

(* The table of suggestions as an Approval *)

Issued == [s : Suggestions, until : Nat, n : 1..MaxIssues]

\* Every issue has a number of its own.
TableTypes ==
  /\ now \in Nat /\ scene \in Scenes
  /\ \A p \in DOMAIN cache : cache[p].answer \in Answers
  /\ issues \in 0..MaxIssues
  /\ items \in [Ids -> Issued \cup {None}]
  /\ made \subseteq Ids \X (1..issues)
  /\ DOMAIN ran = Offers

\* What may still be taken up, and what it is for.
Open == [o \in OpenOffers |-> [owner |-> items[o[1]].s, until |-> items[o[1]].until]]

\* An entry of the table that is open.
Good(id) == id \in Ids /\ items[id].until > now

LEMMA GoodIsIssued ==
  ASSUME TableTypes, NEW id, Good(id)
  PROVE  /\ items[id] \in Issued /\ items[id] # None /\ Unexpired(id) = items[id]
         /\ items[id].s \in Suggestions /\ items[id].until \in Nat
         /\ items[id].n \in 1..MaxIssues
<1>1. items[id] \in Issued \cup {None} /\ now \in Nat
  BY DEF TableTypes, Good
<1>2. None.until = 0
  BY DEF None
<1>3. items[id] # None
  BY <1>1, <1>2 DEF Good
<1>4. QED
  BY <1>1, <1>3 DEF Good, Issued, Unexpired

OpenIsGood ==
  /\ DOMAIN Open = {<<id, items[id].n>> : id \in {id \in Ids : Good(id)}}
  /\ \A id \in Ids : Good(id) =>
       /\ <<id, items[id].n>> \in DOMAIN Open
       /\ Open[<<id, items[id].n>>] = [owner |-> items[id].s, until |-> items[id].until]
  /\ \A o \in DOMAIN Open : Good(o[1]) /\ o = <<o[1], items[o[1]].n>> /\ o \in Offers
  /\ Open = [o \in DOMAIN Open |-> Open[o]]

LEMMA OpenShape == TableTypes => OpenIsGood
<1> SUFFICES ASSUME TableTypes PROVE OpenIsGood
  OBVIOUS
<1>1. \A id \in Ids : Unexpired(id) # None <=> Good(id)
  BY GoodIsIssued DEF Unexpired, Good
<1>2. OpenOffers = {<<id, items[id].n>> : id \in {id \in Ids : Good(id)}}
  BY <1>1 DEF OpenOffers
<1>3. \A id \in Ids : Good(id) =>
        /\ <<id, items[id].n>> \in DOMAIN Open
        /\ Open[<<id, items[id].n>>] = [owner |-> items[id].s, until |-> items[id].until]
  BY <1>2 DEF Open
<1>4. \A o \in DOMAIN Open : /\ Good(o[1]) /\ o = <<o[1], items[o[1]].n>>
                             /\ o \in Offers
  BY <1>2, GoodIsIssued DEF Open, Offers
<1>5. QED
  BY <1>2, <1>3, <1>4 DEF Open, OpenIsGood

LEMMA OpenShapeNext == TableTypes' => OpenIsGood'
BY OpenShape, PTL

(* Offers that stay as they were are those that Approval keeps. *)
LEMMA OpenKept ==
  ASSUME OpenIsGood', NEW T, DOMAIN Open' = T, \A o \in T : Open'[o] = Open[o]
  PROVE  Open' = A!Keep(T)
<1>1. Open' = [o \in T |-> Open[o]]
  BY DEF OpenIsGood
<1>2. QED
  BY <1>1 DEF A!Keep, Open

(* What a step does to the table. *)
Renews == UNCHANGED now /\ \E answer \in SUBSET Suggestions : Issue(answer)

LEMMA LastingSuggestions == \A answer \in Answers : Lasting(answer) \in SUBSET Suggestions
BY AdvisorConstants DEF Lasting
Uses == UNCHANGED now /\ \E s \in Suggestions : Consume(s)
Sweeps ==
  UNCHANGED <<now, issues, made, ran>> /\ items' = [id \in Ids |-> Unexpired(id)]

LEMMA OfferSteps ==
  ASSUME TableTypes, [SuggestionsNext]_suggestionsVars
  PROVE  /\ scene' = scene /\ \A p \in DOMAIN cache' : cache'[p].answer \in Answers
         /\ \/ UNCHANGED <<now, table>> \/ Renews \/ Uses \/ Sweeps
            \/ now' = now + 1 /\ UNCHANGED table
<1> DEFINE P == /\ scene' = scene /\ \A p \in DOMAIN cache' : cache'[p].answer \in Answers
                /\ \/ UNCHANGED <<now, table>> \/ Renews \/ Uses \/ Sweeps
                   \/ now' = now + 1 /\ UNCHANGED table
<1> USE DEF advisor
<1>0. \A p \in DOMAIN cache : cache[p].answer \in Answers
  BY DEF TableTypes
<1>1. CASE UNCHANGED suggestionsVars
  BY <1>0, <1>1 DEF suggestionsVars
<1>2. ASSUME NEW r \in Requests, NEW p \in Prompts, NEW chat \in scene.chats
      PROVE  /\ AskCache(r, p, chat) => P
             /\ AskProvider(r, p, chat) => P
             /\ AskTooOften(r, p, chat) => P
  <2>1. CASE AskCache(r, p, chat)
    <3>1. cache[p].answer \in Answers /\ Remember(cache[p].answer) /\ UNCHANGED now
      BY <1>0, <2>1 DEF AskCache, Ask, Hit, Reply
    <3>2. Renews
      BY <3>1, LastingSuggestions DEF Renews, Remember
    <3>3. UNCHANGED <<scene, cache>>
      BY <2>1 DEF AskCache, Ask
    <3>4. QED
      BY <1>0, <3>2, <3>3
  <2>2. CASE AskProvider(r, p, chat) \/ AskTooOften(r, p, chat)
    BY <1>0, <2>2 DEF AskProvider, AskTooOften, Ask
  <2>3. QED
    BY <2>1, <2>2
<1>3. ASSUME NEW r \in Requests, Answered(r) PROVE P
  <2>1. PICK a \in scene.answers : /\ Cached(reqs[r].prompt, a)
                                    /\ Reply(r, reqs[r].chat, a)
    BY <1>3 DEF Answered
  <2>2. a \in Answers
    BY AdvisorConstants DEF TableTypes
  <2>3. \A p \in DOMAIN cache' : cache'[p].answer \in Answers
    BY <1>0, <2>1, <2>2 DEF Cached
  <2>4. UNCHANGED <<scene, now>>
    BY <1>3 DEF Answered
  <2>5. Renews
    BY <2>1, <2>2, <2>4, LastingSuggestions DEF Renews, Reply, Remember
  <2>6. QED
    BY <2>3, <2>4, <2>5
<1>4. ASSUME NEW r \in Requests, NEW s \in Suggestions
      PROVE  /\ Refuse(r, s) => P
             /\ Act(r, s) => P
             /\ Change(r, s) => P
  <2>1. CASE Refuse(r, s)
    BY <1>0, <2>1 DEF Refuse, Sweeps
  <2>2. CASE Act(r, s) \/ Change(r, s)
    <3>1. Consume(s) /\ UNCHANGED <<scene, now, cache>>
      BY <2>2 DEF Act, Change
    <3>2. Uses
      BY <3>1 DEF Uses
    <3>3. QED
      BY <1>0, <3>1, <3>2
  <2>3. QED
    BY <2>1, <2>2
<1>5. CASE \/ \E limit \in scene.limits : SetAdvisorConfig(limit)
           \/ \E r \in Requests :
                \/ AskFails(r) \/ Commit(r) \/ ChangeFails(r)
                \/ \E list, name, on : Toggle(r, list, name, on)
  BY <1>0, <1>5 DEF SetAdvisorConfig, AskFails, Commit, ChangeFails, Toggle
<1>6. CASE TimePasses
  BY <1>0, <1>6 DEF TimePasses
<1>7. QED
  BY <1>1, <1>2, <1>3, <1>4, <1>5, <1>6 DEF SuggestionsNext

(* Answers that are remembered. *)
LEMMA Remembered ==
  ASSUME TableTypes, NEW answer \in SUBSET Suggestions, answer # {},
         Issue(answer)
  PROVE  /\ issues' = issues + 1 /\ issues' \in 1..MaxIssues /\ ran' = ran
         /\ made' = made \cup {<<s.id, issues + 1>> : s \in answer}
         /\ answer \subseteq Suggestions
         /\ \A id \in Ids :
              IF \E s \in answer : s.id = id
              THEN /\ items'[id].s \in answer /\ items'[id].s.id = id
                   /\ items'[id].until = now + OfferTtl /\ items'[id].n = issues + 1
                   /\ items'[id] \in Issued
              ELSE items'[id] = Unexpired(id)
         /\ items' \in [Ids -> Issued \cup {None}]
<1>1. /\ issues \in Nat /\ now \in Nat /\ OfferTtl \in Nat /\ MaxIssues \in Nat
      /\ answer \subseteq Suggestions
  BY AdvisorConstants DEF TableTypes
<1>2. /\ issues < MaxIssues /\ issues' = issues + 1 /\ ran' = ran
      /\ made' = made \cup {<<s.id, issues + 1>> : s \in answer}
  BY DEF Issue
<1>3. items' = [id \in Ids |->
        IF \E s \in answer : s.id = id
        THEN [s |-> CHOOSE s \in answer : s.id = id,
              until |-> now + OfferTtl, n |-> issues + 1]
        ELSE Unexpired(id)]
  BY DEF Issue
<1>4. issues + 1 \in 1..MaxIssues /\ now + OfferTtl \in Nat
  BY <1>1, <1>2
<1>5. ASSUME NEW id \in Ids, \E s \in answer : s.id = id
      PROVE  /\ items'[id].s \in answer /\ items'[id].s.id = id
             /\ items'[id].until = now + OfferTtl /\ items'[id].n = issues + 1
             /\ items'[id] \in Issued
  <2>1. PICK t \in answer : t = CHOOSE s \in answer : s.id = id
    BY <1>5
  <2>2. t.id = id
    BY <1>5, <2>1
  <2>3. items'[id] = [s |-> t, until |-> now + OfferTtl, n |-> issues + 1]
    BY <1>3, <1>5, <2>1
  <2>4. QED
    BY <1>1, <1>4, <2>2, <2>3 DEF Issued
<1>6. ASSUME NEW id \in Ids, ~\E s \in answer : s.id = id
      PROVE  items'[id] = Unexpired(id)
  BY <1>3, <1>6
<1>7. \A id \in Ids : Unexpired(id) \in Issued \cup {None}
  BY DEF Unexpired, TableTypes
<1>8. items' \in [Ids -> Issued \cup {None}]
  BY <1>3, <1>5, <1>6, <1>7
<1>9. QED
  BY <1>1, <1>2, <1>4, <1>5, <1>6, <1>8

LEMMA TableTypesNext ==
  ASSUME TableTypes, [SuggestionsNext]_suggestionsVars
  PROVE  TableTypes'
<1>1. /\ scene' \in Scenes /\ \A p \in DOMAIN cache' : cache'[p].answer \in Answers
      /\ now \in Nat /\ issues \in Nat /\ made \subseteq Ids \X (1..issues)
      /\ MaxIssues \in Nat
  BY OfferSteps, AdvisorConstants DEF TableTypes
<1>2. \A id \in Ids : Unexpired(id) \in Issued \cup {None}
  BY DEF Unexpired, TableTypes
<1>3. CASE UNCHANGED table /\ now' \in {now, now + 1}
  BY <1>1, <1>3 DEF table, TableTypes, Offers
<1>4. CASE Renews
  <2>1. PICK answer \in SUBSET Suggestions : Issue(answer) /\ now' = now
    BY <1>4 DEF Renews
  <2>2. CASE answer = {}
    BY <1>1, <2>1, <2>2 DEF Issue, table, TableTypes, Offers
  <2>3. CASE answer # {}
    <3>1. /\ issues' = issues + 1 /\ issues' \in 1..MaxIssues /\ ran' = ran
          /\ made' = made \cup {<<s.id, issues + 1>> : s \in answer}
          /\ answer \subseteq Suggestions /\ items' \in [Ids -> Issued \cup {None}]
      BY <2>1, <2>3, Remembered
    <3>2. \A s \in answer : s.id \in Ids
      BY <3>1 DEF Ids
    <3>3. made' \subseteq Ids \X (1..issues')
      BY <1>1, <3>1, <3>2
    <3>4. QED
      BY <1>1, <2>1, <3>1, <3>3 DEF TableTypes, Offers
  <2>4. QED
    BY <2>2, <2>3
<1>5. CASE Uses
  <2>1. PICK s \in Suggestions : Consume(s) /\ now' = now
    BY <1>5 DEF Uses
  <2>2. items' = [items EXCEPT ![s.id] = None] /\ DOMAIN ran' = DOMAIN ran
        /\ UNCHANGED <<issues, made>>
    BY <2>1 DEF Consume, Taken
  <2>3. items' \in [Ids -> Issued \cup {None}]
    BY <2>2 DEF TableTypes
  <2>4. QED
    BY <1>1, <2>1, <2>2, <2>3 DEF TableTypes, Offers
<1>6. CASE Sweeps
  <2>1. items' \in [Ids -> Issued \cup {None}]
    BY <1>2, <1>6 DEF Sweeps
  <2>2. QED
    BY <1>1, <1>6, <2>1 DEF Sweeps, TableTypes, Offers
<1>7. QED
  BY <1>3, <1>4, <1>5, <1>6, OfferSteps

(* An answer with suggestions renews the offers. *)
LEMMA RememberingRenews ==
  ASSUME TableTypes, TableTypes', UNCHANGED now,
         NEW answer \in SUBSET Suggestions, answer # {}, Issue(answer)
  PROVE  A!Renew
<1>1. /\ issues' = issues + 1 /\ issues' \in 1..MaxIssues /\ ran' = ran
      /\ made' = made \cup {<<s.id, issues + 1>> : s \in answer}
      /\ answer \subseteq Suggestions
  BY Remembered
<1>2. /\ now \in Nat /\ issues \in Nat /\ OfferTtl \in Nat \ {0}
      /\ made \subseteq Ids \X (1..issues)
  BY AdvisorConstants DEF TableTypes
<1>3. OpenIsGood /\ OpenIsGood'
  BY OpenShape, OpenShapeNext
<1>4. PICK New : New = {<<s.id, issues + 1>> : s \in answer}
  OBVIOUS
<1>5. New \cap made = {} /\ New # {} /\ made' = made \cup New
  <2>1. \A o \in New : o[2] = issues + 1
    BY <1>4
  <2>2. \A o \in made : o[2] \in 1..issues
    BY <1>2
  <2>3. issues + 1 \notin 1..issues
    BY <1>2
  <2>4. New # {}
    <3>1. PICK s \in answer : TRUE
      OBVIOUS
    <3>2. <<s.id, issues + 1>> \in New
      BY <1>4
    <3>3. QED
      BY <3>2
  <2>5. QED
    BY ONLY <1>1, <1>4, <2>1, <2>2, <2>3, <2>4
<1>6. made' \ made = New
  BY <1>5
<1>7. \A id \in Ids : (\E s \in answer : s.id = id) =>
        Good(id)' /\ items'[id].n = issues + 1 /\ items'[id].s \in Suggestions
        /\ items'[id].until \in Nat /\ items'[id].until > now
  <2> SUFFICES ASSUME NEW id \in Ids, \E s \in answer : s.id = id
               PROVE  Good(id)' /\ items'[id].n = issues + 1 /\ items'[id].s \in Suggestions
                      /\ items'[id].until \in Nat /\ items'[id].until > now
    OBVIOUS
  <2>1. items'[id].s \in answer /\ items'[id].until = now + OfferTtl
        /\ items'[id].n = issues + 1
    BY Remembered
  <2>2. items'[id].until \in Nat /\ items'[id].until > now
    BY <1>2, <2>1
  <2>3. Good(id)'
    BY <2>2 DEF Good
  <2>4. QED
    BY <1>1, <2>1, <2>2, <2>3
<1>8. \A id \in Ids : (~\E s \in answer : s.id = id) /\ Good(id)' =>
        Good(id) /\ items'[id] = items[id]
  <2> SUFFICES ASSUME NEW id \in Ids, ~\E s \in answer : s.id = id, Good(id)'
               PROVE  Good(id) /\ items'[id] = items[id]
    OBVIOUS
  <2>1. items'[id] = Unexpired(id)
    BY Remembered
  <2>2. None.until = 0 /\ now' = now
    BY DEF None
  <2>3. items'[id].until > now
    BY <2>2 DEF Good
  <2>4. Unexpired(id) = items[id] \/ Unexpired(id) = None
    BY DEF Unexpired
  <2>5. ~(0 > now)
    BY <1>2
  <2>6. QED
    BY <2>1, <2>2, <2>3, <2>4, <2>5 DEF Good
<1>9. ASSUME NEW o \in New
      PROVE  o \in DOMAIN Open' /\ Open'[o] \in A!Terms /\ Open'[o].until > now
             /\ o \in Offers
  <2>1. PICK s \in answer : o = <<s.id, issues + 1>>
    BY <1>4
  <2>2. s.id \in Ids
    BY <1>1 DEF Ids
  <2>3. PICK e : e = items'[s.id]
    OBVIOUS
  <2>4. /\ Good(s.id)' /\ e.n = issues + 1 /\ e.s \in Suggestions
        /\ e.until \in Nat /\ e.until > now
    BY <1>7, <2>2, <2>3
  <2>5. o \in DOMAIN Open' /\ Open'[o] = [owner |-> e.s, until |-> e.until]
    BY <1>3, <2>1, <2>2, <2>3, <2>4 DEF OpenIsGood
  <2>6. o \in Offers
    BY <1>3, <2>5 DEF OpenIsGood
  <2>7. QED
    BY <2>4, <2>5, <2>6 DEF A!Terms
<1>10. ASSUME NEW o \in DOMAIN Open', o \notin New
       PROVE  o \in DOMAIN Open /\ Open'[o] = Open[o]
  <2>1. PICK id \in Ids : Good(id)' /\ o = <<id, items'[id].n>>
    BY <1>3 DEF OpenIsGood, Good
  <2>2. ~\E s \in answer : s.id = id
    BY <1>4, <1>7, <1>10, <2>1
  <2>3. Good(id) /\ items'[id] = items[id]
    BY <1>8, <2>1, <2>2
  <2>4. o \in DOMAIN Open /\ Open[o] = [owner |-> items[id].s, until |-> items[id].until]
    BY <1>3, <2>1, <2>3 DEF OpenIsGood
  <2>5. Open'[o] = [owner |-> items'[id].s, until |-> items'[id].until]
    BY <1>3, <2>1 DEF OpenIsGood
  <2>6. QED
    BY <2>3, <2>4, <2>5
<1>11. made' \subseteq Offers
  <2>1. 1..issues \subseteq 1..MaxIssues
    BY <1>1, <1>2, AdvisorConstants
  <2>2. made \subseteq Offers
    BY <1>2, <2>1 DEF Offers
  <2>3. New \subseteq Offers
    BY <1>9
  <2>4. QED
    BY <1>5, <2>2, <2>3
<1>12. /\ New \subseteq DOMAIN Open' /\ DOMAIN Open' \subseteq DOMAIN Open \cup New
       /\ \A o \in DOMAIN Open' \ New : Open'[o] = Open[o]
       /\ \A o \in New : Open'[o] \in A!Terms /\ Open'[o].until > now
  BY <1>9, <1>10
<1>13. made \subseteq made' /\ made' # made
  BY <1>5
<1>14. QED
  BY <1>1, <1>6, <1>11, <1>12, <1>13 DEF A!Renew, Open

(* A suggestion that is taken up is used. *)
LEMMA ConsumingUses ==
  ASSUME TableTypes, TableTypes', UNCHANGED now, NEW s \in Suggestions, Consume(s)
  PROVE  \E o \in Offers : A!Use(o)
<1>1. PICK id : id = s.id
  OBVIOUS
<1>2. id \in Ids /\ Granted(s)
  BY <1>1 DEF Ids, Consume
<1>3. Good(id) /\ items[id].s = s
  BY <1>1, <1>2 DEF Granted, Unexpired, Good
<1>4. PICK o : o = <<id, items[id].n>>
  OBVIOUS
<1>5. /\ items' = [items EXCEPT ![id] = None] /\ made' = made
      /\ ran' = [ran EXCEPT ![o] = Append(@, s)]
  BY <1>1, <1>4 DEF Consume, Taken
<1>6. OpenIsGood /\ OpenIsGood'
  BY OpenShape, OpenShapeNext
<1>7. /\ o \in DOMAIN Open /\ o \in Offers
      /\ Open[o].owner = s /\ Open[o].until > now
  <2>1. o \in DOMAIN Open /\ Open[o] = [owner |-> s, until |-> items[id].until]
    BY <1>2, <1>3, <1>4, <1>6 DEF OpenIsGood
  <2>2. items[id].until > now
    BY <1>3 DEF Good
  <2>3. QED
    BY <1>6, <2>1, <2>2 DEF OpenIsGood
<1>8. ASSUME NEW i \in Ids
      PROVE  Good(i)' <=> i # id /\ Good(i)
  <2>1. None.until = 0 /\ now \in Nat /\ now' = now
    BY DEF None, TableTypes
  <2>2. CASE i = id
    BY <1>5, <2>1, <2>2 DEF Good, TableTypes
  <2>3. CASE i # id
    BY <1>5, <2>1, <2>3 DEF Good, TableTypes
  <2>4. QED
    BY <2>2, <2>3
<1>9. \A i \in Ids \ {id} : items'[i] = items[i]
  BY <1>5 DEF TableTypes
<1>10. DOMAIN Open' = DOMAIN Open \ {o}
  <2>1. ASSUME NEW p \in DOMAIN Open' PROVE p \in DOMAIN Open \ {o}
    <3>1. PICK i \in Ids : Good(i)' /\ p = <<i, items'[i].n>>
      BY <1>6 DEF OpenIsGood, Good
    <3>2. i # id /\ Good(i) /\ items'[i] = items[i]
      BY <1>8, <1>9, <3>1
    <3>3. QED
      BY <1>4, <1>6, <3>1, <3>2 DEF OpenIsGood
  <2>2. ASSUME NEW p \in DOMAIN Open, p # o PROVE p \in DOMAIN Open'
    <3>1. PICK i \in Ids : Good(i) /\ p = <<i, items[i].n>>
      BY <1>6 DEF OpenIsGood, Good
    <3>2. i # id /\ Good(i)' /\ items'[i] = items[i]
      BY <1>4, <1>8, <1>9, <2>2, <3>1
    <3>3. QED
      BY <1>6, <3>1, <3>2 DEF OpenIsGood
  <2>3. QED
    BY <2>1, <2>2
<1>11. \A p \in DOMAIN Open \ {o} : Open'[p] = Open[p]
  <2> SUFFICES ASSUME NEW p \in DOMAIN Open \ {o} PROVE Open'[p] = Open[p]
    OBVIOUS
  <2>1. PICK i \in Ids : Good(i) /\ p = <<i, items[i].n>>
    BY <1>6 DEF OpenIsGood, Good
  <2>2. i # id /\ Good(i)' /\ items'[i] = items[i]
    BY <1>4, <1>8, <1>9, <2>1
  <2>3. Open[p] = [owner |-> items[i].s, until |-> items[i].until]
    BY <1>6, <2>1 DEF OpenIsGood
  <2>4. Open'[p] = [owner |-> items'[i].s, until |-> items'[i].until]
    BY <1>6, <2>1, <2>2 DEF OpenIsGood
  <2>5. QED
    BY <2>2, <2>3, <2>4
<1>12. Open' = A!Keep(DOMAIN Open \ {o})
  BY <1>6, <1>10, <1>11, OpenKept
<1>13. ran' = [ran EXCEPT ![o] = Append(@, Open[o].owner)]
  BY <1>5, <1>7
<1>14. A!Use(o)
  <2>1. o \in DOMAIN Open /\ now < Open[o].until
    BY <1>7
  <2>2. QED
    BY <1>5, <1>12, <1>13, <2>1 DEF A!Use, Open
<1>15. QED
  BY <1>7, <1>14

(* The sweep for what has expired changes no offer. *)
LEMMA SweepingKeeps ==
  ASSUME TableTypes, TableTypes', Sweeps
  PROVE  UNCHANGED <<now, made, Open, ran>>
<1>1. OpenIsGood /\ OpenIsGood'
  BY OpenShape, OpenShapeNext
<1>2. UNCHANGED <<now, made, ran>> /\ \A id \in Ids : items'[id] = Unexpired(id)
  BY DEF Sweeps
<1>3. ASSUME NEW id \in Ids
      PROVE  (Good(id)' <=> Good(id)) /\ (Good(id) => items'[id] = items[id])
  <2>1. None.until = 0 /\ now \in Nat
    BY DEF None, TableTypes
  <2>2. QED
    BY <1>2, <2>1 DEF Good, Unexpired
<1>4. DOMAIN Open' = DOMAIN Open
  <2>1. DOMAIN Open' \subseteq DOMAIN Open
    BY <1>1, <1>3 DEF OpenIsGood
  <2>2. DOMAIN Open \subseteq DOMAIN Open'
    BY <1>1, <1>3 DEF OpenIsGood
  <2>3. QED
    BY <2>1, <2>2
<1>5. \A o \in DOMAIN Open : Open'[o] = Open[o]
  <2> SUFFICES ASSUME NEW o \in DOMAIN Open PROVE Open'[o] = Open[o]
    OBVIOUS
  <2>1. PICK id \in Ids : Good(id) /\ o = <<id, items[id].n>>
    BY <1>1 DEF OpenIsGood, Good
  <2>2. Open[o] = [owner |-> items[id].s, until |-> items[id].until]
    BY <1>1, <2>1 DEF OpenIsGood
  <2>3. Good(id)' /\ items'[id] = items[id]
    BY <1>3, <2>1
  <2>4. Open'[o] = [owner |-> items'[id].s, until |-> items'[id].until]
    BY <1>1, <2>1, <2>3 DEF OpenIsGood
  <2>5. QED
    BY <2>2, <2>3, <2>4
<1>6. Open' = Open
  BY <1>1, <1>4, <1>5 DEF OpenIsGood
<1>7. QED
  BY <1>2, <1>6

(* A tick ends the offers whose time is up. *)
LEMMA TickingCloses ==
  ASSUME TableTypes, TableTypes', now' = now + 1, UNCHANGED table
  PROVE  A!Tick
<1>1. OpenIsGood /\ OpenIsGood'
  BY OpenShape, OpenShapeNext
<1>2. UNCHANGED <<items, made, ran>> /\ now \in Nat
  BY DEF table, TableTypes
<1>3. ASSUME NEW id \in Ids PROVE Good(id)' <=> Good(id) /\ items[id].until > now'
  <2>1. CASE Good(id)
    BY <1>2, <2>1 DEF Good
  <2>2. CASE ~Good(id)
    <3>1. items[id] \in Issued \cup {None} /\ None.until = 0
      BY DEF TableTypes, None
    <3>2. items[id].until \in Nat
      BY <3>1 DEF Issued
    <3>3. QED
      BY <1>2, <2>2, <3>2 DEF Good
  <2>3. QED
    BY <2>1, <2>2
<1>4. ASSUME NEW o \in DOMAIN Open
      PROVE  /\ o \in DOMAIN Open' <=> Open[o].until > now'
             /\ o \in DOMAIN Open' => Open'[o] = Open[o]
  <2>1. PICK id \in Ids : Good(id) /\ o = <<id, items[id].n>>
    BY <1>1 DEF OpenIsGood, Good
  <2>2. Open[o] = [owner |-> items[id].s, until |-> items[id].until]
    BY <1>1, <2>1 DEF OpenIsGood
  <2>3. o \in DOMAIN Open' => Good(id)'
    BY <1>1, <2>1 DEF OpenIsGood
  <2>4. Good(id)' => o \in DOMAIN Open'
                     /\ Open'[o] = [owner |-> items[id].s, until |-> items[id].until]
    BY <1>1, <1>2, <2>1 DEF OpenIsGood
  <2>5. QED
    BY <1>3, <2>1, <2>2, <2>3, <2>4
<1>5. DOMAIN Open' \subseteq DOMAIN Open
  <2> SUFFICES ASSUME NEW o \in DOMAIN Open' PROVE o \in DOMAIN Open
    OBVIOUS
  <2>1. PICK id \in Ids : Good(id)' /\ o = <<id, items'[id].n>>
    BY <1>1 DEF OpenIsGood, Good
  <2>2. QED
    BY <1>1, <1>2, <1>3, <2>1 DEF OpenIsGood
<1>6. DOMAIN Open' = {o \in DOMAIN Open : Open[o].until > now'}
  BY <1>4, <1>5
<1>7. Open' = A!Keep(DOMAIN Open')
  BY <1>1, <1>4, <1>5, OpenKept
<1>8. QED
  BY <1>2, <1>6, <1>7 DEF A!Tick, Open

\* What the server executes for the model (ai_execute.go) is what it has issued,
\* at most once for each time it was issued, and before it expires, whatever
\* answers, executions and other requests come in between.
THEOREM SuggestionsAreApproved == SuggestionsSpec => Approves
<1>1. SuggestionsInit => TableTypes
  BY AdvisorConstants DEF SuggestionsInit, TableTypes, Offers
<1>2. TableTypes /\ [SuggestionsNext]_suggestionsVars => TableTypes'
  BY TableTypesNext
<1>3. SuggestionsInit => A!Init
  <2> SUFFICES ASSUME SuggestionsInit PROVE A!Init
    OBVIOUS
  <2>1. now = 0 /\ made = {} /\ ran = [o \in Offers |-> <<>>]
    BY DEF SuggestionsInit
  <2>2. \A id \in Ids : Unexpired(id) = None
    BY DEF SuggestionsInit, Unexpired
  <2>3. OpenOffers = {}
    BY <2>2 DEF OpenOffers
  <2>4. Open = [i \in {} |-> 0]
    BY <2>3 DEF Open
  <2>5. QED
    BY <2>1, <2>4 DEF A!Init, Open
<1>4. TableTypes /\ TableTypes' /\ [SuggestionsNext]_suggestionsVars => [A!Next]_(A!vars)
  <2> SUFFICES ASSUME TableTypes, TableTypes', [SuggestionsNext]_suggestionsVars
               PROVE  [A!Next]_(A!vars)
    OBVIOUS
  <2>1. CASE UNCHANGED <<now, table>>
    BY <2>1 DEF table, A!vars, OpenOffers, Unexpired
  <2>2. CASE Renews
    <3>1. PICK answer \in SUBSET Suggestions : Issue(answer) /\ UNCHANGED now
      BY <2>2 DEF Renews
    <3>2. CASE answer = {}
      BY <3>1, <3>2 DEF Issue, table, A!vars, OpenOffers, Unexpired
    <3>3. CASE answer # {}
      BY <3>1, <3>3, RememberingRenews DEF A!Next
    <3>4. QED
      BY <3>2, <3>3
  <2>3. CASE Uses
    BY <2>3, ConsumingUses DEF Uses, A!Next
  <2>4. CASE Sweeps
    BY <2>4, SweepingKeeps DEF A!vars, Open
  <2>5. CASE now' = now + 1 /\ UNCHANGED table
    BY <2>5, TickingCloses DEF A!Next
  <2>6. QED
    BY <2>1, <2>2, <2>3, <2>4, <2>5, OfferSteps
<1>5. QED
  BY <1>1, <1>2, <1>3, <1>4, PTL DEF SuggestionsSpec, Approves, A!Spec

(* The list of rules *)

\* A config, the server's or a request's copy of it, names no rule twice.
NamesOnce(c) ==
  /\ "add_rule" \in DOMAIN c /\ c["add_rule"] \in Seq(Args)
  /\ \A i, j \in DOMAIN c["add_rule"] :
       RuleName[c["add_rule"][i]] = RuleName[c["add_rule"][j]] => i = j

RulesInv ==
  /\ NamesOnce(cfg)
  /\ DOMAIN reqs = Requests
  /\ \A r \in Requests : reqs[r].at = "mutating" =>
       /\ NamesOnce(reqs[r].base)
       /\ reqs[r].op.arg \in Args

(* Adding a rule that is not there, or changing another list, keeps the names apart. *)
LEMMA MutatedKeeps ==
  ASSUME NEW c, NEW op, NamesOnce(c), op.arg \in Args,
         op.type = "add_rule" => ~RuleThere(c, op.arg)
  PROVE  NamesOnce(Mutated(c, op))
<1>1. PICK list \in Seq(Args) : list = c["add_rule"]
  BY DEF NamesOnce
<1>2. PICK d : d = Mutated(c, op)
  OBVIOUS
<1>3. "add_rule" \in DOMAIN d
  BY <1>2 DEF Mutated, NamesOnce
<1>4. CASE op.type # "add_rule"
  <2>1. d["add_rule"] = list
    BY <1>1, <1>2, <1>4 DEF Mutated, NamesOnce
  <2>2. QED
    BY <1>1, <1>2, <1>3, <2>1 DEF NamesOnce
<1>5. CASE op.type = "add_rule"
  <2>1. d["add_rule"] = Append(list, op.arg)
    BY <1>1, <1>2, <1>5 DEF Mutated, NamesOnce
  <2>2. PICK new : new = Append(list, op.arg)
    OBVIOUS
  <2>3. PICK n \in Nat : n = Len(list)
    OBVIOUS
  <2>4. /\ new \in Seq(Args) /\ DOMAIN new = 1..(n + 1) /\ new[n + 1] = op.arg
        /\ DOMAIN list = 1..n /\ \A i \in 1..n : new[i] = list[i]
    BY <2>2, <2>3
  <2>5. \A i \in 1..n : RuleName[list[i]] # RuleName[op.arg]
    BY <1>1, <1>5, <2>4 DEF RuleThere
  <2>6. ASSUME NEW i \in 1..(n + 1), NEW j \in 1..(n + 1),
               RuleName[new[i]] = RuleName[new[j]]
        PROVE  i = j
    <3>1. CASE i = n + 1 /\ j # n + 1
      <4>1. j \in 1..n
        BY <3>1
      <4>2. QED
        BY <2>4, <2>5, <2>6, <3>1, <4>1
    <3>2. CASE i # n + 1 /\ j = n + 1
      <4>1. i \in 1..n
        BY <3>2
      <4>2. QED
        BY <2>4, <2>5, <2>6, <3>2, <4>1
    <3>3. CASE i # n + 1 /\ j # n + 1
      <4>1. i \in 1..n /\ j \in 1..n
        BY <3>3
      <4>2. new[i] = list[i] /\ new[j] = list[j]
        BY <2>4, <4>1
      <4>3. QED
        BY <1>1, <2>4, <2>6, <4>1, <4>2 DEF NamesOnce
    <3>4. QED
      BY <3>1, <3>2, <3>3
  <2>7. QED
    BY <1>2, <1>3, <2>1, <2>2, <2>4, <2>6 DEF NamesOnce
<1>6. QED
  BY <1>4, <1>5

LEMMA RulesInvNext ==
  ASSUME scene \in Scenes, RulesInv, [SuggestionsNext]_suggestionsVars
  PROVE  RulesInv'
<1> USE DEF RulesInv, advisor, table
<1>1. CASE UNCHANGED suggestionsVars
  BY <1>1 DEF suggestionsVars, NamesOnce
<1>2. ASSUME NEW r \in Requests, UNCHANGED cfg,
             NEW new, new.at # "mutating", reqs' = [reqs EXCEPT ![r] = new]
      PROVE  RulesInv'
  BY <1>2 DEF NamesOnce
<1>3. AtRest.at # "mutating"
  BY DEF AtRest
<1>4. ASSUME NEW r \in Requests, NEW p \in Prompts, NEW chat \in scene.chats,
             AskCache(r, p, chat) \/ AskProvider(r, p, chat) \/ AskTooOften(r, p, chat)
      PROVE  RulesInv'
  <2>1. UNCHANGED cfg
    BY <1>4 DEF AskCache, AskProvider, AskTooOften, Ask
  <2>2. CASE AskCache(r, p, chat)
    BY <1>2, <1>3, <2>1, <2>2 DEF AskCache, Reply
  <2>3. CASE AskProvider(r, p, chat)
    <3>1. PICK new : new = [at |-> "asking", prompt |-> p, chat |-> chat]
      OBVIOUS
    <3>2. new.at # "mutating" /\ reqs' = [reqs EXCEPT ![r] = new]
      BY <2>3, <3>1 DEF AskProvider
    <3>3. QED
      BY <1>2, <2>1, <3>2
  <2>4. CASE AskTooOften(r, p, chat)
    BY <2>1, <2>4 DEF AskTooOften, NamesOnce
  <2>5. QED
    BY <1>4, <2>2, <2>3, <2>4
<1>5. ASSUME NEW r \in Requests, Answered(r) \/ AskFails(r) \/ ChangeFails(r)
      PROVE  RulesInv'
  <2>1. UNCHANGED cfg /\ reqs' = [reqs EXCEPT ![r] = AtRest]
    BY <1>5 DEF Answered, Reply, AskFails, ChangeFails
  <2>2. QED
    BY <1>2, <1>3, <2>1
<1>6. ASSUME NEW r \in Requests, NEW op, op.arg \in Args, Clone(r, op), UNCHANGED cfg
      PROVE  RulesInv'
  BY <1>6 DEF Clone, NamesOnce
<1>7. ASSUME NEW r \in Requests, NEW s \in Suggestions, Change(r, s) PROVE RulesInv'
  <2>1. s.arg \in Args
    BY DEF Args
  <2>2. PICK op : op = [type |-> s.type, arg |-> s.arg, on |-> TRUE]
    OBVIOUS
  <2>3. op.arg \in Args /\ Clone(r, op) /\ UNCHANGED cfg
    BY <1>7, <2>1, <2>2 DEF Change
  <2>4. QED
    BY <1>6, <2>3
<1>8. ASSUME NEW r \in Requests, NEW list, NEW name \in Args, NEW on,
             Toggle(r, list, name, on)
      PROVE  RulesInv'
  <2>1. PICK op : op = [type |-> list, arg |-> name, on |-> on]
    OBVIOUS
  <2>2. op.arg \in Args /\ Clone(r, op) /\ UNCHANGED cfg
    BY <1>8, <2>1 DEF Toggle
  <2>3. QED
    BY <1>6, <2>2
<1>9. ASSUME NEW r \in Requests, Commit(r) PROVE RulesInv'
  <2>1. /\ reqs[r].at = "mutating" /\ reqs' = [reqs EXCEPT ![r] = AtRest]
        /\ cfg' = Mutated(reqs[r].base, reqs[r].op)
        /\ reqs[r].op.type = "add_rule" => ~RuleThere(reqs[r].base, reqs[r].op.arg)
    BY <1>9 DEF Commit
  <2>2. PICK d : d = Mutated(reqs[r].base, reqs[r].op)
    OBVIOUS
  <2>3. NamesOnce(d)
    BY <2>1, <2>2, MutatedKeeps
  <2>4. NamesOnce(cfg')
    BY <2>1, <2>2, <2>3
  <2>5. NamesOnce(cfg)'
    BY <2>4 DEF NamesOnce
  <2>6. \A q \in Requests : reqs'[q].at = "mutating" => reqs'[q] = reqs[q]
    BY <1>3, <2>1
  <2>7. DOMAIN reqs' = Requests
    BY <2>1
  <2>8. QED
    BY <2>5, <2>6, <2>7 DEF NamesOnce
<1>10. CASE \/ TimePasses
            \/ \E limit \in scene.limits : SetAdvisorConfig(limit)
            \/ \E r \in Requests, s \in Suggestions : Refuse(r, s) \/ Act(r, s)
  BY <1>10 DEF TimePasses, SetAdvisorConfig, Refuse, Act, NamesOnce
<1>11. scene.switched \subseteq Args
  BY SuggestionsAssumption
<1>12. CASE \E r \in Requests, list \in Lists, name \in scene.switched, on \in BOOLEAN :
              Toggle(r, list, name, on)
  BY <1>8, <1>11, <1>12
<1>13. QED
  BY <1>1, <1>4, <1>5, <1>7, <1>9, <1>10, <1>12 DEF SuggestionsNext

\* Two requests may add a rule at once, and the model may suggest one again: each
\* looks for the name in its own copy of the config (ai_execute.go), and
\* the server's list still never holds two rules of a name.
THEOREM NoRuleTwice == SuggestionsSpec => []RuleNamesDiffer
<1>1. SuggestionsInit => scene \in Scenes /\ RulesInv
  BY DEF SuggestionsInit, RulesInv, NamesOnce, AtRest
<1>2. scene \in Scenes /\ RulesInv /\ [SuggestionsNext]_suggestionsVars => (scene \in Scenes /\ RulesInv)'
  BY BucketSteps, RulesInvNext
<1>3. RulesInv => RuleNamesDiffer
  BY DEF RulesInv, NamesOnce, RuleNamesDiffer
<1>4. QED
  BY <1>1, <1>2, <1>3, PTL DEF SuggestionsSpec

=============================================================================
