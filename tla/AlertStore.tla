------------------------------ MODULE AlertStore ------------------------------
(***************************************************************************)
(* The alert store of internal/anomaly/alert.go and the two helpers of     *)
(* internal/anomaly/engine.go through which every detector uses it.        *)
(*                                                                         *)
(* Every operation of the store runs under AlertStore.mu, so each is one   *)
(* action here.  The operations are written as actions without guards on   *)
(* the caller: the detectors' modules conjoin them with their own steps.   *)
(* Time is a counter; an alert is reduced to what the store itself reads   *)
(* or writes (key, severity, time of detection).                           *)
(***************************************************************************)
EXTENDS Integers, FiniteSets, Sequences

CONSTANTS
  Types,       \* alert types: detector names and "rule:<name>"
  Pids,        \* process ids, 0 for an alert about the whole system
  Severities,  \* severities a detector can attach
  Caps,        \* values config gives to max_active_alerts (<= 0: no cap)
  MaxHistory,  \* length of the history ring, AlertStore.maxHistory
  MaxTime,     \* bound: the clock stops here
  MaxRaises    \* bound: raises that reach the history, nextID

ASSUME StoreAssumption ==
  /\ "none" \notin Severities
  /\ Caps \subseteq Int
  /\ Caps # {}
  /\ MaxHistory \in Nat \ {0}
  /\ MaxTime \in Nat
  /\ MaxRaises \in Nat

VARIABLES
  active,     \* the active set: an alert or NotActive for each key
  history,    \* the history ring, oldest entry first
  snoozed,    \* the end of the snooze of each key, 0 when there is none
  maxActive,  \* the cap on the active set
  nextID,     \* raises appended to the history so far
  now,        \* the wall clock
  event       \* the notification the last step emitted

storeVars == <<active, history, snoozed, maxActive, nextID>>
vars == <<active, history, snoozed, maxActive, nextID, now, event>>

\* alertKey: one key for each type and pid.
Keys == Types \X Pids

\* The Alert struct; `n` is the value of nextID its raise left.
Alert == [severity : Severities, detected : 0..MaxTime, n : 1..MaxRaises]
NotActive == [severity |-> "none"]
HistoryEntry ==
  [key : Keys, severity : Severities, detected : 0..MaxTime, n : 1..MaxRaises]

Event == [type : {"anomaly.raised", "anomaly.cleared"}, key : Keys]
NoEvent == [type |-> "none"]

IsActive(k) == active[k] # NotActive
ActiveKeys == {k \in Keys : IsActive(k)}
IsSnoozed(k) == now < snoozed[k]

-----------------------------------------------------------------------------
(* Mutants of the operations below, used by the sensitivity checks only.   *)

\* A ring that starts dropping one entry too early.
AppendHistoryShort(h, e) ==
  IF Len(h) + 1 >= MaxHistory /\ h # <<>> THEN Append(Tail(h), e) ELSE Append(h, e)

\* A snooze that leaves the active alert in place.
SnoozeKeepsActive(k, until) ==
  /\ snoozed' = [snoozed EXCEPT ![k] = until]
  /\ UNCHANGED <<active, history, maxActive, nextID>>

\* A raise that tests the snooze after the active set.
SuppressedWhenActive(k) == IsSnoozed(k) /\ IsActive(k)

-----------------------------------------------------------------------------
(* AlertStore                                                              *)

Init ==
  /\ active = [k \in Keys |-> NotActive]
  /\ history = <<>>
  /\ snoozed = [k \in Keys |-> 0]
  /\ maxActive \in Caps
  /\ nextID = 0
  /\ now = 0
  /\ event = NoEvent

\* The safety cap of Raise.
AtCap == maxActive > 0 /\ Cardinality(ActiveKeys) >= maxActive

\* appendHistory: the ring drops its oldest entry when it is full.
AppendHistory(h, e) ==
  IF Len(h) >= MaxHistory THEN Append(Tail(h), e) ELSE Append(h, e)

\* Raise returns at once for a key whose snooze has not run out.
Suppressed(k) == IsSnoozed(k)

\* Raise of a key that is active already: its details are refreshed, it is
\* not new and the history is not touched.
Refresh(k, sev) ==
  /\ IsActive(k)
  /\ active' = [active EXCEPT ![k].severity = sev]
  /\ UNCHANGED <<history, maxActive, nextID>>

Entry(k, sev) ==
  [key |-> k, severity |-> sev, detected |-> now, n |-> nextID + 1]

\* Raise of a key that is not active: the history gets it in any case, the
\* active set only below the cap.
Record(k, sev) ==
  /\ ~IsActive(k)
  /\ nextID' = nextID + 1
  /\ history' = AppendHistory(history, Entry(k, sev))
  /\ active' = IF AtCap THEN active
               ELSE [active EXCEPT ![k] =
                      [severity |-> sev, detected |-> now, n |-> nextID + 1]]
  /\ UNCHANGED maxActive

\* Raise: an expired snooze is forgotten on the way.
Raise(k, sev) ==
  \/ Suppressed(k) /\ UNCHANGED storeVars
  \/ /\ ~Suppressed(k)
     /\ snoozed' = [snoozed EXCEPT ![k] = 0]
     /\ Refresh(k, sev) \/ Record(k, sev)

\* ClearByKey, and Clear through it.
ClearByKey(k) ==
  /\ active' = [active EXCEPT ![k] = NotActive]
  /\ UNCHANGED <<history, snoozed, maxActive, nextID>>

ClearByType(t) ==
  /\ active' = [k \in Keys |-> IF k[1] = t THEN NotActive ELSE active[k]]
  /\ UNCHANGED <<history, snoozed, maxActive, nextID>>

ClearAll ==
  /\ active' = [k \in Keys |-> NotActive]
  /\ UNCHANGED <<history, snoozed, maxActive, nextID>>

\* Snooze overwrites whatever snooze the key had.
Snooze(k, until) ==
  /\ snoozed' = [snoozed EXCEPT ![k] = until]
  /\ active' = [active EXCEPT ![k] = NotActive]
  /\ UNCHANGED <<history, maxActive, nextID>>

\* SetMaxActive does not trim an active set that is over the new cap.
SetMaxActive(n) ==
  /\ maxActive' = n
  /\ UNCHANGED <<active, history, snoozed, nextID>>

-----------------------------------------------------------------------------
(* The detectors' side: AnalysisContext.RaiseAlert and ClearAlert           *)

\* The second result of Raise.
IsNew(k) == ~Suppressed(k) /\ ~IsActive(k) /\ ~AtCap

\* RaiseAlert: subscribers are told of new alerts only, so not of a refresh
\* that changes the severity.
RaiseAlert(k, sev) ==
  /\ nextID < MaxRaises
  /\ Raise(k, sev)
  /\ event' = IF IsNew(k) THEN [type |-> "anomaly.raised", key |-> k] ELSE NoEvent
  /\ UNCHANGED now

\* ClearAlert: subscribers are told whether or not there was an alert.
ClearAlert(k) ==
  /\ ClearByKey(k)
  /\ event' = [type |-> "anomaly.cleared", key |-> k]
  /\ UNCHANGED now

-----------------------------------------------------------------------------
(* The other callers: HTTP handlers and the application of a new config.   *)

Silently(A) == A /\ event' = NoEvent /\ UNCHANGED now

\* handleAlertDismiss
Dismiss(k) == Silently(ClearByKey(k))

\* handleAlertsClear
DismissAll == Silently(ClearAll)

\* handleAlertSnooze computes the end of the snooze before it takes the
\* store's lock, so the end may have passed when Snooze runs.
SnoozeAlert(k) == \E until \in 1..(MaxTime + 1) : Silently(Snooze(k, until))

\* applyConfig sets the cap; clearDisabledDetectorAlerts purges a type.
Reconfigure == \E n \in Caps : Silently(SetMaxActive(n))
Purge(t) == Silently(ClearByType(t))

Tick ==
  /\ now < MaxTime
  /\ now' = now + 1
  /\ event' = NoEvent
  /\ UNCHANGED storeVars

Next ==
  \/ \E k \in Keys, sev \in Severities : RaiseAlert(k, sev)
  \/ \E k \in Keys : ClearAlert(k)
  \/ \E k \in Keys : Dismiss(k)
  \/ DismissAll
  \/ \E k \in Keys : SnoozeAlert(k)
  \/ Reconfigure
  \/ \E t \in Types : Purge(t)
  \/ Tick

Spec == Init /\ [][Next]_vars

-----------------------------------------------------------------------------
(* Properties                                                              *)

\* Every variable keeps its type; the ring never outgrows MaxHistory.
TypeOK ==
  /\ active \in [Keys -> Alert \cup {NotActive}]
  /\ history \in Seq(HistoryEntry)
  /\ Len(history) <= MaxHistory
  /\ snoozed \in [Keys -> 0..(MaxTime + 1)]
  /\ maxActive \in Caps
  /\ nextID \in 0..MaxRaises
  /\ now \in 0..MaxTime
  /\ event \in Event \cup {NoEvent}

\* No alert is active while the store still holds a snooze for its key: Raise
\* drops an expired snooze before it activates, Snooze drops the alert.
ActiveNotSnoozed == \A k \in Keys : IsActive(k) => snoozed[k] = 0

\* A running snooze silences its key: no step makes the alert active, announces
\* it or writes it to the history while the snooze lasts.
SnoozeSilences ==
  [][\A k \in Keys : IsSnoozed(k) =>
       /\ ~IsActive(k)'
       /\ event' # [type |-> "anomaly.raised", key |-> k]
       /\ nextID' > nextID => history'[Len(history')].key # k]_vars

\* The active set grows one alert at a time and only below the cap in force,
\* however the cap was changed under the alerts already there.
GrowsBelowCap ==
  [][\A k \in Keys : ~IsActive(k) /\ IsActive(k)' =>
       /\ ActiveKeys' = ActiveKeys \cup {k}
       /\ maxActive > 0 => Cardinality(ActiveKeys) < maxActive]_vars

\* The history is exactly the last MaxHistory raises that were not snoozed or
\* repeated, in order, including those the cap kept out of the active set.
HistoryIsLatest ==
  /\ Len(history) = IF nextID < MaxHistory THEN nextID ELSE MaxHistory
  /\ \A i \in 1..Len(history) : history[i].n = nextID - Len(history) + i
  /\ \A i, j \in 1..Len(history) :
       i <= j => history[i].detected <= history[j].detected

\* Each active alert still has its own entry in the history, unless MaxHistory
\* later raises pushed it out; the entry keeps the time of detection.
ActiveIsRecorded ==
  \A k \in Keys : IsActive(k) =>
    \/ active[k].n <= nextID - MaxHistory
    \/ \E i \in 1..Len(history) :
         /\ history[i].key = k
         /\ history[i].n = active[k].n
         /\ history[i].detected = active[k].detected

\* Subscribers hear of an alert exactly when it enters the active set.
AnnouncedWhenNew ==
  [][\A k \in Keys :
       (~IsActive(k) /\ IsActive(k)') =
         (event' = [type |-> "anomaly.raised", key |-> k])]_vars

=============================================================================
