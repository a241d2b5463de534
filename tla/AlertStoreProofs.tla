--------------------------- MODULE AlertStoreProofs ---------------------------
(***************************************************************************)
(* What AlertStore promises for every set of types, processes and caps,    *)
(* every length of the history ring and every bound on time and raises.    *)
(***************************************************************************)
EXTENDS AlertStore, TLAPS

USE DEF Keys

(* appendHistory keeps the newest entries in order: below capacity nothing
   is lost, at capacity exactly the oldest entry is. *)
Shifts(h, e, d) ==
  /\ Len(AppendHistory(h, e)) = Len(h) + 1 - d
  /\ \A i \in 1..(Len(h) - d) : AppendHistory(h, e)[i] = h[i + d]
  /\ AppendHistory(h, e)[Len(h) + 1 - d] = e

LEMMA AppendHistoryShifts ==
  ASSUME NEW S, NEW h \in Seq(S), NEW e \in S, Len(h) <= MaxHistory,
         NEW d \in {0, 1}, d = IF Len(h) < MaxHistory THEN 0 ELSE 1
  PROVE  AppendHistory(h, e) \in Seq(S) /\ Shifts(h, e, d)
<1> USE DEF Shifts
<1>1. CASE Len(h) < MaxHistory
  <2>1. AppendHistory(h, e) = Append(h, e)
    BY <1>1, StoreAssumption DEF AppendHistory
  <2>2. QED
    BY <1>1, <2>1
<1>2. CASE ~(Len(h) < MaxHistory)
  <2>1. h # <<>> /\ Len(h) > 0
    BY <1>2, StoreAssumption
  <2>2. AppendHistory(h, e) = Append(Tail(h), e)
    BY <1>2, StoreAssumption DEF AppendHistory
  <2>3. /\ Tail(h) \in Seq(S)
        /\ Len(Tail(h)) = Len(h) - 1
        /\ \A i \in 1..(Len(h) - 1) : Tail(h)[i] = h[i + 1]
    BY <2>1
  <2>4. QED
    BY <1>2, <2>1, <2>2, <2>3
<1>3. QED
  BY <1>1, <1>2

-----------------------------------------------------------------------------
(* Typing *)

(* What one raise does to the store, whichever way it goes. *)
LEMMA RaiseTypeOK ==
  ASSUME TypeOK, NEW k \in Keys, NEW sev \in Severities, RaiseAlert(k, sev)
  PROVE  TypeOK'
<1>1. event' \in Event \cup {NoEvent} /\ now' \in 0..MaxTime
  BY DEF TypeOK, RaiseAlert, Event
<1>2. CASE Suppressed(k) /\ UNCHANGED storeVars
  BY <1>1, <1>2 DEF TypeOK, storeVars
<1>3. CASE /\ snoozed' = [snoozed EXCEPT ![k] = 0]
           /\ Refresh(k, sev)
  <2>1. active[k] \in Alert
    BY <1>3 DEF Refresh, IsActive, TypeOK
  <2>2. [active[k] EXCEPT !.severity = sev] \in Alert
    BY <2>1 DEF Alert
  <2>3. active' \in [Keys -> Alert \cup {NotActive}]
    BY <1>3, <2>2 DEF Refresh, TypeOK
  <2>4. snoozed' \in [Keys -> 0..(MaxTime + 1)]
    BY <1>3, StoreAssumption DEF TypeOK
  <2>5. QED
    BY <1>1, <1>3, <2>3, <2>4 DEF Refresh, TypeOK
<1>4. CASE /\ snoozed' = [snoozed EXCEPT ![k] = 0]
           /\ Record(k, sev)
  <2>1. nextID + 1 \in 1..MaxRaises
    BY StoreAssumption DEF TypeOK, RaiseAlert
  <2>2. Entry(k, sev) \in HistoryEntry
    BY <2>1 DEF Entry, HistoryEntry, TypeOK
  <2>3. [severity |-> sev, detected |-> now, n |-> nextID + 1] \in Alert
    BY <2>1 DEF Alert, TypeOK
  <2>4. active' \in [Keys -> Alert \cup {NotActive}]
    BY <1>4, <2>3 DEF Record, TypeOK
  <2>5. history' \in Seq(HistoryEntry) /\ Len(history') <= MaxHistory
    <3>1. PICK d \in {0, 1} : d = IF Len(history) < MaxHistory THEN 0 ELSE 1
      OBVIOUS
    <3>2. /\ AppendHistory(history, Entry(k, sev)) \in Seq(HistoryEntry)
          /\ Len(AppendHistory(history, Entry(k, sev))) = Len(history) + 1 - d
      BY <2>2, <3>1, AppendHistoryShifts DEF TypeOK, Shifts
    <3>3. QED
      BY <1>4, <3>1, <3>2, StoreAssumption DEF Record, TypeOK
  <2>6. snoozed' \in [Keys -> 0..(MaxTime + 1)]
    BY <1>4, StoreAssumption DEF TypeOK
  <2>7. nextID' \in 0..MaxRaises
    BY <1>4, <2>1, StoreAssumption DEF Record
  <2>8. QED
    BY <1>1, <1>4, <2>4, <2>5, <2>6, <2>7 DEF Record, TypeOK
<1>5. QED
  BY <1>2, <1>3, <1>4 DEF RaiseAlert, Raise

(* Every step other than a raise leaves the history alone, activates no key and
   keeps the alerts it does not remove as they are. *)
OtherStep ==
  /\ UNCHANGED <<history, nextID>>
  /\ active' \in [Keys -> Alert \cup {NotActive}]
  /\ \A k \in Keys : active'[k] = active[k] \/ active'[k] = NotActive
  /\ snoozed' \in [Keys -> 0..(MaxTime + 1)]
  /\ \A k \in Keys :
       \/ snoozed'[k] = snoozed[k]
       \/ active'[k] = NotActive
  /\ maxActive' \in Caps
  /\ now' \in now..MaxTime
  /\ event' \in Event \cup {NoEvent}
  /\ event' # NoEvent => event'.type = "anomaly.cleared"

LEMMA NextCases ==
  ASSUME TypeOK, [Next]_vars
  PROVE  \/ \E k \in Keys, sev \in Severities : RaiseAlert(k, sev)
         \/ OtherStep
         \/ UNCHANGED vars
<1> USE DEF OtherStep, TypeOK, Event, NoEvent, Silently
<1>1. ASSUME NEW k \in Keys, ClearAlert(k) PROVE OtherStep
  BY <1>1 DEF ClearAlert, ClearByKey
<1>2. ASSUME NEW k \in Keys, Dismiss(k) PROVE OtherStep
  BY <1>2 DEF Dismiss, ClearByKey
<1>3. CASE DismissAll
  BY <1>3 DEF DismissAll, ClearAll
<1>4. ASSUME NEW k \in Keys, SnoozeAlert(k) PROVE OtherStep
  BY <1>4, StoreAssumption DEF SnoozeAlert, Snooze
<1>5. CASE Reconfigure
  BY <1>5 DEF Reconfigure, SetMaxActive
<1>6. ASSUME NEW t \in Types, Purge(t) PROVE OtherStep
  BY <1>6 DEF Purge, ClearByType
<1>7. CASE Tick
  BY <1>7, StoreAssumption DEF Tick, storeVars
<1>8. QED
  BY <1>1, <1>2, <1>3, <1>4, <1>5, <1>6, <1>7 DEF Next

LEMMA TypeOKInductive == TypeOK /\ [Next]_vars => TypeOK'
<1> SUFFICES ASSUME TypeOK, [Next]_vars PROVE TypeOK'
  OBVIOUS
<1>1. CASE \E k \in Keys, sev \in Severities : RaiseAlert(k, sev)
  BY <1>1, RaiseTypeOK
<1>2. CASE OtherStep
  BY <1>2, StoreAssumption DEF OtherStep, TypeOK
<1>3. CASE UNCHANGED vars
  BY <1>3 DEF vars, TypeOK
<1>4. QED
  BY <1>1, <1>2, <1>3, NextCases

(* The store keeps its types: in particular the history ring never outgrows its
   capacity, whatever the calls of detectors, handlers and config reloads. *)
THEOREM Typing == Spec => []TypeOK
<1>1. Init => TypeOK
  BY StoreAssumption DEF Init, TypeOK
<1>2. QED
  BY <1>1, TypeOKInductive, PTL DEF Spec

-----------------------------------------------------------------------------
(* Snoozes *)

LEMMA ActiveNotSnoozedInductive ==
  TypeOK /\ ActiveNotSnoozed /\ [Next]_vars => ActiveNotSnoozed'
<1> SUFFICES ASSUME TypeOK, ActiveNotSnoozed, [Next]_vars,
                    NEW q \in Keys, IsActive(q)'
             PROVE  snoozed'[q] = 0
  BY DEF ActiveNotSnoozed
<1>1. ASSUME NEW k \in Keys, NEW sev \in Severities, RaiseAlert(k, sev)
      PROVE  snoozed'[q] = 0
  <2>1. CASE Suppressed(k) /\ UNCHANGED storeVars
    BY <2>1 DEF storeVars, IsActive, ActiveNotSnoozed
  <2>2. CASE /\ snoozed' = [snoozed EXCEPT ![k] = 0]
             /\ Refresh(k, sev) \/ Record(k, sev)
    <3>1. CASE q = k
      BY <2>2, <3>1 DEF TypeOK
    <3>2. CASE q # k
      BY <2>2, <3>2 DEF TypeOK, Refresh, Record, IsActive, ActiveNotSnoozed
    <3>3. QED
      BY <3>1, <3>2
  <2>3. QED
    BY <1>1, <2>1, <2>2 DEF RaiseAlert, Raise
<1>2. CASE OtherStep
  BY <1>2 DEF OtherStep, IsActive, ActiveNotSnoozed
<1>3. CASE UNCHANGED vars
  BY <1>3 DEF vars, IsActive, ActiveNotSnoozed
<1>4. QED
  BY <1>1, <1>2, <1>3, NextCases

(* No key is active and snoozed at once, whatever the order of raises, snoozes,
   dismissals and purges. *)
THEOREM SnoozeExcludesActive == Spec => []ActiveNotSnoozed
<1>1. Init => ActiveNotSnoozed
  BY DEF Init, ActiveNotSnoozed, IsActive
<1>2. QED
  BY <1>1, Typing, ActiveNotSnoozedInductive, PTL DEF Spec

LEMMA SnoozeStep ==
  ASSUME TypeOK, ActiveNotSnoozed, [Next]_vars, NEW q \in Keys, IsSnoozed(q)
  PROVE  /\ ~IsActive(q)'
         /\ event' # [type |-> "anomaly.raised", key |-> q] \/ UNCHANGED vars
         /\ nextID' > nextID => history'[Len(history')].key # q
<1> USE DEF TypeOK
<1>1. ~IsActive(q) /\ snoozed[q] # 0
  BY DEF ActiveNotSnoozed, IsSnoozed
<1>2. ASSUME NEW k \in Keys, NEW sev \in Severities, RaiseAlert(k, sev)
      PROVE  /\ ~IsActive(q)'
             /\ event' # [type |-> "anomaly.raised", key |-> q]
             /\ nextID' > nextID => history'[Len(history')].key # q
  <2>1. CASE Suppressed(k) /\ UNCHANGED storeVars
    <3>1. event' = NoEvent
      BY <1>2, <2>1 DEF RaiseAlert, IsNew
    <3>2. QED
      BY <1>1, <2>1, <3>1 DEF storeVars, IsActive, NoEvent
  <2>2. CASE /\ ~Suppressed(k)
             /\ Refresh(k, sev) \/ Record(k, sev)
    <3>1. q # k
      BY <2>2 DEF Suppressed
    <3>2. ~IsActive(q)'
      BY <1>1, <2>2, <3>1 DEF Refresh, Record, IsActive
    <3>3. event' # [type |-> "anomaly.raised", key |-> q]
      BY <1>2, <3>1 DEF RaiseAlert, NoEvent
    <3>4. ASSUME nextID' > nextID PROVE history'[Len(history')].key # q
      <4>1. Record(k, sev)
        BY <2>2, <3>4 DEF Refresh
      <4>2. PICK d \in {0, 1} : d = IF Len(history) < MaxHistory THEN 0 ELSE 1
        OBVIOUS
      <4>3. Entry(k, sev) \in HistoryEntry
        BY <1>2, StoreAssumption DEF Entry, HistoryEntry, RaiseAlert
      <4>4. /\ Len(history') = Len(history) + 1 - d
            /\ history'[Len(history) + 1 - d] = Entry(k, sev)
        BY <4>1, <4>2, <4>3, AppendHistoryShifts DEF Record, Shifts
      <4>5. QED
        BY <3>1, <4>4 DEF Entry
    <3>5. QED
      BY <3>2, <3>3, <3>4
  <2>3. QED
    BY <1>2, <2>1, <2>2 DEF RaiseAlert, Raise
<1>3. CASE OtherStep
  BY <1>1, <1>3 DEF OtherStep, IsActive, NoEvent
<1>4. CASE UNCHANGED vars
  BY <1>1, <1>4 DEF vars, IsActive
<1>5. QED
  BY <1>2, <1>3, <1>4, NextCases

(* A running snooze silences its key: no activation, no announcement and no
   history entry until it ends or is replaced. *)
THEOREM SnoozeIsKept == Spec => SnoozeSilences
<1>1. TypeOK /\ ActiveNotSnoozed /\ [Next]_vars =>
        [\A k \in Keys : IsSnoozed(k) =>
           /\ ~IsActive(k)'
           /\ event' # [type |-> "anomaly.raised", key |-> k]
           /\ nextID' > nextID => history'[Len(history')].key # k]_vars
  BY SnoozeStep
<1>2. QED
  BY <1>1, Typing, SnoozeExcludesActive, PTL DEF Spec, SnoozeSilences

-----------------------------------------------------------------------------
(* History *)

(* HistoryIsLatest strengthened: no entry is from the future, so appending an
   entry of the present keeps the ring sorted; and each active alert's entry is
   at the place its number gives, as long as that place is in the ring. *)
HistoryInv ==
  /\ HistoryIsLatest
  /\ \A i \in 1..Len(history) : history[i].detected <= now
  /\ \A k \in Keys :
       IsActive(k) /\ active[k].n > nextID - Len(history) =>
         LET i == active[k].n - nextID + Len(history)
         IN  /\ i \in 1..Len(history)
             /\ history[i].key = k
             /\ history[i].detected = active[k].detected

LEMMA RecordHistoryInv ==
  ASSUME TypeOK, HistoryInv, NEW k \in Keys, NEW sev \in Severities,
         RaiseAlert(k, sev), Record(k, sev)
  PROVE  HistoryInv'
<1> DEFINE e == Entry(k, sev)
           L == Len(history)
<1>1. /\ L \in Nat /\ nextID \in Nat /\ now \in Nat
      /\ L <= MaxHistory /\ MaxHistory \in Nat \ {0}
      /\ history \in Seq(HistoryEntry)
      /\ \A i \in 1..L : history[i] \in HistoryEntry
  BY StoreAssumption DEF TypeOK
<1>2. \A i \in 1..L : history[i].n \in Int /\ history[i].detected \in Int
  BY <1>1 DEF HistoryEntry
<1>3. PICK d \in {0, 1} : d = IF L < MaxHistory THEN 0 ELSE 1
  OBVIOUS
<1>4. /\ Len(history') = L + 1 - d
      /\ \A i \in 1..(L - d) : history'[i] = history[i + d]
      /\ history'[L + 1 - d] = e
  <2>1. history' = AppendHistory(history, e)
    BY DEF Record
  <2>2. e \in HistoryEntry
    BY StoreAssumption DEF Entry, HistoryEntry, RaiseAlert, TypeOK
  <2>3. /\ history \in Seq(HistoryEntry) /\ Len(history) <= MaxHistory
        /\ d = IF Len(history) < MaxHistory THEN 0 ELSE 1
    BY <1>1, <1>3
  <2>4. /\ Len(AppendHistory(history, Entry(k, sev))) = Len(history) + 1 - d
        /\ \A i \in 1..(Len(history) - d) :
             AppendHistory(history, Entry(k, sev))[i] = history[i + d]
        /\ AppendHistory(history, Entry(k, sev))[Len(history) + 1 - d] = Entry(k, sev)
    <3>1. Shifts(history, Entry(k, sev), d)
      BY <2>2, <2>3, AppendHistoryShifts
    <3>2. QED
      BY <3>1 DEF Shifts
  <2>5. QED
    BY <2>1, <2>4
<1>5. nextID' = nextID + 1 /\ now' = now
  BY DEF Record, RaiseAlert
<1>6. e.n = nextID + 1 /\ e.detected = now /\ e.key = k
  BY DEF Entry
<1>7. /\ L = IF nextID < MaxHistory THEN nextID ELSE MaxHistory
      /\ \A i \in 1..L : history[i].n = nextID - L + i
      /\ \A i \in 1..L : history[i].detected <= now
      /\ \A i, j \in 1..L : i <= j => history[i].detected <= history[j].detected
  BY DEF HistoryInv, HistoryIsLatest
<1>8. \A q \in Keys : IsActive(q) /\ active[q].n > nextID - L =>
        /\ active[q].n - nextID + L \in 1..L
        /\ history[active[q].n - nextID + L].key = q
        /\ history[active[q].n - nextID + L].detected = active[q].detected
  BY DEF HistoryInv
<1> HIDE DEF e, L
<1>9. d \in Int /\ (d = 0 \/ (d = 1 /\ L = MaxHistory)) /\ L <= nextID
  BY <1>1, <1>3, <1>7
\* An index of the new ring is that of the new entry or shifts an old one.
<1>10. \A i \in 1..(L + 1 - d) :
         \/ i = L + 1 - d
         \/ i \in 1..(L - d) /\ i + d \in 1..L
  BY <1>1, <1>9
<1>11. Len(history') = IF nextID' < MaxHistory THEN nextID' ELSE MaxHistory
  BY <1>1, <1>3, <1>4, <1>5, <1>7
<1>12. ASSUME NEW i \in 1..(L + 1 - d)
       PROVE  /\ history'[i].n = nextID + 1 - (L + 1 - d) + i
              /\ history'[i].detected <= now
  <2>1. CASE i = L + 1 - d
    BY <1>1, <1>4, <1>6, <1>9, <2>1
  <2>2. CASE i \in 1..(L - d) /\ i + d \in 1..L
    <3>1. /\ history'[i].n = nextID - L + (i + d)
          /\ history'[i].detected <= now
      BY <1>4, <1>7, <2>2
    <3>2. QED
      BY <1>1, <1>9, <3>1
  <2>3. QED
    BY <1>10, <2>1, <2>2
<1>13. /\ \A i \in 1..(L + 1 - d) : history'[i].n = nextID' - (L + 1 - d) + i
       /\ \A i \in 1..(L + 1 - d) : history'[i].detected <= now'
  BY <1>1, <1>5, <1>9, <1>12
<1>14. \A i, j \in 1..(L + 1 - d) :
         i <= j => history'[i].detected <= history'[j].detected
  <2> SUFFICES ASSUME NEW i \in 1..(L + 1 - d), NEW j \in 1..(L + 1 - d), i <= j
               PROVE  history'[i].detected <= history'[j].detected
    OBVIOUS
  <2>1. CASE j = L + 1 - d
    BY <1>4, <1>6, <1>12, <2>1
  <2>2. CASE j # L + 1 - d
    <3>1. /\ i \in 1..(L - d) /\ i + d \in 1..L
          /\ j \in 1..(L - d) /\ j + d \in 1..L
          /\ i + d <= j + d
      BY <1>1, <1>9, <2>2
    <3>2. QED
      BY <1>4, <1>7, <3>1
  <2>3. QED
    BY <2>1, <2>2
<1>15. ASSUME NEW q \in Keys, IsActive(q)',
              active'[q].n > nextID + 1 - (L + 1 - d)
       PROVE  /\ active'[q].n - (nextID + 1) + (L + 1 - d) \in 1..(L + 1 - d)
              /\ history'[active'[q].n - (nextID + 1) + (L + 1 - d)].key = q
              /\ history'[active'[q].n - (nextID + 1) + (L + 1 - d)].detected
                   = active'[q].detected
  <2>1. CASE active'[q] = active[q]
    <3>1. IsActive(q) /\ active[q] \in Alert
      BY <1>15, <2>1 DEF IsActive, TypeOK
    <3>2. active[q].n \in Nat \ {0}
      BY <3>1, StoreAssumption DEF Alert
    <3>3. active[q].n > nextID - L
      BY <1>1, <1>9, <1>15, <2>1, <3>2
    <3>4. PICK i \in 1..L : i = active[q].n - nextID + L
      BY <1>8, <3>1, <3>3
    <3>5. history[i].key = q /\ history[i].detected = active[q].detected
      BY <1>8, <3>1, <3>3, <3>4
    <3>6. /\ active[q].n - (nextID + 1) + (L + 1 - d) = i - d
          /\ i - d \in 1..(L - d)
          /\ (i - d) + d = i
      <4>1. PICK n \in Nat \ {0} : n = active[q].n
        BY <3>2
      <4>2. n > nextID + 1 - (L + 1 - d) /\ i = n - nextID + L
        BY <1>15, <2>1, <3>4, <4>1
      <4>3. /\ n - (nextID + 1) + (L + 1 - d) = i - d
            /\ i - d \in 1..(L - d)
            /\ (i - d) + d = i
        BY <1>1, <1>9, <4>2
      <4>4. QED
        BY <4>1, <4>3
    <3>7. history'[i - d] = history[i] /\ i - d \in 1..(L + 1 - d)
      BY <1>1, <1>4, <1>9, <3>6
    <3>8. QED
      BY <2>1, <3>5, <3>6, <3>7
  <2>2. CASE active'[q] # active[q]
    <3>1. /\ q = k
          /\ active'[q] = [severity |-> sev, detected |-> now, n |-> nextID + 1]
      BY <2>2 DEF Record, TypeOK
    <3>2. active'[q].n - (nextID + 1) + (L + 1 - d) = L + 1 - d
      BY <1>1, <1>9, <3>1
    <3>3. L + 1 - d \in 1..(L + 1 - d)
      BY <1>1, <1>9
    <3>4. QED
      BY <1>4, <1>6, <3>1, <3>2, <3>3
  <2>3. QED
    BY <2>1, <2>2
<1>16. QED
  <2>1. HistoryIsLatest'
    BY <1>4, <1>11, <1>13, <1>14 DEF HistoryIsLatest
  <2>2. ASSUME NEW q \in Keys, IsActive(q)', active'[q].n > nextID' - Len(history')
        PROVE  LET i == active'[q].n - nextID' + Len(history')
               IN  /\ i \in 1..Len(history')
                   /\ history'[i].key = q
                   /\ history'[i].detected = active'[q].detected
    <3>1. nextID' = nextID + 1 /\ Len(history') = L + 1 - d
      BY <1>4, <1>5
    <3>2. active'[q].n > nextID + 1 - (L + 1 - d)
      <4>1. PICK b \in Int : b = nextID + 1 - (L + 1 - d)
        BY <1>1, <1>9
      <4>2. nextID' - Len(history') = b
        BY <1>1, <1>9, <3>1, <4>1
      <4>3. active'[q].n > b
        BY <2>2, <4>2
      <4>4. QED
        BY <4>1, <4>3
    <3>3. QED
      BY <1>15, <2>2, <3>1, <3>2
  <2>3. QED
    BY <1>4, <1>13, <2>1, <2>2 DEF HistoryInv

LEMMA HistoryInvInductive == TypeOK /\ HistoryInv /\ [Next]_vars => HistoryInv'
<1> SUFFICES ASSUME TypeOK, HistoryInv, [Next]_vars PROVE HistoryInv'
  OBVIOUS
<1>1. ASSUME NEW k \in Keys, NEW sev \in Severities, RaiseAlert(k, sev)
      PROVE  HistoryInv'
  <2>1. CASE UNCHANGED storeVars
    <3>1. now' = now
      BY <1>1 DEF RaiseAlert
    <3>2. QED
      BY <2>1, <3>1 DEF storeVars, HistoryInv, HistoryIsLatest, IsActive
  <2>2. CASE Refresh(k, sev)
    <3>1. UNCHANGED <<history, nextID, now>>
      BY <1>1, <2>2 DEF Refresh, RaiseAlert
    <3>2. active[k] \in Alert
      BY <2>2 DEF Refresh, IsActive, TypeOK
    <3>3. \A q \in Keys : IsActive(q)' =>
            /\ IsActive(q)
            /\ active'[q].n = active[q].n
            /\ active'[q].detected = active[q].detected
      BY <2>2, <3>2 DEF Refresh, IsActive, TypeOK, Alert
    <3>4. QED
      BY <3>1, <3>3 DEF HistoryInv, HistoryIsLatest
  <2>3. CASE Record(k, sev)
    BY <1>1, <2>3, RecordHistoryInv
  <2>4. QED
    BY <1>1, <2>1, <2>2, <2>3 DEF RaiseAlert, Raise
<1>2. CASE OtherStep
  <2>1. /\ UNCHANGED <<history, nextID>>
        /\ now \in Int /\ now' \in Int /\ now <= now'
    BY <1>2 DEF OtherStep, TypeOK
  <2>2. \A q \in Keys : IsActive(q)' => IsActive(q) /\ active'[q] = active[q]
    BY <1>2 DEF OtherStep, IsActive
  <2>3. \A i \in 1..Len(history) : history[i].detected \in Int
    <3>1. \A i \in 1..Len(history) : history[i] \in HistoryEntry
      BY DEF TypeOK
    <3>2. QED
      BY <3>1 DEF HistoryEntry
  <2>4. \A i \in 1..Len(history') : history'[i].detected <= now'
    BY <2>1, <2>3 DEF HistoryInv
  <2>5. QED
    BY <2>1, <2>2, <2>4 DEF HistoryInv, HistoryIsLatest
<1>3. CASE UNCHANGED vars
  BY <1>3 DEF vars, HistoryInv, HistoryIsLatest, IsActive
<1>4. QED
  BY <1>1, <1>2, <1>3, NextCases

LEMMA HistoryInvariant == Spec => []HistoryInv
<1>1. Init => HistoryInv
  BY StoreAssumption DEF Init, HistoryInv, HistoryIsLatest, IsActive
<1>2. QED
  BY <1>1, Typing, HistoryInvInductive, PTL DEF Spec

(* The history is the last MaxHistory raises in the order of detection, however
   long the program has run. *)
THEOREM HistoryIsASuffix == Spec => []HistoryIsLatest
<1>1. HistoryInv => HistoryIsLatest
  BY DEF HistoryInv
<1>2. QED
  BY <1>1, HistoryInvariant, PTL

(* An active alert is missing from the history only when MaxHistory later
   raises pushed it out. *)
THEOREM ActiveAlertsAreRecorded == Spec => []ActiveIsRecorded
<1>1. TypeOK /\ HistoryInv => ActiveIsRecorded
  <2> SUFFICES ASSUME TypeOK, HistoryInv, NEW k \in Keys, IsActive(k),
                      ~(active[k].n <= nextID - MaxHistory)
               PROVE  \E i \in 1..Len(history) :
                        /\ history[i].key = k
                        /\ history[i].n = active[k].n
                        /\ history[i].detected = active[k].detected
    BY DEF ActiveIsRecorded
  <2>1. active[k].n \in Nat \ {0}
    <3>1. active[k] \in Alert
      BY DEF IsActive, TypeOK
    <3>2. QED
      BY <3>1 DEF Alert
  <2>2. nextID \in Nat /\ Len(history) \in Nat /\ MaxHistory \in Nat
    BY StoreAssumption DEF TypeOK
  <2>3. active[k].n > nextID - Len(history)
    BY <2>1, <2>2 DEF HistoryInv, HistoryIsLatest
  <2>4. PICK i : i = active[k].n - nextID + Len(history)
    OBVIOUS
  <2>5. /\ i \in 1..Len(history)
        /\ history[i].key = k
        /\ history[i].detected = active[k].detected
    BY <2>3, <2>4 DEF HistoryInv
  <2>6. history[i].n = active[k].n
    <3>1. history[i].n = nextID - Len(history) + i
      BY <2>5 DEF HistoryInv, HistoryIsLatest
    <3>2. QED
      BY <2>1, <2>2, <2>4, <3>1
  <2>7. QED
    BY <2>5, <2>6
<1>2. QED
  BY <1>1, Typing, HistoryInvariant, PTL

=============================================================================
