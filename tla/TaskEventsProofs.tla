-------------------------- MODULE TaskEventsProofs ---------------------------
(***************************************************************************)
(* A page that shows an old record is about to ask again, for any number   *)
(* of writers, fetches and places in the channels.                         *)
(***************************************************************************)
EXTENDS TaskEvents, TLAPS

(* The version names the record, and none is from the future. *)
Sampled(r) == r.version < store.version \/ r = store

VersionsOK ==
    /\ Sampled(view)
    /\ \A f \in Fetches : fetch[f] \in Record => Sampled(fetch[f])

Inv == TypeOK /\ VersionsOK /\ RefreshComing

(* The initial page has sent its first fetch. *)
LEMMA InitInv == Init => Inv
  <1> SUFFICES ASSUME Init PROVE Inv
    OBVIOUS
  <1> USE EventsAssumption DEF EventsAssumption, Init
  <1>1. TypeOK
    <2>1. view \in Record
      <3>1. 0 \in Nat /\ FALSE \in BOOLEAN
        OBVIOUS
      <3> QED
        BY <3>1 DEF Record
    <2>2. store \in Record
      BY DEF Record
    <2>3. fetch \in [Fetches -> Record \cup {Unsampled, NoFetch}]
      OBVIOUS
    <2>4. 0 \in 0..SubCap /\ 0 \in 0..WireCap
      OBVIOUS
    <2>5. writer \in [Writers -> BOOLEAN]
      OBVIOUS
    <2>6. stream \in BOOLEAN /\ timer \in BOOLEAN /\ missed \in BOOLEAN
      OBVIOUS
    <2> QED
      BY <2>1, <2>2, <2>3, <2>4, <2>5, <2>6 DEF TypeOK
  <1>2. VersionsOK
    BY DEF VersionsOK, Sampled, Record
  <1>3. RefreshComing
    BY DEF RefreshComing, RefreshDue
  <1> QED
    BY <1>1, <1>2, <1>3 DEF Inv

(* Each action keeps the types. *)
LEMMA TypeStep == TypeOK /\ [Next]_vars => TypeOK'
  <1> SUFFICES ASSUME TypeOK, [Next]_vars PROVE TypeOK'
    OBVIOUS
  <1> USE EventsAssumption DEF EventsAssumption, TypeOK
  <1>1. ASSUME NEW w \in Writers, Change(w) PROVE TypeOK'
    BY <1>1 DEF Change, NewRecord, Record
  <1>2. ASSUME NEW w \in Writers, Publish(w) PROVE TypeOK'
    <2>1. writer' \in [Writers -> BOOLEAN] /\ missed' \in BOOLEAN
      BY <1>2 DEF Publish
    <2>2. events' \in 0..SubCap
      BY <1>2 DEF Publish
    <2> QED
      BY <1>2, <2>1, <2>2 DEF Publish
  <1>3. CASE ChangeSilently
    BY <1>3 DEF ChangeSilently, NewRecord, Record
  <1>4. CASE Subscribe
    BY <1>4 DEF Subscribe
  <1>5. CASE Forward
    BY <1>5 DEF Forward
  <1>6. CASE Disconnect
    <2>1. missed' = TRUE \/ missed' = FALSE
      BY <1>6, Zenon DEF Disconnect
    <2>2. events' \in 0..SubCap /\ wire' \in 0..WireCap /\ stream' \in BOOLEAN
      <3>1. events' = 0 /\ wire' = 0 /\ stream' = FALSE
        BY <1>6, Zenon DEF Disconnect
      <3>2. 0 \in 0..SubCap /\ 0 \in 0..WireCap
        OBVIOUS
      <3> QED
        BY <3>1, <3>2
    <2>3. UNCHANGED <<store, writer, timer, fetch, view>>
      BY <1>6 DEF Disconnect
    <2> QED
      BY <2>1, <2>2, <2>3
  <1>7. CASE Receive
    BY <1>7 DEF Receive
  <1>8. ASSUME NEW f \in Fetches, Sample(f) PROVE TypeOK'
    BY <1>8 DEF Sample
  <1>9. ASSUME NEW f \in Fetches, TimerFires(f) PROVE TypeOK'
    BY <1>9 DEF TimerFires, StartFetch
  <1>10. ASSUME NEW f \in Fetches, Poll(f) PROVE TypeOK'
    BY <1>10 DEF Poll, StartFetch
  <1>11. ASSUME NEW f \in Fetches, Deliver(f) PROVE TypeOK'
    BY <1>11 DEF Deliver, Record
  <1>12. ASSUME NEW f \in Fetches, FetchFails(f) PROVE TypeOK'
    BY <1>12 DEF FetchFails
  <1>13. CASE UNCHANGED vars
    BY <1>13 DEF vars
  <1> QED
    BY <1>1, <1>2, <1>3, <1>4, <1>5, <1>6, <1>7, <1>8, <1>9, <1>10, <1>11,
       <1>12, <1>13 DEF Next

(* A change makes every record seen so far an old one; an answer is new. *)
LEMMA VersionsStep == TypeOK /\ VersionsOK /\ [Next]_vars => VersionsOK'
  <1> SUFFICES ASSUME TypeOK, VersionsOK, [Next]_vars PROVE VersionsOK'
    OBVIOUS
  <1> USE EventsAssumption DEF EventsAssumption, TypeOK, VersionsOK, Sampled
  <1>1. ASSUME NewRecord, UNCHANGED <<fetch, view>> PROVE VersionsOK'
    BY <1>1 DEF NewRecord, Record
  <1>2. ASSUME NEW w \in Writers, Change(w) PROVE VersionsOK'
    BY <1>1, <1>2 DEF Change
  <1>3. CASE ChangeSilently
    BY <1>1, <1>3 DEF ChangeSilently
  <1>4. CASE UNCHANGED <<store, fetch, view>>
    BY <1>4
  <1>5. ASSUME NEW f \in Fetches, Sample(f) PROVE VersionsOK'
    BY <1>5 DEF Sample
  <1>6. ASSUME NEW f \in Fetches, StartFetch(f), UNCHANGED <<store, view>>
        PROVE VersionsOK'
    BY <1>6 DEF StartFetch
  <1>7. ASSUME NEW f \in Fetches, Deliver(f) PROVE VersionsOK'
    BY <1>7 DEF Deliver
  <1>8. ASSUME NEW f \in Fetches, FetchFails(f) PROVE VersionsOK'
    BY <1>8 DEF FetchFails
  <1> QED
    BY <1>2, <1>3, <1>4, <1>5, <1>6, <1>7, <1>8
       DEF Next, vars, Publish, Subscribe, Forward, Disconnect, Receive,
           TimerFires, Poll

(* Each step that takes away one reason to ask again leaves another one, or
   is one of those the monitor remembers. *)
LEMMA RefreshStep ==
    TypeOK /\ VersionsOK /\ RefreshComing /\ [Next]_vars => RefreshComing'
  <1> SUFFICES ASSUME TypeOK, VersionsOK, RefreshComing, [Next]_vars,
                      (view # store)', ~missed'
               PROVE RefreshDue'
    BY DEF RefreshComing
  <1> USE EventsAssumption DEF EventsAssumption, TypeOK, RefreshComing, RefreshDue
  <1>1. ASSUME NEW w \in Writers, Change(w) PROVE RefreshDue'
    BY <1>1 DEF Change
  <1>2. ASSUME NEW w \in Writers, Publish(w) PROVE RefreshDue'
    <2>1. stream /\ events' = (IF events < SubCap THEN events + 1 ELSE events)
      BY <1>2 DEF Publish
    <2>2. events' > 0
      BY <2>1
    <2> QED
      BY <2>2
  <1>3. CASE ChangeSilently
    BY <1>3 DEF ChangeSilently
  <1>4. CASE Subscribe
    BY <1>4 DEF Subscribe
  <1>5. CASE Forward
    BY <1>5 DEF Forward
  <1>6. CASE Disconnect
    <2>1. ~missed /\ ~(events + wire > 0)
      BY <1>6 DEF Disconnect
    <2>2. ~(events > 0) /\ ~(wire > 0)
      BY <2>1
    <2> QED
      BY <1>6, <2>1, <2>2 DEF Disconnect
  <1>7. CASE Receive
    BY <1>7 DEF Receive
  <1>8. ASSUME NEW f \in Fetches, Sample(f) PROVE RefreshDue'
    BY <1>8 DEF Sample
  <1>9. ASSUME NEW f \in Fetches, TimerFires(f) PROVE RefreshDue'
    BY <1>9 DEF TimerFires, StartFetch
  <1>10. ASSUME NEW f \in Fetches, Poll(f) PROVE RefreshDue'
    BY <1>10 DEF Poll, StartFetch
  <1>11. ASSUME NEW f \in Fetches, Deliver(f) PROVE RefreshDue'
    <2>1. fetch[f] # store /\ ~missed /\ fetch[f].version >= view.version
      BY <1>11 DEF Deliver, Record
    <2>2. view # store
      BY <2>1, <1>11 DEF Deliver, VersionsOK, Sampled, Record
    <2>3. RefreshDue /\ fetch[f] # Unsampled
      BY <2>1, <2>2, <1>11 DEF Deliver
    <2> QED
      BY <2>1, <2>3, <1>11 DEF Deliver
  <1>12. ASSUME NEW f \in Fetches, FetchFails(f) PROVE RefreshDue'
    BY <1>12 DEF FetchFails
  <1>13. CASE UNCHANGED vars
    BY <1>13 DEF vars
  <1> QED
    BY <1>1, <1>2, <1>3, <1>4, <1>5, <1>6, <1>7, <1>8, <1>9, <1>10, <1>11,
       <1>12, <1>13 DEF Next

(* An old record on a page that was told of every change is on its way out
   (hub.go:69, app.js:627): a dropped event costs nothing. *)
THEOREM OldRecordIsRefreshed == Spec => []RefreshComing
  <1>1. Inv /\ [Next]_vars => Inv'
    BY TypeStep, VersionsStep, RefreshStep DEF Inv
  <1>2. Inv => RefreshComing
    BY DEF Inv
  <1> QED
    BY InitInv, <1>1, <1>2, PTL DEF Spec
=============================================================================
