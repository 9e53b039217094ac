----------------------------- MODULE TaskEvents ------------------------------
(***************************************************************************)
(* How a change of a task reaches the page that shows the task cards: the  *)
(* writer changes the record and then publishes an event (service.go,      *)
(* hub.go), the SSE handler forwards the event (router.go), the page waits *)
(* a moment and fetches the list (web/static/app.js).  An event carries no *)
(* state: it only makes the page ask.  Events may be dropped, the stream   *)
(* may break, and two fetches may be answered in the other order.          *)
(***************************************************************************)
EXTENDS Naturals

CONSTANTS
    Writers,      \* goroutines that change records
    Fetches,      \* bound: fetches of one page that are under way at a time
    SubCap,       \* capacity of an event subscriber's channel
    WireCap,      \* bound: events written to the stream and not yet read
    MaxChanges,   \* bound: changes of the record
    Unsampled,    \* a fetch the server has not answered yet
    NoFetch       \* a slot of Fetches that is not in use

Record == [version : Nat, active : BOOLEAN]

ASSUME EventsAssumption ==
    /\ SubCap \in Nat \ {0}
    /\ WireCap \in Nat \ {0}
    /\ MaxChanges \in Nat
    /\ Unsampled \notin Record /\ NoFetch \notin Record /\ Unsampled # NoFetch

VARIABLES
    store,     \* the record: its version, and whether it is queued or running
    writer,    \* per writer: has it changed the record and not yet published
    stream,    \* is the page's EventSource connected and subscribed
    events,    \* events in the subscriber's channel
    wire,      \* events on their way to the page
    timer,     \* is a refresh scheduled (cardRefreshTimeout)
    fetch,     \* per slot: NoFetch, Unsampled or the record it was answered with
    view,      \* the record the page shows
    missed     \* monitor: the page was not told of a change it does not show

vars == <<store, writer, stream, events, wire, timer, fetch, view, missed>>

TypeOK ==
    /\ store \in Record
    /\ writer \in [Writers -> BOOLEAN]
    /\ stream \in BOOLEAN
    /\ events \in 0..SubCap
    /\ wire \in 0..WireCap
    /\ timer \in BOOLEAN
    /\ fetch \in [Fetches -> Record \cup {Unsampled, NoFetch}]
    /\ view \in Record
    /\ missed \in BOOLEAN

(* A page that has just been opened shows no task, has sent its first
   fetch and is about to open its stream. *)
Init ==
    /\ \E active \in BOOLEAN : store = [version |-> 1, active |-> active]
    /\ view = [version |-> 0, active |-> FALSE]
    /\ writer = [w \in Writers |-> FALSE]
    /\ stream = FALSE
    /\ events = 0
    /\ wire = 0
    /\ timer = FALSE
    /\ \E f \in Fetches :
          fetch = [g \in Fetches |-> IF g = f THEN Unsampled ELSE NoFetch]
    /\ missed = FALSE

-----------------------------------------------------------------------------
(* The service. *)

NewRecord ==
    /\ store.version < MaxChanges
    /\ \E active \in BOOLEAN :
          store' = [version |-> store.version + 1, active |-> active]

(* A Mark* of the store; its caller publishes in a later step. *)
Change(w) ==
    /\ ~writer[w]
    /\ NewRecord
    /\ writer' = [writer EXCEPT ![w] = TRUE]
    /\ UNCHANGED <<stream, events, wire, timer, fetch, view, missed>>

(* publishTaskChanged: PublishEvent drops the event when the channel is full. *)
Publish(w) ==
    /\ writer[w]
    /\ writer' = [writer EXCEPT ![w] = FALSE]
    /\ IF stream
         THEN /\ events' = IF events < SubCap THEN events + 1 ELSE events
              /\ UNCHANGED missed
         ELSE /\ missed' = TRUE
              /\ UNCHANGED events
    /\ UNCHANGED <<store, stream, wire, timer, fetch, view>>

(* The cleaner corrects a record whose container is gone and tells nobody. *)
ChangeSilently ==
    /\ NewRecord
    /\ missed' = TRUE
    /\ UNCHANGED <<writer, stream, events, wire, timer, fetch, view>>

(* taskEvents subscribes a page whose EventSource connects, or connects again. *)
Subscribe ==
    /\ ~stream
    /\ stream' = TRUE
    /\ UNCHANGED <<store, writer, events, wire, timer, fetch, view, missed>>

(* taskEvents writes one event to the stream; a page that does not read
   blocks it. *)
Forward ==
    /\ stream
    /\ events > 0
    /\ wire < WireCap
    /\ events' = events - 1
    /\ wire' = wire + 1
    /\ UNCHANGED <<store, writer, stream, timer, fetch, view, missed>>

(* The connection breaks; what was on its way is lost, and taskEvents
   unsubscribes the channel. *)
Disconnect ==
    /\ stream
    /\ stream' = FALSE
    /\ events' = 0
    /\ wire' = 0
    /\ missed' = (missed \/ events + wire > 0)
    /\ UNCHANGED <<store, writer, timer, fetch, view>>

(* listTasks copies the records under the store's lock. *)
Sample(f) ==
    /\ fetch[f] = Unsampled
    /\ fetch' = [fetch EXCEPT ![f] = store]
    /\ UNCHANGED <<store, writer, stream, events, wire, timer, view, missed>>

-----------------------------------------------------------------------------
(* The page. *)

StartFetch(f) ==
    /\ fetch[f] = NoFetch
    /\ fetch' = [fetch EXCEPT ![f] = Unsampled]

(* Mutant: an event is ignored while a fetch is under way. *)
ReceiveUnlessFetching ==
    /\ wire > 0
    /\ wire' = wire - 1
    /\ timer' = (timer \/ \A f \in Fetches : fetch[f] = NoFetch)
    /\ UNCHANGED <<store, writer, stream, events, fetch, view, missed>>

(* An event restarts the timer of scheduleCardRefresh. *)
Receive ==
    /\ wire > 0
    /\ wire' = wire - 1
    /\ timer' = TRUE
    /\ UNCHANGED <<store, writer, stream, events, fetch, view, missed>>

TimerFires(f) ==
    /\ timer
    /\ timer' = FALSE
    /\ StartFetch(f)
    /\ UNCHANGED <<store, writer, stream, events, wire, view, missed>>

(* Mutant: a page with a stream does not poll. *)
PollWithoutStream(f) ==
    /\ view.active /\ ~stream
    /\ StartFetch(f)
    /\ UNCHANGED <<store, writer, stream, events, wire, timer, view, missed>>

(* setupActivePolling asks again as long as the page shows an active task. *)
Poll(f) ==
    /\ view.active
    /\ StartFetch(f)
    /\ UNCHANGED <<store, writer, stream, events, wire, timer, view, missed>>

(* loadCards shows what came back, also when a later answer came first. *)
Deliver(f) ==
    /\ fetch[f] \in Record
    /\ view' = fetch[f]
    /\ fetch' = [fetch EXCEPT ![f] = NoFetch]
    /\ missed' = \/ missed /\ fetch[f] # store
                 \/ fetch[f].version < view.version
    /\ UNCHANGED <<store, writer, stream, events, wire, timer>>

(* The request fails or is aborted after 20 s; loadCards is not tried again. *)
FetchFails(f) ==
    /\ fetch[f] # NoFetch
    /\ fetch' = [fetch EXCEPT ![f] = NoFetch]
    /\ missed' = TRUE
    /\ UNCHANGED <<store, writer, stream, events, wire, timer, view>>

-----------------------------------------------------------------------------
Next ==
    \/ \E w \in Writers : Change(w) \/ Publish(w)
    \/ ChangeSilently
    \/ Subscribe
    \/ Forward
    \/ Disconnect
    \/ Receive
    \/ \E f \in Fetches :
          Sample(f) \/ TimerFires(f) \/ Poll(f) \/ Deliver(f) \/ FetchFails(f)

Spec == Init /\ [][Next]_vars

(* Writers and handlers are goroutines, and the page's callbacks are called.
   A request may fail, but not every time; nothing is assumed of the page's
   reading of its stream beyond that it reads what has arrived. *)
Fairness ==
    /\ \A w \in Writers : WF_vars(Publish(w))
    /\ WF_vars(Forward)
    /\ WF_vars(Receive)
    /\ WF_vars(\E f \in Fetches : TimerFires(f))
    /\ WF_vars(\E f \in Fetches : Poll(f))
    /\ \A f \in Fetches : SF_vars(Sample(f)) /\ SF_vars(Deliver(f))

FairSpec == Spec /\ Fairness

-----------------------------------------------------------------------------
(* What will make the page fetch the record as it is now, or already has. *)
RefreshDue ==
    \/ \E w \in Writers : writer[w]
    \/ events > 0
    \/ wire > 0
    \/ timer
    \/ \E f \in Fetches : fetch[f] \in {Unsampled, store}

(* An old record on the page is on its way out: whatever the events that a
   full channel dropped (hub.go:73), unless the page was never told, because
   its stream was not up, a fetch failed, an older answer came later or the
   change was not published. *)
RefreshComing == view # store /\ ~missed => RefreshDue

(* Whatever is lost, a page does not go on showing a task as queued or running
   that has settled: polling (app.js:668) does not depend on events. *)
SettledIsShown == (view.active /\ ~store.active) ~> (~view.active \/ store.active)
=============================================================================
