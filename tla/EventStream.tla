---------------------------- MODULE EventStream ----------------------------
(***************************************************************************)
(* The live event stream of one task: the server appends each event to the *)
(* task's log and publishes it to the open connections (events/event-bus,  *)
(* routes/task-events), and the web application's hook useTaskEvents       *)
(* (apps/web/hooks) follows the log over a WebSocket that may be lost,     *)
(* refused or cut off, reconnecting after a bounded number of delays.      *)
(* A connection's frames arrive in the order they were sent; the client    *)
(* and the server learn of a lost connection separately.                   *)
(***************************************************************************)
EXTENDS Integers, Sequences, FiniteSets, SequencesExt

CONSTANTS
  Viewers,      \* pages that show the task, each with one useTaskEvents
  Restless,     \* bound: pages that may leave the task or reconnect by hand
  Conns,        \* bound: connections that exist at a time
  None,         \* no connection, no viewer
  Limit,        \* maxSubscribersPerTask
  Delays,       \* how many reconnect delays there are
  MaxEvents,    \* bound: events in the log
  MaxRuns,      \* bound: runs of the task, the later ones retries
  MaxFaults,    \* bound: lost connections, full buffers and crashes
  MaxGestures   \* bound: pages left and manual reconnects

ASSUME StreamBounds ==
  /\ {Limit, Delays, MaxEvents, MaxRuns} \subseteq Nat \ {0}
  /\ {MaxFaults, MaxGestures} \subseteq Nat
  /\ IsFiniteSet(Conns)

VARIABLES
  log,       \* the task's events, as stored
  conn,      \* the connections, on the server and on the wire
  view,      \* each page's useTaskEvents
  up,        \* the server is running
  boot,      \* which process it is
  faults, gestures

vars == <<log, conn, view, up, boot, faults, gestures>>

ConnectionState ==
  {"idle", "connecting", "connected", "reconnecting", "completed", "disconnected", "error"}

(* "boot" stands for the eventId: two processes never write the same one. *)
Event == [at : 1..MaxEvents, run : 1..MaxRuns, boot : 0..MaxFaults, terminal : BOOLEAN]

(* 1000 after a terminal event, 4503 at the subscriber limit, 4504 when    *)
(* too slow, 1006 when the network or the process is gone                  *)
CloseCode == {1000, 1006, 4503, 4504}
Frame ==
  [kind : {"open"}] \cup [kind : {"event"}, event : Event] \cup [kind : {"close"}, code : CloseCode]

Connection ==
  [viewer : Viewers \cup {None}, phase : {"opening", "open", "closed"},
   delivered : 0..MaxEvents, wire : Seq(Frame)]
View ==
  [state : ConnectionState, socket : Conns \cup {None}, accepted : Seq(Event),
   attempts : 0..Delays, since : 0..MaxEvents]

ASSUME NoneIsNothing == None \notin Conns \cup Viewers \cup Connection

OpenFrame == [kind |-> "open"]
EventFrame(e) == [kind |-> "event", event |-> e]
CloseFrame(code) == [kind |-> "close", code |-> code]

Closed == log # <<>> /\ Last(log).terminal
RunNow == IF log = <<>> THEN 1 ELSE Last(log).run

(* "open" is subscribed to the bus; "closed" by the server, unread *)
Subscribers == {c \in Conns : conn[c] # None /\ conn[c].phase = "open"}

Idle == [state |-> "idle", socket |-> None, accepted |-> <<>>, attempts |-> 0, since |-> 0]

Init ==
  /\ log = <<>>
  /\ conn = [c \in Conns |-> None]
  /\ view = [v \in Viewers |-> Idle]
  /\ up = TRUE
  /\ boot = 0
  /\ faults = 0
  /\ gestures = 0

-----------------------------------------------------------------------------
(* The server's side of a connection. *)

(* A connection whose page is gone carries nothing, and is forgotten once  *)
(* the server has closed it too.                                           *)
Tidy(k) ==
  IF k.viewer # None THEN k
  ELSE IF k.phase = "closed" THEN None ELSE [k EXCEPT !.wire = <<>>]

Shut(k, code) == [k EXCEPT !.phase = "closed", !.wire = Append(@, CloseFrame(code))]

(* bufferedAmount can only exceed its maximum while an event is unread. *)
MayBeFull(k) == k.viewer = None \/ \E i \in DOMAIN k.wire : k.wire[i].kind = "event"

(* Mutant: the event that would not fit is skipped, the connection stays. *)
SentSkipping(k, e, full) ==
  IF k.phase # "open" \/ e.at <= k.delivered THEN k
  ELSE IF full /\ MayBeFull(k) THEN [k EXCEPT !.delivered = e.at]
  ELSE LET s == [k EXCEPT !.delivered = e.at, !.wire = Append(@, EventFrame(e))]
       IN  IF e.terminal THEN Shut(s, 1000) ELSE s

(* send, for one event *)
Sent(k, e, full) ==
  IF k.phase # "open" \/ e.at <= k.delivered THEN k
  ELSE IF full /\ MayBeFull(k) THEN Shut(k, 4504)
  ELSE LET s == [k EXCEPT !.delivered = e.at, !.wire = Append(@, EventFrame(e))]
       IN  IF e.terminal THEN Shut(s, 1000) ELSE s

(* The replay of the stored events; the buffer is full at one of them, or  *)
(* at none of them (0).                                                    *)
Replayed(k, events, fullAt) ==
  LET after[i \in 0..Len(events)] ==
        IF i = 0 THEN k ELSE Sent(after[i - 1], events[i], events[i].at = fullAt)
  IN  after[Len(events)]

(* Mutant: the history is read before an event is stored that the bus       *)
(* publishes before the subscription.                                      *)
StoredBefore(n) == SubSeq(log, n + 1, Len(log) - 1)

(* list(taskId, afterSequence) *)
StoredAfter(n) == SubSeq(log, n + 1, Len(log))

(* handleTaskEventsConnection: subscribe, then replay *)
Accept(c) ==
  /\ up /\ conn[c] # None /\ conn[c].phase = "opening"
  /\ LET k == [conn[c] EXCEPT !.phase = "open", !.wire = <<OpenFrame>>]
         stored == StoredAfter(k.delivered)
     IN  IF Cardinality(Subscribers) >= Limit
         THEN conn' = [conn EXCEPT ![c] = Tidy(Shut(k, 4503))] /\ faults' = faults
         ELSE \E fullAt \in {0} \cup {e.at : e \in Range(stored)} :
                LET r == Replayed(k, stored, fullAt)
                    cut == Last(r.wire) = CloseFrame(4504)
                IN  /\ cut = (fullAt # 0)
                    /\ cut => faults < MaxFaults
                    /\ faults' = IF cut THEN faults + 1 ELSE faults
                    /\ conn' = [conn EXCEPT ![c] = Tidy(r)]
  /\ UNCHANGED <<log, view, up, boot, gestures>>

(* EventBus.publish; "full" is the connections whose buffer is full *)
Published(e, full) ==
  [c \in Conns |-> IF conn[c] = None THEN None ELSE Tidy(Sent(conn[c], e, c \in full))]

Events ==
  IF Closed
  THEN [at : {Len(log) + 1}, run : {RunNow + 1}, boot : {boot}, terminal : {FALSE}]
  ELSE [at : {Len(log) + 1}, run : {RunNow}, boot : {boot}, terminal : BOOLEAN]

(* Mutant: the event is published first, and then the store refuses it. *)
RecordAfterPublishing(e, full) ==
  /\ \/ log' = Append(log, e)
     \/ log' = log
  /\ conn' = Published(e, full)

(* #handleEvent: the event is stored first, and published only if it was.  *)
(* A retry opens the log of a task that ended, for another run.            *)
Record(e, full) ==
  /\ log' = Append(log, e)
  /\ conn' = Published(e, full)

Emit ==
  /\ up
  /\ Closed => RunNow < MaxRuns
  /\ \E e \in Events, full \in {{}} \cup {{c} : c \in {d \in Subscribers : MayBeFull(conn[d])}} :
       /\ Len(log) < IF e.terminal THEN MaxEvents ELSE MaxEvents - 1
       /\ full # {} => faults < MaxFaults
       /\ faults' = faults + Cardinality(full)
       /\ Record(e, full)
  /\ UNCHANGED <<view, up, boot, gestures>>

(* The socket's close event reaches the server. *)
Notice(c) ==
  /\ up /\ conn[c] # None /\ conn[c].viewer = None
  /\ conn' = [conn EXCEPT ![c] = None]
  /\ UNCHANGED <<log, view, up, boot, faults, gestures>>

(* The process dies with its bus.  A frame still on the wire is lost here; *)
(* one that survives is read before this step, which it does not disturb.  *)
Crash ==
  /\ up /\ faults < MaxFaults
  /\ conn' = [c \in Conns |->
       IF conn[c] = None \/ conn[c].phase = "closed" THEN conn[c]
       ELSE Tidy(Shut([conn[c] EXCEPT !.wire = <<>>], 1006))]
  /\ up' = FALSE
  /\ faults' = faults + 1
  /\ UNCHANGED <<log, view, boot, gestures>>

(* Mutant: the event that ends the interrupted run has a run of its own. *)
RecoveryEventOfNewRun ==
  [at |-> Len(log) + 1, run |-> RunNow + 1, boot |-> boot + 1, terminal |-> TRUE]

RecoveryEvent == [at |-> Len(log) + 1, run |-> RunNow, boot |-> boot + 1, terminal |-> TRUE]

(* reconcileTasks ends the run the crash interrupted, before the server    *)
(* listens; the log keeps its last place for the event that ends it.       *)
Restart ==
  /\ ~up
  /\ up' = TRUE
  /\ boot' = boot + 1
  /\ log' = IF log = <<>> \/ Closed THEN log ELSE Append(log, RecoveryEvent)
  /\ UNCHANGED <<conn, view, faults, gestures>>

-----------------------------------------------------------------------------
(* useTaskEvents. *)

(* closeCurrentSocket *)
Left(v) ==
  IF view[v].socket = None THEN conn
  ELSE [conn EXCEPT ![view[v].socket] = Tidy([@ EXCEPT !.viewer = None])]

(* connect: the socket asks for what comes after the events the page has.  *)
(* While the process is down, it is refused.                               *)
Connect(v, w, after) ==
  LET rest == Left(v)
      free == {c \in Conns : rest[c] = None}
      c == CHOOSE d \in free : TRUE
  IN  /\ free # {}
      /\ conn' = [rest EXCEPT ![c] =
           [viewer |-> v, delivered |-> after,
            phase  |-> IF up THEN "opening" ELSE "closed",
            wire   |-> IF up THEN <<>> ELSE <<CloseFrame(1006)>>]]
      /\ view' = [view EXCEPT ![v] = [w EXCEPT !.state = "connecting", !.socket = c]]

Resume(w) == Len(w.accepted)

(* Mutant: one attempt more than there are delays. *)
ScheduleOneMore(w, after) ==
  IF w.attempts > Delays
  THEN [w EXCEPT !.state = "disconnected", !.socket = None]
  ELSE [w EXCEPT !.state = "reconnecting", !.socket = None, !.attempts = @ + 1, !.since = after]

ScheduleReconnect(w, after) ==
  IF w.attempts >= Delays
  THEN [w EXCEPT !.state = "disconnected", !.socket = None]
  ELSE [w EXCEPT !.state = "reconnecting", !.socket = None, !.attempts = @ + 1, !.since = after]

TerminalReceived(w) == \E i \in DOMAIN w.accepted : w.accepted[i].terminal

(* onclose *)
Hears(w, code) ==
  IF code = 1000 /\ TerminalReceived(w)
  THEN [w EXCEPT !.state = "completed", !.socket = None]
  ELSE ScheduleReconnect(w, Resume(w))

(* parseAndClassifyIncomingEvent *)
Classify(w, e) ==
  IF w.accepted # <<>> /\ e.run # Head(w.accepted).run THEN "identity-mismatch"
  ELSE IF e.at <= Len(w.accepted)
       THEN IF w.accepted[e.at] = e THEN "duplicate" ELSE "conflict"
  ELSE IF e.at > Len(w.accepted) + 1 THEN "gap" ELSE "accepted"

(* Mutant: an open connection is taken for a healthy one. *)
OpenedHealthy(w) == [w EXCEPT !.state = "connected", !.attempts = 0]

Opened(w) == [w EXCEPT !.state = "connected"]

(* onmessage; a message that closes the socket leaves the rest unread *)
Take(w, e) ==
  LET kind == Classify(w, e)
  IN  CASE kind = "accepted"  -> [w EXCEPT !.accepted = Append(@, e), !.attempts = 0]
        [] kind = "duplicate" -> w
        [] kind = "gap"       -> ScheduleReconnect(w, Resume(w))
        [] OTHER              -> [w EXCEPT !.state = "error", !.socket = None]

Receive(v) ==
  LET s == view[v].socket
  IN  /\ s # None /\ conn[s].wire # <<>>
      /\ LET f == Head(conn[s].wire)
             read == [conn EXCEPT ![s].wire = Tail(@)]
             w == CASE f.kind = "open"  -> Opened(view[v])
                    [] f.kind = "event" -> Take(view[v], f.event)
                    [] f.kind = "close" -> Hears(view[v], f.code)
         IN  /\ view' = [view EXCEPT ![v] = w]
             /\ conn' = IF w.socket # None THEN read
                        ELSE IF f.kind = "close" THEN [conn EXCEPT ![s] = None] ELSE Left(v)
      /\ UNCHANGED <<log, up, boot, faults, gestures>>

Timer(v) ==
  /\ view[v].state = "reconnecting"
  /\ Connect(v, view[v], view[v].since)
  /\ UNCHANGED <<log, up, boot, faults, gestures>>

(* The page shows the task: a fresh hook, nothing accepted. *)
Watch(v) ==
  /\ view[v].state = "idle"
  /\ Connect(v, Idle, 0)
  /\ UNCHANGED <<log, up, boot, faults, gestures>>

(* The page shows another task, or none. *)
Leave(v) ==
  /\ v \in Restless /\ view[v].state # "idle" /\ gestures < MaxGestures
  /\ gestures' = gestures + 1
  /\ view' = [view EXCEPT ![v] = Idle]
  /\ conn' = Left(v)
  /\ UNCHANGED <<log, up, boot, faults>>

Reconnect(v) ==
  /\ v \in Restless /\ view[v].state # "idle" /\ gestures < MaxGestures
  /\ gestures' = gestures + 1
  /\ Connect(v, [view[v] EXCEPT !.attempts = 0], Resume(view[v]))
  /\ UNCHANGED <<log, up, boot, faults>>

-----------------------------------------------------------------------------
(* The network loses a connection: the page hears 1006, what was on the    *)
(* wire is gone, and the server learns of it later (Notice).               *)
Lose(v) ==
  /\ view[v].socket # None /\ faults < MaxFaults
  /\ faults' = faults + 1
  /\ view' = [view EXCEPT ![v] = Hears(@, 1006)]
  /\ conn' = Left(v)
  /\ UNCHANGED <<log, up, boot, gestures>>

(* What the server's and the page's event loops have to do. *)
ServerTurn == Restart \/ \E c \in Conns : Accept(c) \/ Notice(c)
HookTurn(v) == Receive(v) \/ Timer(v)
Gesture(v) == Watch(v) \/ Leave(v) \/ Reconnect(v)
Fault == Crash \/ \E v \in Viewers : Lose(v)

Next == Emit \/ ServerTurn \/ (\E v \in Viewers : HookTurn(v) \/ Gesture(v)) \/ Fault

(* The event loops of the server and of the browser take their turns, the  *)
(* timers fire, and the operator starts the server again.  Nothing makes   *)
(* the agent emit an event or a user open a page.                          *)
Turn == ServerTurn \/ \E v \in Viewers : HookTurn(v)
Fairness == WF_vars(Turn)

Spec == Init /\ [][Next]_vars /\ Fairness

-----------------------------------------------------------------------------
(* Properties. *)

(* The state is well formed: no page has made more automatic attempts than *)
(* there are delays, and no task has more subscribers than its limit.      *)
TypeOK ==
  /\ log \in Seq(Event) /\ Len(log) <= MaxEvents
  /\ conn \in [Conns -> Connection \cup {None}]
  /\ view \in [Viewers -> View]
  /\ \A v \in Viewers : view[v].socket # None =>
       conn[view[v].socket] # None /\ conn[view[v].socket].viewer = v
  /\ Cardinality(Subscribers) <= Limit
  /\ up \in BOOLEAN /\ boot \in 0..MaxFaults
  /\ faults \in 0..MaxFaults /\ gestures \in 0..MaxGestures

(* What a page shows is what the store holds, from its first event on:     *)
(* an event is published only once it is stored, so that neither a refused *)
(* append nor a crash leaves a page with an event the task never had.      *)
PagesShowTheLog == \A v \in Viewers : IsPrefix(view[v].accepted, log)

(* A subscriber has been sent everything the store holds: no event falls   *)
(* between the replay and the subscription.                                *)
SubscriberIsCurrent == \A c \in Subscribers : conn[c].delivered = Len(log)

(* How many of the first i frames on the wire are events. *)
EventsUpTo(wire, i) == Cardinality({j \in 1..i : wire[j].kind = "event"})

(* What is on the wire continues what the page has accepted, without gap   *)
(* or repetition, whatever was lost, refused or cut off before; a          *)
(* connection not yet accepted asks for just what the page lacks.          *)
WireContinues ==
  \A v \in Viewers : view[v].socket # None =>
    LET k == conn[view[v].socket]
        have == Len(view[v].accepted)
    IN  /\ k.phase # "closed" => k.delivered = have + EventsUpTo(k.wire, Len(k.wire))
        /\ \A i \in DOMAIN k.wire :
             k.wire[i].kind = "event" => k.wire[i].event.at = have + EventsUpTo(k.wire, i)

(* A page reports an error only for a task that was retried: neither a     *)
(* crash nor the recovery's event contradicts what the page has.           *)
ErrorOnlyAfterRetry ==
  (\E v \in Viewers : view[v].state = "error") =>
    \E i \in 1..(Len(log) - 1) : log[i].terminal

(* The invariant of the stream, from the store to the page: what is        *)
(* published is stored, what is stored reaches the subscribers, and what   *)
(* reaches a page continues what it shows, across reconnections, retries   *)
(* and crashes.                                                            *)
StreamInv ==
  /\ TypeOK
  /\ PagesShowTheLog
  /\ SubscriberIsCurrent
  /\ WireContinues
  /\ ErrorOnlyAfterRetry

(* Once the task emits no more and the network holds (the bounds make both *)
(* so), no page goes on reconnecting, however often it is refused, and     *)
(* each that stays connected shows every stored event.                     *)
PageSettles ==
  \A v \in Viewers :
    <>[](\/ view[v].state \in {"idle", "completed", "disconnected", "error"}
         \/ view[v].state = "connected" /\ Len(view[v].accepted) = Len(log))

(* A connection that the server closes as complete was sent everything the *)
(* store held when it was accepted. Violated for a task that was retried   *)
(* (README, 8).                                                            *)
ReplayIsComplete ==
  [][\A c \in Conns :
       (conn[c] # None /\ conn[c].phase = "opening" /\ conn'[c] # None
          /\ conn'[c].phase = "closed" /\ Last(conn'[c].wire) = CloseFrame(1000))
         => conn'[c].delivered = Len(log)]_vars

=============================================================================
