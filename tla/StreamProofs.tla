----------------------------- MODULE StreamProofs -----------------------------
(***************************************************************************)
(* What holds of the live event stream for any number of pages,            *)
(* connections, events and runs: StreamInv, from the store to the page.    *)
(*                                                                         *)
(* The inductive invariant SInv says, of each connection, that its wire    *)
(* carries a piece of the log between a handshake and a close (Carries)    *)
(* and, of each page, that it shows a prefix of the log (Shows) which the  *)
(* wire of its own connection continues (Linked, Continues).  A step of    *)
(* the server serves every connection (Served, ServerServes), a step of a  *)
(* page concerns its own alone (PageTurns).  The replay sends the stored   *)
(* events one after another, in a function of the definition: that it      *)
(* exists and what it comes to is shown by induction (ReplayExists,        *)
(* ReplayKeeps).                                                           *)
(***************************************************************************)
EXTENDS EventStream, SequenceTheorems, FiniteSetTheorems, WellFoundedInduction, TLAPS

(* The log numbers its events, keeps a place for the one that ends a run,  *)
(* and changes the run only after such an event.                           *)
LogOK(l) ==
  /\ l \in Seq(Event) /\ Len(l) <= MaxEvents
  /\ \A i \in 1..Len(l) : l[i].at = i
  /\ (l = <<>> \/ ~l[Len(l)].terminal) => Len(l) < MaxEvents
  /\ (\A i \in 1..(Len(l) - 1) : ~l[i].terminal) =>
       \A i \in 1..Len(l) : l[i].run = l[1].run

ServerOK ==
  /\ up \in BOOLEAN /\ boot \in Nat
  /\ faults \in 0..MaxFaults /\ gestures \in 0..MaxGestures
  /\ boot + (IF up THEN 0 ELSE 1) <= faults
  /\ Cardinality(Subscribers) <= Limit

(* What is on a wire is stored, between a handshake and a close.           *)
Framed(k, l) ==
  \A i \in 1..Len(k.wire) :
    /\ k.wire[i].kind = "open" => i = 1
    /\ k.wire[i].kind = "close" => i = Len(k.wire) /\ k.phase = "closed"
    /\ k.wire[i].kind = "event" => \E j \in 1..Len(l) : k.wire[i].event = l[j]

Carries(k, l) ==
  /\ k \in Connection
  /\ k.delivered <= Len(l)
  /\ k.phase = "open" => k.delivered = Len(l)
  /\ k.phase = "opening" => k.wire = <<>>
  /\ Framed(k, l)

Skipped(wire) == IF wire # <<>> /\ wire[1].kind = "open" THEN 1 ELSE 0

(* It continues what its page has.                                         *)
Continues(k, have) ==
  /\ k.phase # "closed" => k.delivered = have + Len(k.wire) - Skipped(k.wire)
  /\ \A i \in 1..Len(k.wire) :
       k.wire[i].kind = "event" => k.wire[i].event.at = have + i - Skipped(k.wire)

(* Whatever the page has, it still continues it.                           *)
GoesOn(k, s) == \A have \in Nat : Continues(k, have) => Continues(s, have)

Shows(w, l) ==
  /\ w \in View
  /\ Len(w.accepted) <= Len(l) /\ \A i \in 1..Len(w.accepted) : w.accepted[i] = l[i]
  /\ w.state = "reconnecting" => w.since = Len(w.accepted) /\ w.socket = None
  /\ w.state = "error" => \E i \in 1..(Len(l) - 1) : l[i].terminal

Linked(v, w, cs) ==
  w.socket # None =>
    /\ cs[w.socket] # None
    /\ cs[w.socket].viewer = v
    /\ Continues(cs[w.socket], Len(w.accepted))

Wired(cs, l, running) ==
  /\ cs \in [Conns -> Connection \cup {None}]
  /\ \A c \in Conns : cs[c] # None =>
       Carries(cs[c], l) /\ (~running => cs[c].phase = "closed")

Viewed(ws, cs, l) ==
  /\ ws \in [Viewers -> View]
  /\ \A v \in Viewers : Shows(ws[v], l) /\ Linked(v, ws[v], cs)

SInv ==
  /\ LogOK(log) /\ ServerOK
  /\ Wired(conn, log, up)
  /\ Viewed(view, conn, log)

(* The log of which another is a longer version.                           *)
Extends(l, m) == Len(l) <= Len(m) /\ \A i \in 1..Len(l) : m[i] = l[i]

-----------------------------------------------------------------------------
(* The constants, one by one.                                              *)
LEMMA Bounds ==
  /\ Limit \in Nat /\ Limit >= 1 /\ Delays \in Nat /\ Delays >= 1
  /\ MaxEvents \in Nat /\ MaxEvents >= 1 /\ MaxRuns \in Nat /\ MaxRuns >= 1
  /\ MaxFaults \in Nat /\ MaxGestures \in Nat /\ IsFiniteSet(Conns)
BY StreamBounds

(* No connection is no connection, and no page is no page.                 *)
LEMMA Nobody ==
  /\ None \notin Conns /\ None \notin Viewers /\ None \notin Connection
BY NoneIsNothing

(* The three kinds of frame.                                               *)
LEMMA Frames ==
  /\ OpenFrame \in Frame /\ OpenFrame.kind = "open"
  /\ \A e \in Event :
          EventFrame(e) \in Frame /\ EventFrame(e).kind = "event" /\ EventFrame(e).event = e
  /\ \A code \in CloseCode : CloseFrame(code) \in Frame /\ CloseFrame(code).kind = "close"
                             /\ CloseFrame(code).code = code
  /\ \A f \in Frame : /\ f.kind \in {"open", "event", "close"}
                      /\ f.kind = "event" => f.event \in Event
                      /\ f.kind = "close" => f.code \in CloseCode
BY DEF Frame, OpenFrame, EventFrame, CloseFrame

(* What appending does to a sequence.                                      *)
LEMMA Appending ==
  ASSUME NEW S, NEW out \in Seq(S), NEW event \in S
  PROVE  /\ Append(out, event) \in Seq(S) /\ Append(out, event) # <<>>
         /\ Len(Append(out, event)) = Len(out) + 1 /\ Len(out) \in Nat
         /\ Append(out, event)[Len(out) + 1] = event
         /\ \A i \in 1..Len(out) : Append(out, event)[i] = out[i]
BY SMT

(* A later frame does not change how many handshakes come first.           *)
LEMMA SkippedAppend ==
  ASSUME NEW wire \in Seq(Frame), NEW f \in Frame, f.kind # "open"
  PROVE  Skipped(Append(wire, f)) = Skipped(wire)
<1>1. /\ Append(wire, f) # <<>> /\ Len(wire) \in Nat
      /\ Append(wire, f)[Len(wire) + 1] = f
      /\ \A i \in 1..Len(wire) : Append(wire, f)[i] = wire[i]
  BY Appending
<1>2. CASE wire = <<>>
  <2>1. Len(wire) = 0
    BY <1>2
  <2>2. Append(wire, f)[1] = f
    BY <1>1, <2>1
  <2> QED
    BY <1>2, <2>2 DEF Skipped
<1>3. CASE wire # <<>>
  <2>1. 1 \in 1..Len(wire)
    BY <1>1, <1>3
  <2> QED
    BY <1>1, <1>3, <2>1 DEF Skipped
<1> QED
  BY <1>2, <1>3

Longer(wire, longer, f) ==
  /\ Len(wire) \in Nat /\ Len(longer) = Len(wire) + 1
  /\ longer[Len(wire) + 1] = f
  /\ \A i \in 1..Len(wire) : longer[i] = wire[i] /\ wire[i].kind # "close"
  /\ Skipped(longer) = Skipped(wire)

(* A frame that is appended to a connection that is not closed.            *)
LEMMA Pushed ==
  ASSUME NEW l, NEW k, k \in Connection, Framed(k, l), k.phase # "closed",
         NEW f \in Frame, NEW s, s \in Connection, s.wire = Append(k.wire, f),
         f.kind = "close" => s.phase = "closed",
         f.kind = "event" => \E j \in 1..Len(l) : f.event = l[j],
         f.kind # "open"
  PROVE  Framed(s, l) /\ Longer(k.wire, s.wire, f)
<1>1. k.wire \in Seq(Frame)
  BY DEF Connection
<1>2. /\ Len(s.wire) = Len(k.wire) + 1 /\ Len(k.wire) \in Nat
      /\ s.wire[Len(k.wire) + 1] = f
      /\ \A i \in 1..Len(k.wire) : s.wire[i] = k.wire[i]
  BY <1>1, Appending
<1>3. \A i \in 1..Len(k.wire) : k.wire[i].kind # "close"
  BY DEF Framed
<1>4. Framed(s, l)
  <2>1. SUFFICES ASSUME NEW i \in 1..Len(s.wire)
                 PROVE  /\ s.wire[i].kind = "open" => i = 1
                        /\ s.wire[i].kind = "close" => i = Len(s.wire) /\ s.phase = "closed"
                        /\ s.wire[i].kind = "event" => \E j \in 1..Len(l) : s.wire[i].event = l[j]
    BY DEF Framed
  <2>2. i \in 1..Len(k.wire) \/ i = Len(k.wire) + 1
    BY <1>2
  <2>3. CASE i \in 1..Len(k.wire)
    BY <1>2, <1>3, <2>3 DEF Framed
  <2>4. CASE i = Len(k.wire) + 1
    BY <1>2, <2>4
  <2> QED
    BY <2>2, <2>3, <2>4
<1>5. Skipped(s.wire) = Skipped(k.wire)
  BY <1>1, SkippedAppend
<1> QED
  BY <1>2, <1>3, <1>4, <1>5 DEF Longer

(* The server closes a connection.                                         *)
LEMMA ShutKeeps ==
  ASSUME NEW l, NEW k, k \in Connection, Framed(k, l), k.phase # "closed", k.delivered <= Len(l),
         NEW code \in CloseCode
  PROVE  /\ Carries(Shut(k, code), l) /\ Shut(k, code).viewer = k.viewer
         /\ Shut(k, code).phase = "closed" /\ GoesOn(k, Shut(k, code))
<1> DEFINE f == CloseFrame(code)
           s == Shut(k, code)
<1>1. f \in Frame /\ f.kind = "close"
  BY Frames
<1>2. s = [k EXCEPT !.phase = "closed", !.wire = Append(k.wire, f)]
  BY DEF Shut
<1> HIDE DEF f, s
<1>3. k.wire \in Seq(Frame)
  BY DEF Connection
<1>4. Append(k.wire, f) \in Seq(Frame)
  BY <1>1, <1>3, Appending
<1>5. s \in Connection
  BY <1>2, <1>4 DEF Connection
<1>6. /\ s.wire = Append(k.wire, f) /\ s.phase = "closed" /\ s.viewer = k.viewer
      /\ s.delivered = k.delivered
  BY <1>2 DEF Connection
<1>7. Framed(s, l) /\ Longer(k.wire, s.wire, f)
  <2>1. f \in Frame /\ s \in Connection /\ s.wire = Append(k.wire, f) /\ s.phase = "closed"
    BY <1>1, <1>5, <1>6
  <2>2. f.kind # "open" /\ (f.kind = "event" => \E j \in 1..Len(l) : f.event = l[j])
    BY <1>1
  <2>3. f.kind = "close" => s.phase = "closed"
    BY <2>1
  <2> QED
    BY <2>1, <2>2, <2>3, Pushed
<1>8. Carries(s, l)
  BY <1>5, <1>6, <1>7 DEF Carries
<1>9. ASSUME NEW have \in Nat, Continues(k, have)
      PROVE  Continues(s, have)
  <2>1. ASSUME NEW i \in 1..Len(s.wire), s.wire[i].kind = "event"
        PROVE  s.wire[i].event.at = have + i - Skipped(s.wire)
    <3>1. i \in 1..Len(k.wire)
      BY <1>1, <1>7, <2>1 DEF Longer
    <3> QED
      BY <1>7, <1>9, <2>1, <3>1 DEF Continues, Longer
  <2> QED
    BY <1>6, <2>1 DEF Continues
<1> QED
  BY <1>6, <1>8, <1>9 DEF s, GoesOn

(* A longer log still stores what is on the wires and on the pages.        *)
LEMMA FramedOn ==
  ASSUME NEW k, NEW l, NEW m, Len(l) \in Nat, Len(m) \in Nat, Framed(k, l), Extends(l, m)
  PROVE  Framed(k, m)
<1>1. \A j \in 1..Len(l) : j \in 1..Len(m) /\ m[j] = l[j]
  BY DEF Extends
<1>2. \A x : (\E j \in 1..Len(l) : x = l[j]) => \E j \in 1..Len(m) : x = m[j]
  BY <1>1
<1> QED
  BY <1>2 DEF Framed

(* A connection that no longer replays carries whatever the log grows to.  *)
LEMMA CarriesOn ==
  ASSUME NEW k, NEW l, NEW m, Len(l) \in Nat, Len(m) \in Nat, Carries(k, l), Extends(l, m),
         k.phase # "open"
  PROVE  Carries(k, m)
<1>1. Framed(k, m)
  BY FramedOn DEF Carries
<1>2. k.delivered \in Nat /\ k.delivered <= Len(l) /\ Len(l) <= Len(m)
  BY Bounds DEF Carries, Connection, Extends
<1>3. k.delivered <= Len(m)
  BY <1>2
<1> QED
  BY <1>1, <1>3 DEF Carries

(* A page that shows a prefix of the log shows one of the log that grew.   *)
LEMMA ShowsOn ==
  ASSUME NEW w, NEW l, NEW m, Len(l) \in Nat, Len(m) \in Nat, Shows(w, l), Extends(l, m)
  PROVE  Shows(w, m)
<1>1. Len(w.accepted) \in Nat /\ Len(w.accepted) <= Len(l) /\ Len(l) <= Len(m)
  BY DEF Shows, View, Extends
<1>2. Len(w.accepted) <= Len(m)
  BY <1>1
<1>3. \A i \in 1..Len(w.accepted) : i \in 1..Len(l)
  BY <1>1
<1>4. \A i \in 1..Len(w.accepted) : w.accepted[i] = m[i]
  BY <1>3 DEF Shows, Extends
<1>5. \A i \in 1..(Len(l) - 1) : i \in 1..(Len(m) - 1) /\ i \in 1..Len(l)
  BY <1>1
<1>6. w.state = "error" => \E i \in 1..(Len(m) - 1) : m[i].terminal
  BY <1>5 DEF Shows, Extends
<1> QED
  BY <1>2, <1>4, <1>6 DEF Shows

WithEvent(k, e) == [k EXCEPT !.delivered = e.at, !.wire = Append(@, EventFrame(e))]

(* One event is sent to a subscriber that has all before it.               *)
LEMMA EventIsSent ==
  ASSUME NEW l, NEW m, Len(l) \in Nat, Extends(l, m), Len(m) = Len(l) + 1,
         NEW e \in Event, m[Len(m)] = e, e.at = Len(m),
         NEW k, Carries(k, l), k.phase = "open"
  PROVE  /\ Carries(WithEvent(k, e), m) /\ WithEvent(k, e).viewer = k.viewer
         /\ WithEvent(k, e).phase = "open" /\ GoesOn(k, WithEvent(k, e))
<1> DEFINE f == EventFrame(e)
           s == WithEvent(k, e)
<1>1. f \in Frame /\ f.kind = "event" /\ f.event = e
  BY Frames
<1>2. s = [k EXCEPT !.delivered = e.at, !.wire = Append(k.wire, f)]
  BY DEF WithEvent
<1> HIDE DEF f, s
<1>3. k \in Connection /\ k.wire \in Seq(Frame) /\ Framed(k, l) /\ k.delivered = Len(l)
  BY DEF Carries, Connection
<1>4. Append(k.wire, f) \in Seq(Frame) /\ e.at \in 0..MaxEvents
  <2>1. e.at \in 1..MaxEvents
    BY DEF Event
  <2> QED
    BY <1>1, <1>3, <2>1, Appending, Bounds
<1>5. s \in Connection
  BY <1>2, <1>3, <1>4 DEF Connection
<1>6. /\ s.wire = Append(k.wire, f) /\ s.phase = "open" /\ s.viewer = k.viewer
      /\ s.delivered = e.at
  BY <1>2, <1>3 DEF Connection
<1>7. Len(m) \in 1..Len(m) /\ Len(m) \in Nat
  OBVIOUS
<1>8. Framed(k, m)
  BY <1>3, <1>7, FramedOn
<1>9. Framed(s, m) /\ Longer(k.wire, s.wire, f)
  <2>1. f.kind # "open" /\ (f.kind = "close" => s.phase = "closed")
    BY <1>1
  <2>2. f.kind = "event" => \E j \in 1..Len(m) : f.event = m[j]
    BY <1>1, <1>7
  <2>3. k.phase # "closed"
    OBVIOUS
  <2> QED
    BY <1>1, <1>3, <1>5, <1>6, <1>8, <2>1, <2>2, <2>3, Pushed
<1>10. Carries(s, m)
  BY <1>5, <1>6, <1>7, <1>9 DEF Carries
<1>11. ASSUME NEW have \in Nat, Continues(k, have)
       PROVE  Continues(s, have)
  <2> DEFINE n == Len(k.wire)
             gone == Skipped(k.wire)
  <2>1. n \in Nat /\ gone \in {0, 1} /\ Len(s.wire) = n + 1 /\ Skipped(s.wire) = gone
        /\ s.wire[n + 1] = f /\ \A i \in 1..n : s.wire[i] = k.wire[i]
    BY <1>9 DEF Longer, Skipped
  <2>2. /\ Len(l) = have + n - gone
        /\ \A i \in 1..n : k.wire[i].kind = "event" => k.wire[i].event.at = have + i - gone
    BY <1>3, <1>11 DEF Continues
  <2> HIDE DEF n, gone
  <2>3. e.at = have + (n + 1) - gone
    BY <2>1, <2>2
  <2>4. ASSUME NEW i \in 1..(n + 1), s.wire[i].kind = "event"
        PROVE  s.wire[i].event.at = have + i - gone
    <3>1. CASE i = n + 1
      BY <1>1, <2>1, <2>3, <3>1
    <3>2. CASE i # n + 1
      <4>1. i \in 1..n
        BY <2>1, <3>2
      <4> QED
        BY <2>1, <2>2, <2>4, <4>1
    <3> QED
      BY <3>1, <3>2
  <2> QED
    BY <1>6, <2>1, <2>3, <2>4 DEF Continues
<1> QED
  BY <1>6, <1>10, <1>11 DEF s, GoesOn

(* A connection before and after an event is sent.                         *)
SentFrom(k, s, m) ==
  /\ Carries(s, m) /\ s.viewer = k.viewer
  /\ k.phase # "open" => s = k
  /\ k.phase = "open" => s.phase \in {"open", "closed"}
  /\ GoesOn(k, s)

(* A connection to which the next event of the log is sent.                *)
LEMMA SentKeeps ==
  ASSUME NEW l, NEW m, Len(l) \in Nat, Extends(l, m), Len(m) = Len(l) + 1,
         NEW e \in Event, m[Len(m)] = e, e.at = Len(m),
         NEW k, Carries(k, l), NEW full
  PROVE  SentFrom(k, Sent(k, e, full), m)
<1> DEFINE s == WithEvent(k, e)
<1>1. Len(m) \in Nat /\ e.terminal \in BOOLEAN
  BY DEF Event
<1>2. CASE k.phase # "open"
  <2>1. Sent(k, e, full) = k
    BY <1>2 DEF Sent
  <2> QED
    BY <1>1, <1>2, <2>1, CarriesOn DEF GoesOn, SentFrom
<1>3. CASE k.phase = "open"
  <2>1. k.delivered = Len(l) /\ k \in Connection /\ Framed(k, l)
    BY <1>3 DEF Carries
  <2>2. ~(k.phase # "open" \/ e.at <= k.delivered)
    BY <1>3, <2>1
  <2>3. CASE full /\ MayBeFull(k)
    <3>1. Sent(k, e, full) = Shut(k, 4504)
      BY <2>2, <2>3 DEF Sent
    <3>2. Framed(k, m)
      BY <1>1, <2>1, FramedOn
    <3>3. 4504 \in CloseCode /\ k.delivered <= Len(m) /\ k.phase # "closed"
      BY <1>3, <2>1 DEF CloseCode
    <3>4. /\ Carries(Shut(k, 4504), m) /\ Shut(k, 4504).viewer = k.viewer
          /\ Shut(k, 4504).phase = "closed"
          /\ GoesOn(k, Shut(k, 4504))
      BY <2>1, <3>2, <3>3, ShutKeeps
    <3> QED
      BY <1>3, <3>1, <3>4 DEF SentFrom
  <2>4. CASE ~(full /\ MayBeFull(k))
    <3>1. Sent(k, e, full) = IF e.terminal THEN Shut(s, 1000) ELSE s
      BY <2>2, <2>4 DEF Sent, WithEvent
    <3>2. /\ Carries(s, m) /\ s.viewer = k.viewer /\ s.phase = "open"
          /\ GoesOn(k, s)
      BY <1>3, EventIsSent
    <3> HIDE DEF s
    <3>3. CASE ~e.terminal
      BY <1>3, <3>1, <3>2, <3>3 DEF SentFrom
    <3>4. CASE e.terminal
      <4>1. 1000 \in CloseCode /\ s \in Connection /\ Framed(s, m) /\ s.delivered <= Len(m)
            /\ s.phase # "closed"
        BY <3>2 DEF CloseCode, Carries
      <4>2. /\ Carries(Shut(s, 1000), m) /\ Shut(s, 1000).viewer = s.viewer
            /\ Shut(s, 1000).phase = "closed"
            /\ GoesOn(s, Shut(s, 1000))
        BY <4>1, ShutKeeps
      <4> QED
        BY <1>3, <3>1, <3>2, <3>4, <4>2 DEF GoesOn, SentFrom
    <3> QED
      BY <3>3, <3>4
  <2> QED
    BY <2>3, <2>4
<1> QED
  BY <1>2, <1>3

(* A connection whose page is gone carries nothing.                        *)
LEMMA TidyKeeps ==
  ASSUME NEW l, NEW k, Carries(k, l)
  PROVE  /\ Tidy(k) # None =>
              Carries(Tidy(k), l) /\ Tidy(k).viewer = k.viewer /\ Tidy(k).phase = k.phase
         /\ k.viewer # None => Tidy(k) = k
         /\ Tidy(k) \in Connection \cup {None}
<1>1. k \in Connection
  BY DEF Carries
<1>2. CASE k.viewer # None
  BY <1>1, <1>2 DEF Tidy
<1>3. CASE k.viewer = None /\ k.phase = "closed"
  BY <1>3 DEF Tidy
<1>4. CASE k.viewer = None /\ k.phase # "closed"
  <2> DEFINE s == [k EXCEPT !.wire = <<>>]
  <2>1. Tidy(k) = s
    BY <1>4 DEF Tidy
  <2>0. <<>> \in Seq(Frame)
    OBVIOUS
  <2>2. /\ s \in Connection
        /\ s.wire = <<>> /\ s.viewer = k.viewer /\ s.phase = k.phase
        /\ s.delivered = k.delivered
    <3>1. s \in Connection
      BY <1>1, <2>0 DEF Connection
    <3>2. s.wire = <<>> /\ s.viewer = k.viewer /\ s.phase = k.phase /\ s.delivered = k.delivered
      BY <1>1 DEF Connection
    <3> QED
      BY <3>1, <3>2
  <2> HIDE DEF s
  <2>3. Framed(s, l)
    BY <2>2 DEF Framed
  <2>4. Carries(s, l)
    BY <2>2, <2>3 DEF Carries
  <2> QED
    BY <1>4, <2>1, <2>2, <2>4
<1> QED
  BY <1>2, <1>3, <1>4

(* Induction over the natural numbers, as a fact about sets.               *)
LEMMA SetInduction ==
  ASSUME NEW T, 0 \in T, \A n \in Nat : n \in T => n + 1 \in T
  PROVE  Nat \subseteq T
<1> DEFINE Leftover == Nat \ T
<1>1. SUFFICES ASSUME Leftover # {} PROVE FALSE
  OBVIOUS
<1>2. PICK x \in Leftover : \A y \in Leftover : ~(<<y, x>> \in OpToRel(<, Nat))
  BY <1>1, WFMin, NatLessThanWellFounded
<1>3. x \in Nat /\ x # 0
  OBVIOUS
<1>4. x - 1 \in Nat /\ x - 1 < x /\ (x - 1) + 1 = x
  BY <1>3, SMT
<1>5. x - 1 \in Leftover
  BY <1>2, <1>4
<1>6. <<x - 1, x>> \in OpToRel(<, Nat)
  BY <1>3, <1>4, SMT DEF OpToRel
<1> QED
  BY <1>2, <1>5, <1>6

Sends(f, k, events, fullAt) ==
  f = [i \in 0..Len(events) |->
         IF i = 0 THEN k ELSE Sent(f[i - 1], events[i], events[i].at = fullAt)]

(* There is a function that sends the stored events one after another.     *)
LEMMA ReplayExists ==
  ASSUME NEW k, NEW events, Len(events) \in Nat, NEW fullAt
  PROVE  \E f : Sends(f, k, events, fullAt)
<1> DEFINE T == {m \in Nat : \E f : f = [i \in 0..m |->
                       IF i = 0 THEN k ELSE Sent(f[i - 1], events[i], events[i].at = fullAt)]}
<1>1. 0 \in T
  <2> DEFINE f == [i \in 0..0 |-> k]
  <2>1. f = [i \in 0..0 |-> IF i = 0 THEN k ELSE Sent(f[i - 1], events[i], events[i].at = fullAt)]
    OBVIOUS
  <2> HIDE DEF f
  <2> QED
    BY <2>1
<1>2. ASSUME NEW m \in Nat, m \in T
      PROVE  m + 1 \in T
  <2>1. PICK f : f = [i \in 0..m |->
                        IF i = 0 THEN k ELSE Sent(f[i - 1], events[i], events[i].at = fullAt)]
    BY <1>2
  <2> DEFINE next == Sent(f[m], events[m + 1], events[m + 1].at = fullAt)
             g == [i \in 0..(m + 1) |-> IF i = m + 1 THEN next ELSE f[i]]
             h == [i \in 0..(m + 1) |->
                     IF i = 0 THEN k ELSE Sent(g[i - 1], events[i], events[i].at = fullAt)]
  <2>2. ASSUME NEW i \in 0..(m + 1)
        PROVE  g[i] = IF i = 0 THEN k ELSE Sent(g[i - 1], events[i], events[i].at = fullAt)
    <3>1. CASE i = m + 1
      <4>1. i # 0 /\ m \in 0..(m + 1) /\ m # m + 1 /\ i - 1 = m
        BY <3>1
      <4>2. g[m] = f[m]
        BY <4>1
      <4>3. g[i] = Sent(f[m], events[m + 1], events[m + 1].at = fullAt)
        BY <3>1
      <4> HIDE DEF g
      <4> QED
        BY <3>1, <4>1, <4>2, <4>3
    <3>2. CASE i # m + 1 /\ i = 0
      <4>1. g[i] = f[i] /\ i \in 0..m
        BY <3>2
      <4>2. f[i] = k
        BY <2>1, <3>2, <4>1
      <4> QED
        BY <3>2, <4>1, <4>2
    <3>3. CASE i # m + 1 /\ i # 0
      <4>1. i \in 0..m /\ i - 1 \in 0..m /\ i - 1 \in 0..(m + 1) /\ i - 1 # m + 1
        BY <3>3
      <4>2. g[i] = f[i] /\ g[i - 1] = f[i - 1]
        BY <3>3, <4>1
      <4>3. f[i] = Sent(f[i - 1], events[i], events[i].at = fullAt)
        BY <2>1, <3>3, <4>1
      <4> HIDE DEF g
      <4> QED
        BY <3>3, <4>2, <4>3
    <3> QED
      BY <3>1, <3>2, <3>3
  <2>3. g = h
    <3> HIDE DEF g
    <3>1. \A i \in 0..(m + 1) : g[i] = h[i]
      BY <2>2
    <3>2. g = [i \in 0..(m + 1) |-> g[i]]
      BY DEF g
    <3> QED
      BY <2>2, <3>2
  <2>4. m + 1 \in Nat
    OBVIOUS
  <2> HIDE DEF g
  <2> QED
    BY <2>3, <2>4
<1> HIDE DEF T
<1>3. Nat \subseteq T
  BY <1>1, <1>2, SetInduction
<1> QED
  BY <1>3 DEF T, Sends

(* The part of a log between two places.                                   *)
Part(s, l, from, to) ==
  Len(s) = to - from /\ \A i \in 1..(to - from) : s[i] = l[from + i]

(* A prefix of the log is a part of it.                                    *)
LEMMA PrefixIs ==
  ASSUME NEW l, l \in Seq(Event), NEW n, n \in 0..Len(l)
  PROVE  Part(SubSeq(l, 1, n), l, 0, n)
<1>1. /\ Len(SubSeq(l, 1, n)) = n
      /\ \A i \in 1..n : SubSeq(l, 1, n)[i] = l[i]
  OBVIOUS
<1> DEFINE s == SubSeq(l, 1, n)
<1> HIDE DEF s
<1>2. Len(s) = n /\ \A i \in 1..n : s[i] = l[i]
  BY <1>1 DEF s
<1>3. n - 0 = n /\ \A i \in 1..n : 0 + i = i
  OBVIOUS
<1>4. Part(s, l, 0, n)
  BY <1>2, <1>3 DEF Part
<1> QED
  BY <1>4 DEF s

(* What comes after a place is a part of the log.                          *)
LEMMA SuffixIs ==
  ASSUME NEW l, l \in Seq(Event), NEW n, n \in 0..Len(l)
  PROVE  Part(SubSeq(l, n + 1, Len(l)), l, n, Len(l))
<1>1. /\ Len(SubSeq(l, n + 1, Len(l))) = Len(l) - n
      /\ \A i \in 1..(Len(l) - n) : SubSeq(l, n + 1, Len(l))[i] = l[n + i]
  OBVIOUS
<1> DEFINE s == SubSeq(l, n + 1, Len(l))
<1> HIDE DEF s
<1>2. Len(s) = Len(l) - n /\ \A i \in 1..(Len(l) - n) : s[i] = l[n + i]
  BY <1>1 DEF s
<1>4. Part(s, l, n, Len(l))
  BY <1>2 DEF Part
<1> QED
  BY <1>4 DEF s

(* A log is its longest prefix.                                            *)
LEMMA WholePrefix ==
  ASSUME NEW l \in Seq(Event)
  PROVE  SubSeq(l, 1, Len(l)) = l
OBVIOUS

(* What continues what continues a page continues it.                      *)
LEMMA GoesOnOn ==
  ASSUME NEW k, NEW s, NEW t, GoesOn(k, s), GoesOn(s, t)
  PROVE  GoesOn(k, t)
BY DEF GoesOn

(* The replay brings a connection to the end of the log, or closes it.     *)
LEMMA ReplayKeeps ==
  ASSUME NEW l, LogOK(l), NEW k, k.phase = "open", k.delivered \in 0..Len(l),
         Carries(k, SubSeq(l, 1, k.delivered)), NEW fullAt
  PROVE  LET s == Replayed(k, SubSeq(l, k.delivered + 1, Len(l)), fullAt) IN
         /\ Carries(s, l) /\ s.viewer = k.viewer /\ s.phase \in {"open", "closed"}
         /\ GoesOn(k, s)
<1> DEFINE d == k.delivered
           events == SubSeq(l, d + 1, Len(l))
           s == Replayed(k, events, fullAt)
           after == CHOOSE f : Sends(f, k, events, fullAt)
<1>1. l \in Seq(Event) /\ Len(l) \in Nat /\ \A i \in 1..Len(l) : l[i].at = i /\ l[i] \in Event
  BY DEF LogOK
<1>2. d \in 0..Len(l)
  OBVIOUS
<1>3. /\ Len(events) = Len(l) - d /\ Len(events) \in Nat
      /\ \A i \in 1..Len(events) : events[i] = l[d + i] /\ d + i \in 1..Len(l)
  <2>1. Part(events, l, d, Len(l))
    BY <1>1, <1>2, SuffixIs
  <2> HIDE DEF events, d
  <2> QED
    BY <1>1, <1>2, <2>1 DEF Part
<1>4. s = after[Len(events)]
  BY Zenon DEF Replayed, Sends
<1> HIDE DEF events
<1>5. Sends(after, k, events, fullAt)
  <2>1. \E f : Sends(f, k, events, fullAt)
    BY <1>3, ReplayExists
  <2> QED
    BY <2>1, Zenon
<1> HIDE DEF after, d
<1>6. after[0] = k
  BY <1>3, <1>5 DEF Sends
<1>7. \A i \in 1..Len(events) : after[i] = Sent(after[i - 1], events[i], events[i].at = fullAt)
  <2>1. TAKE i \in 1..Len(events)
  <2>2. i \in 0..Len(events) /\ i # 0
    BY <1>3
  <2> QED
    BY <1>5, <2>2 DEF Sends
<1> DEFINE Reached(a, i) == /\ Carries(a, SubSeq(l, 1, d + i)) /\ a.viewer = k.viewer
                            /\ a.phase \in {"open", "closed"} /\ GoesOn(k, a)
           T == {i \in Nat : i <= Len(events) => Reached(after[i], i)}
<1>8. 0 \in T
  <2>1. d + 0 = d
    BY <1>2
  <2>2. Carries(k, SubSeq(l, 1, d))
    BY DEF d
  <2>3. GoesOn(k, k)
    BY DEF GoesOn
  <2>4. Reached(k, 0)
    BY <2>1, <2>2, <2>3
  <2> QED
    BY <1>6, <2>4
<1>9. ASSUME NEW i \in Nat, i \in T PROVE i + 1 \in T
  <2>1. SUFFICES ASSUME i + 1 <= Len(events) PROVE Reached(after[i + 1], i + 1)
    BY <1>3
  <2>2. i <= Len(events) /\ i + 1 \in 1..Len(events) /\ (i + 1) - 1 = i
    BY <1>3, <2>1
  <2>3. Reached(after[i], i)
    BY <1>9, <2>2
  <2> DEFINE a == after[i]
             b == after[i + 1]
             e == l[d + (i + 1)]
             small == SubSeq(l, 1, d + i)
             large == SubSeq(l, 1, d + (i + 1))
  <2>4. b = Sent(a, events[i + 1], events[i + 1].at = fullAt)
    BY <1>7, <2>2
  <2>5. events[i + 1] = e /\ d + (i + 1) \in 1..Len(l)
    BY <1>3, <2>2
  <2>6. e \in Event /\ e.at = d + (i + 1)
    BY <1>1, <2>5
  <2>7. d + i \in 0..Len(l) /\ d + (i + 1) \in 0..Len(l) /\ d + (i + 1) = (d + i) + 1
    BY <1>1, <1>2, <2>5
  <2>8. Len(small) = d + i /\ \A j \in 1..(d + i) : small[j] = l[j]
    <3>1. Part(small, l, 0, d + i)
      BY <1>1, <2>7, PrefixIs
    <3> HIDE DEF small
    <3> QED
      BY <2>7, <3>1 DEF Part
  <2>9. Len(large) = d + (i + 1) /\ \A j \in 1..(d + (i + 1)) : large[j] = l[j]
    <3>1. Part(large, l, 0, d + (i + 1))
      BY <1>1, <2>7, PrefixIs
    <3> HIDE DEF large
    <3> QED
      BY <2>7, <3>1 DEF Part
  <2> HIDE DEF small, large, e, a, b
  <2>10. Extends(small, large)
    BY <2>7, <2>8, <2>9 DEF Extends
  <2>11. large[Len(large)] = e
    BY <2>7, <2>5, <2>9 DEF e
  <2>12. Carries(a, small) /\ a.viewer = k.viewer /\ a.phase \in {"open", "closed"} /\ GoesOn(k, a)
    BY <2>3 DEF a, small
  <2>13. Len(small) \in Nat /\ Len(large) = Len(small) + 1 /\ e.at = Len(large)
    BY <2>6, <2>7, <2>8, <2>9
  <2> DEFINE full == e.at = fullAt
  <2>14. b = Sent(a, e, full)
    BY <2>4, <2>5
  <2> HIDE DEF full
  <2>15. SentFrom(a, Sent(a, e, full), large)
    BY <2>6, <2>10, <2>11, <2>12, <2>13, SentKeeps
  <2>16. GoesOn(k, b)
    BY <2>12, <2>14, <2>15, GoesOnOn DEF SentFrom
  <2> QED
    BY <2>12, <2>14, <2>15, <2>16 DEF b, large, SentFrom
<1> HIDE DEF T
<1>10. Nat \subseteq T
  BY <1>8, <1>9, SetInduction
<1>11. Reached(after[Len(events)], Len(events))
  BY <1>3, <1>10 DEF T
<1>12. d + Len(events) = Len(l) /\ SubSeq(l, 1, Len(l)) = l
  BY <1>1, <1>2, <1>3, WholePrefix
<1>13. Reached(s, Len(events))
  BY <1>4, <1>11
<1> QED
  BY <1>12, <1>13 DEF events, d

(* A connection before and after a step of the server.                     *)
Served(k, s, l) ==
  IF k = None THEN s = None
  ELSE /\ k.viewer # None => s # None
       /\ s # None => /\ Carries(s, l) /\ s.viewer = k.viewer
                      /\ k.viewer # None => GoesOn(k, s)

(* Tidying up is part of serving.                                          *)
LEMMA TidyServes ==
  ASSUME NEW l, NEW k, k # None, NEW s, Carries(s, l), s.viewer = k.viewer, GoesOn(k, s)
  PROVE  /\ Served(k, Tidy(s), l)
         /\ Tidy(s) \in Connection \cup {None}
         /\ Tidy(s) # None => Tidy(s).phase = s.phase
<1>1. /\ Tidy(s) # None =>
           Carries(Tidy(s), l) /\ Tidy(s).viewer = s.viewer /\ Tidy(s).phase = s.phase
      /\ s.viewer # None => Tidy(s) = s
      /\ Tidy(s) \in Connection \cup {None}
  BY TidyKeeps
<1>2. s # None
  BY Nobody DEF Carries
<1> QED
  BY <1>1, <1>2 DEF Served

(* A connection that nothing happens to is served.                         *)
LEMMA Same ==
  ASSUME NEW l, NEW k, k # None => Carries(k, l)
  PROVE  Served(k, k, l)
BY DEF Served, GoesOn

(* A page whose connection is served keeps it.                             *)
LEMMA LinkedOn ==
  ASSUME NEW v \in Viewers, NEW w, w \in View, NEW cs, NEW ds, NEW l,
         Linked(v, w, cs), \A c \in Conns : Served(cs[c], ds[c], l)
  PROVE  Linked(v, w, ds)
<1>1. SUFFICES ASSUME w.socket # None PROVE Linked(v, w, ds)
  BY DEF Linked
<1> DEFINE c == w.socket
<1>2. c \in Conns /\ Len(w.accepted) \in Nat
  BY <1>1 DEF View
<1>3. cs[c] # None /\ cs[c].viewer = v /\ Continues(cs[c], Len(w.accepted))
  BY <1>1 DEF Linked
<1>4. Served(cs[c], ds[c], l)
  BY <1>2
<1>5. v # None
  BY Nobody
<1>6. ds[c] # None /\ ds[c].viewer = v /\ GoesOn(cs[c], ds[c])
  BY <1>3, <1>4, <1>5 DEF Served
<1>7. Continues(ds[c], Len(w.accepted))
  BY <1>2, <1>3, <1>6 DEF GoesOn
<1> QED
  BY <1>6, <1>7 DEF Linked

(* A step of the server that serves every connection.                      *)
LEMMA ServerServes ==
  ASSUME NEW l, NEW m, Len(l) \in Nat, Len(m) \in Nat, Extends(l, m), NEW cs, NEW ds, NEW running,
         ds \in [Conns -> Connection \cup {None}], Viewed(view, cs, l),
         \A c \in Conns : Served(cs[c], ds[c], m),
         \A c \in Conns : cs[c] = None => ds[c] = None,
         \A c \in Conns : (ds[c] # None /\ ~running) => ds[c].phase = "closed"
  PROVE  Wired(ds, m, running) /\ Viewed(view, ds, m)
<1>1. ASSUME NEW c \in Conns, ds[c] # None
      PROVE  Carries(ds[c], m)
  BY <1>1 DEF Served
<1>2. Wired(ds, m, running)
  BY <1>1 DEF Wired
<1>3. ASSUME NEW v \in Viewers
      PROVE  Shows(view[v], m) /\ Linked(v, view[v], ds)
  <2>1. Shows(view[v], l) /\ Linked(v, view[v], cs) /\ view[v] \in View
    BY DEF Viewed
  <2>2. Shows(view[v], m)
    BY <2>1, ShowsOn
  <2>3. Linked(v, view[v], ds)
    BY <2>1, LinkedOn
  <2> QED
    BY <2>2, <2>3
<1> QED
  BY <1>2, <1>3 DEF Viewed

(* No connection is subscribed that was not.                               *)
OpenIn(cs, S) == \A c \in Conns : (cs[c] # None /\ cs[c].phase = "open") => c \in S

(* The limit is kept when nobody subscribes.                               *)
LEMMA FewSubscribers ==
  ASSUME Cardinality(Subscribers) <= Limit, OpenIn(conn', Subscribers)
  PROVE  Cardinality(Subscribers') <= Limit
<1>1. Subscribers' \subseteq Subscribers
  BY DEF OpenIn, Subscribers
<1>2. IsFiniteSet(Subscribers)
  BY Bounds, FS_Subset DEF Subscribers
<1>3. Cardinality(Subscribers') <= Cardinality(Subscribers) /\ IsFiniteSet(Subscribers')
  BY <1>1, <1>2, FS_Subset
<1>4. Cardinality(Subscribers') \in Nat /\ Cardinality(Subscribers) \in Nat
  BY <1>2, <1>3, FS_CardinalityType
<1> QED
  BY <1>3, <1>4, Bounds

(* The limit is kept when one subscribes who finds a place.                *)
LEMMA OneMoreSubscriber ==
  ASSUME Cardinality(Subscribers) < Limit, NEW c \in Conns, OpenIn(conn', Subscribers \cup {c})
  PROVE  Cardinality(Subscribers') <= Limit
<1>1. Subscribers' \subseteq Subscribers \cup {c}
  BY DEF OpenIn, Subscribers
<1>2. IsFiniteSet(Subscribers)
  BY Bounds, FS_Subset DEF Subscribers
<1>3. /\ IsFiniteSet(Subscribers \cup {c})
      /\ Cardinality(Subscribers \cup {c})
           \in {Cardinality(Subscribers), Cardinality(Subscribers) + 1}
  BY <1>2, FS_AddElement
<1>4. Cardinality(Subscribers') <= Cardinality(Subscribers \cup {c}) /\ IsFiniteSet(Subscribers')
  BY <1>1, <1>3, FS_Subset
<1>5. /\ Cardinality(Subscribers') \in Nat /\ Cardinality(Subscribers) \in Nat
      /\ Cardinality(Subscribers \cup {c}) \in Nat
  BY <1>2, <1>3, <1>4, FS_CardinalityType
<1> QED
  BY <1>3, <1>4, <1>5, Bounds

(* The events of the log are events, numbered from one.                    *)
LEMMA LogIs ==
  ASSUME LogOK(log)
  PROVE  /\ log \in Seq(Event) /\ Len(log) \in Nat /\ Len(log) <= MaxEvents
         /\ \A i \in 1..Len(log) : log[i] \in Event /\ log[i].at = i
BY DEF LogOK

(* A log extends itself.                                                   *)
LEMMA Longest ==
  ASSUME NEW l, Len(l) \in Nat
  PROVE  Extends(l, l)
BY DEF Extends

-----------------------------------------------------------------------------
(* The connection of a page that leaves it.                                *)
Others(v, cs) == \A u \in Viewers \ {v} : Linked(u, view[u], cs)

(* No two pages share a connection.                                        *)
LEMMA OtherSockets ==
  ASSUME SInv, NEW v \in Viewers, NEW u \in Viewers \ {v}, view[u].socket # None
  PROVE  view[u].socket # view[v].socket /\ view[u].socket \in Conns
<1>1. Linked(u, view[u], conn) /\ Linked(v, view[v], conn) /\ view[u] \in View
  BY DEF SInv, Viewed
<1>2. conn[view[u].socket].viewer = u /\ view[u].socket \in Conns
  BY <1>1 DEF Linked, View
<1>3. view[v].socket # None => conn[view[v].socket].viewer = v
  BY <1>1 DEF Linked
<1> QED
  BY <1>2, <1>3

(* Whatever becomes of a page's own connection, the others keep theirs.    *)
LEMMA OthersKeep ==
  ASSUME SInv, NEW v \in Viewers, NEW k, NEW cs,
         cs = [conn EXCEPT ![view[v].socket] = k]
  PROVE  Others(v, cs)
<1>1. SUFFICES ASSUME NEW u \in Viewers \ {v}, view[u].socket # None
               PROVE  Linked(u, view[u], cs)
  BY DEF Others, Linked
<1>2. view[u].socket # view[v].socket /\ view[u].socket \in Conns
  BY <1>1, OtherSockets
<1>3. conn \in [Conns -> Connection \cup {None}]
  BY DEF SInv, Wired
<1>4. cs[view[u].socket] = conn[view[u].socket]
  BY <1>2, <1>3
<1>5. Linked(u, view[u], conn)
  BY DEF SInv, Viewed
<1> QED
  BY <1>4, <1>5 DEF Linked

(* A page that closes its socket leaves the others alone.                  *)
LEMMA LeftKeeps ==
  ASSUME SInv, NEW v \in Viewers
  PROVE  /\ Wired(Left(v), log, up) /\ Others(v, Left(v)) /\ OpenIn(Left(v), Subscribers)
<1>1. /\ conn \in [Conns -> Connection \cup {None}]
      /\ \A c \in Conns : conn[c] # None =>
           Carries(conn[c], log) /\ (~up => conn[c].phase = "closed")
  BY DEF SInv, Wired
<1>2. \A u \in Viewers : Linked(u, view[u], conn)
  BY DEF SInv, Viewed
<1>3. CASE view[v].socket = None
  <2>1. Left(v) = conn
    BY <1>3 DEF Left
  <2> QED
    BY <1>1, <1>2, <2>1 DEF SInv, Others, OpenIn, Subscribers
<1>4. CASE view[v].socket # None
  <2> DEFINE c == view[v].socket
             k == [conn[c] EXCEPT !.viewer = None]
             cs == Left(v)
  <2>1. c \in Conns
    BY <1>4 DEF SInv, Viewed, View
  <2>2. conn[c] # None /\ Carries(conn[c], log) /\ conn[c] \in Connection
    BY <1>1, <1>2, <1>4, <2>1 DEF Linked, Carries
  <2>3. cs = [conn EXCEPT ![c] = Tidy(k)]
    BY <1>1, <1>4, <2>1 DEF Left
  <2>4. k \in Connection
    BY <2>2 DEF Connection
  <2>5. k.viewer = None /\ k.phase = conn[c].phase /\ k.delivered = conn[c].delivered
        /\ k.wire = conn[c].wire
    BY <2>2 DEF Connection
  <2> HIDE DEF k, cs
  <2>6. Carries(k, log)
    BY <2>2, <2>4, <2>5 DEF Carries, Framed
  <2>7. /\ Tidy(k) # None =>
             Carries(Tidy(k), log) /\ Tidy(k).viewer = k.viewer /\ Tidy(k).phase = k.phase
        /\ k.viewer # None => Tidy(k) = k
        /\ Tidy(k) \in Connection \cup {None}
    BY <2>6, TidyKeeps
  <2>8. cs \in [Conns -> Connection \cup {None}]
    BY <1>1, <2>3, <2>7
  <2>9. ASSUME NEW d \in Conns, cs[d] # None
        PROVE  /\ Carries(cs[d], log) /\ (~up => cs[d].phase = "closed")
               /\ cs[d].phase = "open" => d \in Subscribers
    <3>1. CASE d = c
      <4>1. cs[d] = Tidy(k)
        BY <1>1, <2>1, <2>3, <3>1
      <4>2. cs[d].phase = conn[c].phase
        BY <2>5, <2>7, <2>9, <4>1
      <4> QED
        BY <1>1, <2>1, <2>2, <2>7, <2>9, <3>1, <4>1, <4>2 DEF Subscribers
    <3>2. CASE d # c
      <4>1. cs[d] = conn[d]
        BY <1>1, <2>1, <2>3, <3>2
      <4> QED
        BY <1>1, <2>9, <4>1 DEF Subscribers
    <3> QED
      BY <3>1, <3>2
  <2>10. Others(v, cs)
    BY <2>3, OthersKeep
  <2> QED
    BY <2>8, <2>9, <2>10 DEF Wired, OpenIn, cs
<1> QED
  BY <1>3, <1>4

(* A step of one page, which the others do not notice.                     *)
LEMMA PageTurns ==
  ASSUME SInv, NEW v \in Viewers, NEW w, NEW cs, Wired(cs, log, up), Others(v, cs),
         OpenIn(cs, Subscribers), Shows(w, log), Linked(v, w, cs),
         conn' = cs, view' = [view EXCEPT ![v] = w],
         log' = log, up' = up, boot' = boot,
         faults' \in 0..MaxFaults, faults' >= faults, gestures' \in 0..MaxGestures
  PROVE  SInv'
<1>1. LogOK(log')
  BY DEF SInv
<1>2. ServerOK'
  <2>1. Cardinality(Subscribers) <= Limit
    BY DEF SInv, ServerOK
  <2>2. Cardinality(Subscribers') <= Limit
    <3>1. OpenIn(conn', Subscribers)
      OBVIOUS
    <3> QED
      BY <2>1, <3>1, FewSubscribers
  <2>3. boot + (IF up THEN 0 ELSE 1) <= faults /\ boot \in Nat /\ faults \in Nat /\ up \in BOOLEAN
    BY Bounds DEF SInv, ServerOK
  <2>4. boot + (IF up THEN 0 ELSE 1) <= faults'
    BY <2>3, Bounds
  <2> QED
    BY <2>2, <2>3, <2>4 DEF ServerOK
<1>3. Wired(conn', log', up')
  OBVIOUS
<1>4. Viewed(view', conn', log')
  <2>1. view \in [Viewers -> View] /\ w \in View
    BY DEF SInv, Viewed, Shows
  <2>2. view' \in [Viewers -> View]
    BY <2>1
  <2>3. ASSUME NEW u \in Viewers
        PROVE  Shows(view'[u], log) /\ Linked(u, view'[u], cs)
    <3>1. CASE u = v
      BY <2>1, <3>1
    <3>2. CASE u # v
      <4>1. view'[u] = view[u]
        BY <2>1, <3>2
      <4> QED
        BY <3>2, <4>1 DEF SInv, Viewed, Others
    <3> QED
      BY <3>1, <3>2
  <2> QED
    BY <2>2, <2>3 DEF Viewed
<1> QED
  BY <1>1, <1>2, <1>3, <1>4 DEF SInv

(* A new connection continues what its page has.                           *)
LEMMA AfterConnect ==
  ASSUME NEW v \in Viewers, NEW after, after \in 0..MaxEvents, after <= Len(log), Len(log) \in Nat,
         up \in BOOLEAN,
         NEW k, k = [viewer |-> v, delivered |-> after,
                     phase  |-> IF up THEN "opening" ELSE "closed",
                     wire   |-> IF up THEN <<>> ELSE <<CloseFrame(1006)>>]
  PROVE  /\ Carries(k, log) /\ k.viewer = v /\ k.phase # "open" /\ (~up => k.phase = "closed")
         /\ Continues(k, after)
<1>1. CloseFrame(1006) \in Frame /\ CloseFrame(1006).kind = "close"
  BY Frames DEF CloseCode
<1>2. k.viewer = v /\ k.delivered = after
  OBVIOUS
<1>3. CASE up
  <2>1. k.phase = "opening" /\ k.wire = <<>> /\ <<>> \in Seq(Frame) /\ Len(<<>>) = 0
    BY <1>3
  <2>2. k \in Connection
    BY <1>3, <2>1 DEF Connection
  <2>3. Skipped(k.wire) = 0
    BY <2>1 DEF Skipped
  <2>4. Framed(k, log)
    BY <2>1 DEF Framed
  <2>5. Continues(k, after)
    BY <1>2, <2>1, <2>3 DEF Continues
  <2> QED
    BY <1>2, <1>3, <2>1, <2>2, <2>4, <2>5 DEF Carries
<1>4. CASE ~up
  <2>1. k.phase = "closed" /\ k.wire = <<CloseFrame(1006)>>
    BY <1>4
  <2>2. <<CloseFrame(1006)>> \in Seq(Frame) /\ Len(<<CloseFrame(1006)>>) = 1
    BY <1>1
  <2>3. k.wire[1] = CloseFrame(1006) /\ Len(k.wire) = 1
    BY <2>1, <2>2
  <2>4. k \in Connection
    BY <1>4, <2>1, <2>2 DEF Connection
  <2>5. \A i \in 1..Len(k.wire) : i = 1 /\ k.wire[i].kind = "close"
    BY <1>1, <2>3
  <2>6. Framed(k, log)
    BY <2>1, <2>3, <2>5 DEF Framed
  <2>7. Continues(k, after)
    BY <2>1, <2>5 DEF Continues
  <2> QED
    BY <1>2, <1>4, <2>1, <2>4, <2>6, <2>7 DEF Carries
<1> QED
  BY <1>3, <1>4

Opening(v, after) ==
  [viewer |-> v, delivered |-> after,
   phase  |-> IF up THEN "opening" ELSE "closed",
   wire   |-> IF up THEN <<>> ELSE <<CloseFrame(1006)>>]

(* A page that connects: it asks for what comes after what it has.         *)
LEMMA ConnectKeeps ==
  ASSUME SInv, NEW v \in Viewers, NEW w, Shows(w, log), NEW after, after = Len(w.accepted),
         Connect(v, w, after),
         log' = log, up' = up, boot' = boot, faults' = faults, gestures' \in 0..MaxGestures
  PROVE  SInv'
<1> DEFINE rest == Left(v)
           free == {c \in Conns : rest[c] = None}
           d == CHOOSE c \in free : TRUE
           k == Opening(v, after)
           cs == [rest EXCEPT ![d] = k]
           x == [w EXCEPT !.state = "connecting", !.socket = d]
<1>1. free # {} /\ conn' = cs /\ view' = [view EXCEPT ![v] = x]
  BY DEF Connect, Opening
<1>2. d \in free
  BY <1>1
<1> HIDE DEF d
<1>3. d \in Conns /\ rest[d] = None
  BY <1>2
<1>4. Wired(rest, log, up) /\ Others(v, rest) /\ OpenIn(rest, Subscribers)
  BY LeftKeeps
<1>5. rest \in [Conns -> Connection \cup {None}]
  BY <1>4 DEF Wired
<1>6. /\ Len(log) \in Nat /\ Len(log) <= MaxEvents /\ w \in View /\ Len(w.accepted) \in Nat
      /\ Len(w.accepted) <= Len(log) /\ up \in BOOLEAN
  BY DEF SInv, LogOK, Shows, View, ServerOK
<1>7. after \in 0..MaxEvents /\ after <= Len(log)
  BY <1>6, Bounds
<1>8. /\ Carries(k, log) /\ k.viewer = v /\ k.phase # "open" /\ (~up => k.phase = "closed")
      /\ Continues(k, after)
  BY <1>6, <1>7, AfterConnect DEF Opening
<1> HIDE DEF rest, k, cs, x
<1>9. k \in Connection /\ k # None
  BY <1>8, Nobody DEF Carries
<1>10. cs \in [Conns -> Connection \cup {None}] /\ cs[d] = k
       /\ \A c \in Conns : c # d => cs[c] = rest[c]
  BY <1>3, <1>5, <1>9 DEF cs
<1>11. Wired(cs, log, up)
  BY <1>4, <1>8, <1>10 DEF Wired
<1>12. OpenIn(cs, Subscribers)
  BY <1>4, <1>8, <1>10 DEF OpenIn
<1>13. Others(v, cs)
  <2>1. SUFFICES ASSUME NEW u \in Viewers \ {v}, view[u].socket # None
                 PROVE  Linked(u, view[u], cs)
    BY DEF Others, Linked
  <2>2. Linked(u, view[u], rest) /\ view[u].socket \in Conns
    BY <1>4, <2>1, OtherSockets DEF Others
  <2>3. view[u].socket # d
    BY <1>3, <2>1, <2>2 DEF Linked
  <2>4. cs[view[u].socket] = rest[view[u].socket]
    BY <1>10, <2>2, <2>3
  <2> QED
    BY <2>2, <2>4 DEF Linked
<1>14. x \in View
  BY <1>3, <1>6 DEF x, View, ConnectionState
<1>15. x.socket = d /\ x.state = "connecting" /\ x.accepted = w.accepted
  BY <1>6 DEF x, View
<1>16. Shows(x, log)
  BY <1>14, <1>15 DEF Shows
<1>17. Linked(v, x, cs)
  BY <1>8, <1>9, <1>10, <1>15 DEF Linked
<1>18. faults' \in 0..MaxFaults /\ faults' >= faults
  BY Bounds DEF SInv, ServerOK
<1> QED
  BY <1>1, <1>11, <1>12, <1>13, <1>16, <1>17, <1>18, PageTurns

(* A fresh hook shows nothing.                                             *)
LEMMA IdleShows ==
  ASSUME Len(log) \in Nat
  PROVE  Shows(Idle, log) /\ Len(Idle.accepted) = 0 /\ Idle.socket = None
<1>1. Idle \in View
  <2>1. <<>> \in Seq(Event) /\ 0 \in 0..Delays /\ 0 \in 0..MaxEvents
    BY Bounds
  <2> QED
    BY <2>1 DEF Idle, View, ConnectionState
<1>2. Idle.accepted = <<>> /\ Len(<<>>) = 0 /\ Idle.state = "idle" /\ Idle.socket = None
  BY DEF Idle
<1> QED
  BY <1>1, <1>2 DEF Shows

(* A page shows the beginning of the log.                                  *)
LEMMA Viewing ==
  ASSUME SInv, NEW v \in Viewers
  PROVE  Shows(view[v], log) /\ Linked(v, view[v], conn) /\ view[v] \in View
         /\ Len(view[v].accepted) \in Nat /\ Len(log) \in Nat
BY DEF SInv, Viewed, View, LogOK

(* The timer of a reconnect fires.                                         *)
LEMMA TimerKeeps ==
  ASSUME SInv, NEW v \in Viewers, Timer(v)
  PROVE  SInv'
<1>1. Shows(view[v], log) /\ view[v].since = Len(view[v].accepted)
  BY Viewing DEF Timer, Shows
<1>2. gestures' \in 0..MaxGestures
  BY DEF Timer, SInv, ServerOK
<1> QED
  BY <1>1, <1>2, ConnectKeeps DEF Timer

(* A page is opened.                                                       *)
LEMMA WatchKeeps ==
  ASSUME SInv, NEW v \in Viewers, Watch(v)
  PROVE  SInv'
<1>1. Shows(Idle, log) /\ 0 = Len(Idle.accepted)
  BY Viewing, IdleShows
<1>2. gestures' \in 0..MaxGestures
  BY DEF Watch, SInv, ServerOK
<1> QED
  BY <1>1, <1>2, ConnectKeeps DEF Watch

(* The gestures stay within their bound.                                   *)
LEMMA OneMoreGesture ==
  ASSUME SInv, gestures < MaxGestures, gestures' = gestures + 1
  PROVE  gestures' \in 0..MaxGestures
BY Bounds DEF SInv, ServerOK

(* A user reconnects a page by hand.                                       *)
LEMMA ReconnectKeeps ==
  ASSUME SInv, NEW v \in Viewers, Reconnect(v)
  PROVE  SInv'
<1> DEFINE w == [view[v] EXCEPT !.attempts = 0]
<1>1. Shows(view[v], log) /\ view[v] \in View
  BY Viewing
<1>2. w \in View
  <2>1. 0 \in 0..Delays
    BY Bounds
  <2> QED
    BY <1>1, <2>1 DEF View
<1>3. /\ w.accepted = view[v].accepted /\ w.state = view[v].state
      /\ w.since = view[v].since /\ w.socket = view[v].socket
  BY <1>1 DEF View
<1>4. Shows(w, log)
  <2> HIDE DEF w
  <2> QED
    BY <1>1, <1>2, <1>3 DEF Shows
<1>5. gestures' \in 0..MaxGestures
  BY OneMoreGesture DEF Reconnect
<1>6. Connect(v, w, Len(w.accepted))
  BY <1>3 DEF Reconnect, Resume
<1>7. log' = log /\ up' = up /\ boot' = boot /\ faults' = faults
  BY DEF Reconnect
<1> HIDE DEF w
<1> QED
  BY <1>4, <1>5, <1>6, <1>7, ConnectKeeps

(* A user leaves the task.                                                 *)
LEMMA LeaveKeeps ==
  ASSUME SInv, NEW v \in Viewers, Leave(v)
  PROVE  SInv'
<1>1. Wired(Left(v), log, up) /\ Others(v, Left(v)) /\ OpenIn(Left(v), Subscribers)
  BY LeftKeeps
<1>2. Shows(Idle, log) /\ Idle.socket = None
  BY Viewing, IdleShows
<1>3. Linked(v, Idle, Left(v))
  BY <1>2 DEF Linked
<1>4. gestures' \in 0..MaxGestures
  BY OneMoreGesture DEF Leave
<1>5. faults' \in 0..MaxFaults /\ faults' >= faults
  BY Bounds DEF Leave, SInv, ServerOK
<1>6. conn' = Left(v) /\ view' = [view EXCEPT ![v] = Idle] /\ log' = log /\ up' = up /\ boot' = boot
  BY DEF Leave
<1> QED
  BY <1>1, <1>2, <1>3, <1>4, <1>5, <1>6, PageTurns

(* A page that gives up a connection keeps what it shows.                  *)
LEMMA RetryShows ==
  ASSUME NEW w, Shows(w, log), Len(log) \in Nat, Len(log) <= MaxEvents
  PROVE  /\ Shows(ScheduleReconnect(w, Resume(w)), log)
         /\ ScheduleReconnect(w, Resume(w)).socket = None
<1> DEFINE x == ScheduleReconnect(w, Resume(w))
<1>1. /\ w \in View /\ Len(w.accepted) \in Nat
      /\ Len(w.accepted) <= Len(log) /\ w.attempts \in 0..Delays
  BY DEF Shows, View
<1>2. Len(w.accepted) \in 0..MaxEvents
  BY <1>1, Bounds
<1>3. CASE w.attempts >= Delays
  <2>1. x = [w EXCEPT !.state = "disconnected", !.socket = None]
    BY <1>3 DEF ScheduleReconnect
  <2> HIDE DEF x
  <2>2. x \in View
    BY <1>1, <2>1 DEF View, ConnectionState
  <2>3. x.state = "disconnected" /\ x.socket = None /\ x.accepted = w.accepted
    BY <1>1, <2>1 DEF View
  <2>4. Shows(x, log)
    BY <2>2, <2>3 DEF Shows
  <2> QED
    BY <2>3, <2>4 DEF x
<1>4. CASE ~(w.attempts >= Delays)
  <2>1. x = [w EXCEPT !.state = "reconnecting", !.socket = None, !.attempts = w.attempts + 1,
                      !.since = Len(w.accepted)]
    BY <1>4 DEF ScheduleReconnect, Resume
  <2>0. w.attempts + 1 \in 0..Delays
    BY <1>1, <1>4, Bounds
  <2> HIDE DEF x
  <2>2. x \in View
    BY <1>1, <1>2, <2>0, <2>1 DEF View, ConnectionState
  <2>3. /\ x.state = "reconnecting" /\ x.socket = None /\ x.accepted = w.accepted
        /\ x.since = Len(w.accepted)
    BY <1>1, <2>1 DEF View
  <2>4. Shows(x, log)
    BY <2>2, <2>3 DEF Shows
  <2> QED
    BY <2>3, <2>4 DEF x
<1> QED
  BY <1>3, <1>4

(* A page that hears a close keeps what it shows.                          *)
LEMMA HearsShows ==
  ASSUME NEW w, Shows(w, log), Len(log) \in Nat, Len(log) <= MaxEvents, NEW code
  PROVE  Shows(Hears(w, code), log) /\ Hears(w, code).socket = None
<1> DEFINE x == Hears(w, code)
<1>1. CASE code = 1000 /\ TerminalReceived(w)
  <2>0. w \in View
    BY DEF Shows
  <2>1. x = [w EXCEPT !.state = "completed", !.socket = None]
    BY <1>1 DEF Hears
  <2> HIDE DEF x
  <2>2. x \in View
    BY <2>0, <2>1 DEF View, ConnectionState
  <2>3. x.state = "completed" /\ x.socket = None /\ x.accepted = w.accepted
    BY <2>0, <2>1 DEF View
  <2>4. Shows(x, log)
    BY <2>2, <2>3 DEF Shows
  <2> QED
    BY <2>3, <2>4 DEF x
<1>2. CASE ~(code = 1000 /\ TerminalReceived(w))
  <2>1. x = ScheduleReconnect(w, Resume(w))
    BY <1>2 DEF Hears
  <2> QED
    BY <2>1, RetryShows
<1> QED
  BY <1>1, <1>2

(* The network loses a connection.                                         *)
LEMMA LoseKeeps ==
  ASSUME SInv, NEW v \in Viewers, Lose(v)
  PROVE  SInv'
<1> DEFINE w == Hears(view[v], 1006)
<1>1. Wired(Left(v), log, up) /\ Others(v, Left(v)) /\ OpenIn(Left(v), Subscribers)
  BY LeftKeeps
<1>0. Shows(view[v], log) /\ Len(log) \in Nat /\ Len(log) <= MaxEvents
  BY Viewing DEF SInv, LogOK
<1>2. Shows(w, log) /\ w.socket = None
  BY <1>0, HearsShows
<1>3. Linked(v, w, Left(v))
  BY <1>2 DEF Linked
<1>4. gestures' \in 0..MaxGestures
  BY DEF Lose, SInv, ServerOK
<1>5. faults' \in 0..MaxFaults /\ faults' >= faults
  BY Bounds DEF Lose, SInv, ServerOK
<1>6. conn' = Left(v) /\ view' = [view EXCEPT ![v] = w] /\ log' = log /\ up' = up /\ boot' = boot
  BY DEF Lose
<1> HIDE DEF w
<1> QED
  BY <1>1, <1>2, <1>3, <1>4, <1>5, <1>6, PageTurns

(* What is left of a wire whose first frame is read.                       *)
Rest(t, wire) ==
  /\ Len(wire) \in Nat /\ Len(wire) >= 1 /\ Len(t) = Len(wire) - 1
  /\ \A i \in 1..(Len(wire) - 1) : t[i] = wire[i + 1] /\ i + 1 \in 1..Len(wire)

(* Reading the first frame of a wire.                                      *)
LEMMA Reading ==
  ASSUME NEW wire, wire \in Seq(Frame), wire # <<>>
  PROVE  /\ Tail(wire) \in Seq(Frame) /\ Head(wire) = wire[1] /\ wire[1] \in Frame
         /\ Rest(Tail(wire), wire)
<1>1. /\ Len(wire) \in Nat /\ Len(wire) >= 1 /\ Len(Tail(wire)) = Len(wire) - 1
      /\ \A i \in 1..(Len(wire) - 1) : Tail(wire)[i] = wire[i + 1]
  OBVIOUS
<1>2. Tail(wire) \in Seq(Frame) /\ Head(wire) = wire[1] /\ wire[1] \in Frame
  OBVIOUS
<1> DEFINE t == Tail(wire)
<1>3. /\ Len(wire) \in Nat /\ Len(wire) >= 1 /\ Len(t) = Len(wire) - 1
      /\ \A i \in 1..(Len(wire) - 1) : t[i] = wire[i + 1]
  BY <1>1
<1> HIDE DEF t
<1>4. \A i \in 1..(Len(wire) - 1) : i + 1 \in 1..Len(wire)
  BY <1>3
<1>5. Rest(t, wire)
  BY <1>3, <1>4 DEF Rest
<1> QED
  BY <1>2, <1>5 DEF t

(* No frame but the first is a handshake.                                  *)
LEMMA RestIsOpened ==
  ASSUME NEW l, NEW k, Framed(k, l), NEW t, t \in Seq(Frame), Rest(t, k.wire)
  PROVE  Skipped(t) = 0
<1>1. CASE t = <<>>
  BY <1>1 DEF Skipped
<1>2. CASE t[1].kind # "open"
  BY <1>2 DEF Skipped
<1>3. CASE t # <<>> /\ t[1].kind = "open"
  <2>1. CASE Len(k.wire) = 1
    <3>1. Len(t) = 0
      BY <2>1 DEF Rest
    <3> QED
      BY <3>1, <1>3
  <2>2. CASE Len(k.wire) # 1
    <3> DEFINE n == Len(k.wire)
    <3>0. n \in Nat /\ n >= 1 /\ n # 1
      BY <2>2 DEF Rest
    <3> HIDE DEF n
    <3>4. 1 \in 1..(n - 1)
      BY <3>0
    <3>1. 1 \in 1..(Len(k.wire) - 1)
      BY <3>4 DEF n
    <3>2. t[1] = k.wire[1 + 1] /\ 1 + 1 \in 1..Len(k.wire)
      BY <3>1 DEF Rest
    <3>3. k.wire[1 + 1].kind # "open"
      BY <3>2 DEF Framed
    <3> QED
      BY <1>3, <3>2, <3>3
  <2> QED
    BY <2>1, <2>2
<1> QED
  BY <1>1, <1>2, <1>3

(* A connection whose next frame is read.                                  *)
ReadOff(k) == [k EXCEPT !.wire = Tail(k.wire)]

ReadFrom(s, k, l) ==
  /\ Carries(s, l) /\ s.viewer = k.viewer /\ s.phase = k.phase
  /\ s.delivered = k.delivered /\ Rest(s.wire, k.wire) /\ Skipped(s.wire) = 0

(* A connection whose first frame is read still carries the log.           *)
LEMMA ReadKeeps ==
  ASSUME NEW l, NEW k, Carries(k, l), k.wire # <<>>, NEW s, s = ReadOff(k)
  PROVE  ReadFrom(s, k, l)
<1>1. k \in Connection /\ k.wire \in Seq(Frame) /\ Framed(k, l)
  BY DEF Carries, Connection
<1>2. Tail(k.wire) \in Seq(Frame) /\ Rest(Tail(k.wire), k.wire)
  BY <1>1, Reading
<1>3. s \in Connection
  BY <1>1, <1>2 DEF Connection, ReadOff
<1>4. /\ s.wire = Tail(k.wire) /\ s.viewer = k.viewer /\ s.phase = k.phase
      /\ s.delivered = k.delivered
  BY <1>1 DEF Connection, ReadOff
<1>5. Rest(s.wire, k.wire)
  BY <1>2, <1>4
<1>6. Framed(s, l)
  <2>1. SUFFICES ASSUME NEW i \in 1..Len(s.wire)
                 PROVE  /\ s.wire[i].kind = "open" => i = 1
                        /\ s.wire[i].kind = "close" => i = Len(s.wire) /\ s.phase = "closed"
                        /\ s.wire[i].kind = "event" => \E j \in 1..Len(l) : s.wire[i].event = l[j]
    BY DEF Framed
  <2>2. i \in 1..(Len(k.wire) - 1) /\ s.wire[i] = k.wire[i + 1] /\ i + 1 \in 1..Len(k.wire)
    BY <1>5 DEF Rest
  <2>3. /\ s.wire[i].kind = "open" => i + 1 = 1
        /\ s.wire[i].kind = "close" => i + 1 = Len(k.wire) /\ k.phase = "closed"
        /\ s.wire[i].kind = "event" => \E j \in 1..Len(l) : s.wire[i].event = l[j]
    BY <1>1, <2>2 DEF Framed
  <2>4. i + 1 # 1 /\ (i + 1 = Len(k.wire) => i = Len(s.wire))
    BY <1>5, <2>2 DEF Rest
  <2> QED
    BY <1>4, <2>3, <2>4
<1>7. k.phase # "opening"
  BY DEF Carries
<1>8. Carries(s, l)
  BY <1>3, <1>4, <1>6, <1>7 DEF Carries
<1>9. Skipped(s.wire) = 0
  BY <1>1, <1>2, <1>4, <1>5, RestIsOpened
<1> QED
  BY <1>4, <1>5, <1>8, <1>9 DEF ReadFrom

(* What is left still continues what the page has, the frame included.     *)
LEMMA ReadContinues ==
  ASSUME NEW k, NEW s, s.phase = k.phase, s.delivered = k.delivered, Rest(s.wire, k.wire),
         Skipped(s.wire) = 0, NEW have \in Nat, Continues(k, have),
         NEW next, next = have + 1 - Skipped(k.wire)
  PROVE  Continues(s, next)
<1> DEFINE n == Len(k.wire)
           gone == Skipped(k.wire)
<1>1. gone \in {0, 1} /\ n \in Nat /\ Len(s.wire) = n - 1
  BY DEF Rest, Skipped
<1>2. k.phase # "closed" => k.delivered = have + n - gone
  BY DEF Continues
<1>3. \A i \in 1..n : k.wire[i].kind = "event" => k.wire[i].event.at = have + i - gone
  BY DEF Continues
<1>4. \A i \in 1..(n - 1) : s.wire[i] = k.wire[i + 1] /\ i + 1 \in 1..n
  BY DEF Rest
<1> HIDE DEF n, gone
<1>5. have + n - gone = next + (n - 1) - 0
  BY <1>1 DEF gone
<1>6. ASSUME NEW i \in 1..(n - 1), s.wire[i].kind = "event"
      PROVE  s.wire[i].event.at = next + i - 0
  <2>1. s.wire[i] = k.wire[i + 1] /\ i + 1 \in 1..n
    BY <1>4
  <2>2. s.wire[i].event.at = have + (i + 1) - gone
    BY <1>3, <1>6, <2>1
  <2>3. have + (i + 1) - gone = next + i - 0
    BY <1>1 DEF gone
  <2> QED
    BY <2>2, <2>3
<1> QED
  BY <1>1, <1>2, <1>5, <1>6 DEF Continues

(* The connection of a page is its own and continues what it shows.        *)
LEMMA OwnConnection ==
  ASSUME SInv, NEW v \in Viewers, view[v].socket # None
  PROVE  /\ view[v].socket \in Conns /\ conn[view[v].socket] # None
         /\ Carries(conn[view[v].socket], log) /\ conn[view[v].socket].viewer = v
         /\ Continues(conn[view[v].socket], Len(view[v].accepted))
<1>1. view[v] \in View /\ Linked(v, view[v], conn)
  BY Viewing
<1>2. view[v].socket \in Conns
  BY <1>1 DEF View
<1> QED
  BY <1>1, <1>2 DEF Linked, SInv, Wired

(* The page's own connection becomes another in the same phase, or none.   *)
Replaced(v, k) == [conn EXCEPT ![view[v].socket] = k]

SamePhase(v, k) ==
  k # None => (Carries(k, log) /\ k.phase = conn[view[v].socket].phase)

LEMMA ReplacedKeeps ==
  ASSUME SInv, NEW v \in Viewers, view[v].socket # None, NEW k, SamePhase(v, k)
  PROVE  /\ Wired(Replaced(v, k), log, up) /\ Others(v, Replaced(v, k))
         /\ OpenIn(Replaced(v, k), Subscribers) /\ Replaced(v, k)[view[v].socket] = k
<1> DEFINE s == view[v].socket
           cs == Replaced(v, k)
<1>1. s \in Conns /\ conn[s] # None
  BY OwnConnection
<1>2. /\ conn \in [Conns -> Connection \cup {None}]
      /\ \A c \in Conns : conn[c] # None =>
           Carries(conn[c], log) /\ (~up => conn[c].phase = "closed")
  BY DEF SInv, Wired
<1>3. Others(v, cs)
  BY OthersKeep DEF Replaced
<1>4. cs = [conn EXCEPT ![s] = k]
  BY DEF Replaced
<1>5. (k # None) => (Carries(k, log) /\ k.phase = conn[s].phase)
  BY DEF SamePhase
<1> HIDE DEF s, cs
<1>6. k \in Connection \cup {None}
  BY <1>5 DEF Carries
<1>7. /\ cs \in [Conns -> Connection \cup {None}] /\ cs[s] = k
      /\ \A c \in Conns : c # s => cs[c] = conn[c]
  BY <1>1, <1>2, <1>4, <1>6
<1>8. ASSUME NEW c \in Conns, cs[c] # None
      PROVE  /\ Carries(cs[c], log) /\ (~up => cs[c].phase = "closed")
             /\ cs[c].phase = "open" => c \in Subscribers
  <2>1. CASE c = s
    BY <1>1, <1>2, <1>5, <1>7, <1>8, <2>1 DEF Subscribers
  <2>2. CASE c # s
    BY <1>2, <1>7, <1>8, <2>2 DEF Subscribers
  <2> QED
    BY <2>1, <2>2
<1>9. Wired(cs, log, up) /\ OpenIn(cs, Subscribers)
  BY <1>7, <1>8 DEF Wired, OpenIn
<1> QED
  BY <1>3, <1>7, <1>9 DEF s, cs

(* The next frame of a page's connection.                                  *)
LEMMA NextFrame ==
  ASSUME SInv, NEW v \in Viewers, view[v].socket # None,
         NEW k, k = conn[view[v].socket], k.wire # <<>>,
         NEW t, t = ReadOff(k)
  PROVE  /\ Carries(t, log) /\ t.viewer = v /\ t.phase = k.phase /\ t.delivered = k.delivered
         /\ Rest(t.wire, k.wire) /\ Skipped(t.wire) = 0
         /\ k.wire[1] \in Frame /\ Head(k.wire) = k.wire[1] /\ 1 \in 1..Len(k.wire)
         /\ Framed(k, log) /\ Continues(k, Len(view[v].accepted)) /\ k \in Connection
<1>1. Carries(k, log) /\ k.viewer = v /\ Continues(k, Len(view[v].accepted))
  BY OwnConnection
<1>2. k \in Connection /\ k.wire \in Seq(Frame) /\ Framed(k, log)
  BY <1>1 DEF Carries, Connection
<1>3. k.wire[1] \in Frame /\ Head(k.wire) = k.wire[1] /\ Rest(Tail(k.wire), k.wire)
  BY <1>2, Reading
<1>4. 1 \in 1..Len(k.wire)
  BY <1>2
<1>5. ReadFrom(t, k, log)
  BY <1>1, ReadKeeps
<1> QED
  BY <1>1, <1>2, <1>3, <1>4, <1>5 DEF ReadFrom

(* An event on the wire is the next of the log for the page.               *)
LEMMA NextEvent ==
  ASSUME SInv, NEW v \in Viewers, NEW k, Framed(k, log), Continues(k, Len(view[v].accepted)),
         k.wire # <<>>, 1 \in 1..Len(k.wire), k.wire[1].kind = "event",
         NEW e, e = k.wire[1].event
  PROVE  /\ e \in Event /\ Len(view[v].accepted) + 1 \in 1..Len(log)
         /\ e = log[Len(view[v].accepted) + 1] /\ e.at = Len(view[v].accepted) + 1
         /\ Skipped(k.wire) = 0
<1>1. Skipped(k.wire) = 0
  BY DEF Skipped
<1>2. e.at = Len(view[v].accepted) + 1 - Skipped(k.wire)
  BY DEF Continues
<1>3. Len(view[v].accepted) \in Nat /\ Len(log) \in Nat
  BY Viewing
<1>4. e.at = Len(view[v].accepted) + 1
  BY <1>1, <1>2, <1>3
<1>5. PICK j \in 1..Len(log) : e = log[j]
  BY DEF Framed
<1>6. e \in Event /\ e.at = j
  BY <1>5, LogIs DEF SInv
<1> QED
  BY <1>1, <1>4, <1>5, <1>6

(* The page takes it, unless the log was opened again for another run.     *)
LEMMA TakeShows ==
  ASSUME SInv, NEW v \in Viewers, NEW e, e \in Event, view[v].socket # None,
         Len(view[v].accepted) + 1 \in 1..Len(log), e = log[Len(view[v].accepted) + 1],
         e.at = Len(view[v].accepted) + 1
  PROVE  /\ Shows(Take(view[v], e), log)
         /\ \/ Take(view[v], e).socket = None
            \/ /\ Take(view[v], e).socket = view[v].socket
               /\ Len(Take(view[v], e).accepted) = Len(view[v].accepted) + 1
<1> DEFINE w == view[v]
           x == Take(w, e)
           n == Len(w.accepted)
<1>1. /\ Shows(w, log) /\ w \in View /\ n \in Nat /\ Len(log) \in Nat
      /\ w.accepted \in Seq(Event)
  BY Viewing DEF View
<1>2. ~(e.at <= n) /\ ~(e.at > n + 1)
  BY <1>1
<1>3. CASE w.accepted # <<>> /\ e.run # Head(w.accepted).run
  <2>1. Classify(w, e) = "identity-mismatch"
    BY <1>3 DEF Classify
  <2>2. x = [w EXCEPT !.state = "error", !.socket = None]
    BY <2>1 DEF Take
  <2> HIDE DEF x
  <2>3. x \in View
    BY <1>1, <2>2 DEF View, ConnectionState
  <2>4. x.state = "error" /\ x.socket = None /\ x.accepted = w.accepted
    BY <1>1, <2>2 DEF View
  <2>5. 1 \in 1..n /\ Head(w.accepted) = w.accepted[1]
    BY <1>1, <1>3
  <2>6. Head(w.accepted) = log[1]
    BY <1>1, <2>5 DEF Shows
  <2>7. ~(\A i \in 1..Len(log) : log[i].run = log[1].run)
    BY <1>3, <2>6
  <2>8. \E i \in 1..(Len(log) - 1) : log[i].terminal
    BY <2>7 DEF SInv, LogOK
  <2>9. Shows(x, log)
    BY <1>1, <2>3, <2>4, <2>8 DEF Shows
  <2> QED
    BY <2>4, <2>9 DEF x
<1>4. CASE ~(w.accepted # <<>> /\ e.run # Head(w.accepted).run)
  <2>1. Classify(w, e) = "accepted"
    BY <1>2, <1>4 DEF Classify
  <2>2. x = [w EXCEPT !.accepted = Append(w.accepted, e), !.attempts = 0]
    BY <2>1 DEF Take
  <2>3. /\ Append(w.accepted, e) \in Seq(Event) /\ Len(Append(w.accepted, e)) = n + 1
        /\ Append(w.accepted, e)[n + 1] = e
        /\ \A i \in 1..n : Append(w.accepted, e)[i] = w.accepted[i]
    BY <1>1, Appending
  <2>4. 0 \in 0..Delays
    BY Bounds
  <2> HIDE DEF x
  <2>5. x \in View
    BY <1>1, <2>2, <2>3, <2>4 DEF View
  <2>6. /\ x.accepted = Append(w.accepted, e) /\ x.state = w.state /\ x.socket = w.socket
    BY <1>1, <2>2 DEF View
  <2>7. w.state # "reconnecting"
    BY <1>1 DEF Shows
  <2>8. \A i \in 1..n : w.accepted[i] = log[i]
    BY <1>1 DEF Shows
  <2>9. Len(x.accepted) = n + 1 /\ n + 1 <= Len(log)
    BY <1>1, <2>3, <2>6
  <2>10. ASSUME NEW i \in 1..(n + 1) PROVE x.accepted[i] = log[i]
    <3>1. CASE i = n + 1
      BY <2>3, <2>6, <3>1
    <3>2. CASE i # n + 1
      <4>1. i \in 1..n
        BY <1>1, <3>2
      <4> QED
        BY <2>3, <2>6, <2>8, <4>1
    <3> QED
      BY <3>1, <3>2
  <2>11. w.state = "error" => \E i \in 1..(Len(log) - 1) : log[i].terminal
    BY <1>1 DEF Shows
  <2>12. Shows(x, log)
    BY <2>5, <2>6, <2>7, <2>9, <2>10, <2>11 DEF Shows
  <2> QED
    BY <2>6, <2>9, <2>12 DEF x
<1> QED
  BY <1>3, <1>4

(* A page whose socket opens keeps what it shows.                          *)
LEMMA OpenedShows ==
  ASSUME NEW w, Shows(w, log), w.socket # None
  PROVE  /\ Shows(Opened(w), log) /\ Opened(w).socket = w.socket
         /\ Opened(w).accepted = w.accepted
<1> DEFINE x == Opened(w)
<1>1. w \in View
  BY DEF Shows
<1>2. x = [w EXCEPT !.state = "connected"]
  BY DEF Opened
<1> HIDE DEF x
<1>3. x \in View
  BY <1>1, <1>2 DEF View, ConnectionState
<1>4. x.state = "connected" /\ x.socket = w.socket /\ x.accepted = w.accepted
  BY <1>1, <1>2 DEF View
<1>5. Shows(x, log)
  BY <1>3, <1>4 DEF Shows
<1> QED
  BY <1>4, <1>5 DEF x

(* A page reads the next frame of its connection.                          *)
LEMMA ReceiveKeeps ==
  ASSUME SInv, NEW v \in Viewers, Receive(v)
  PROVE  SInv'
<1> DEFINE k == conn[view[v].socket]
           f == Head(k.wire)
           t == ReadOff(k)
           read == [conn EXCEPT ![view[v].socket].wire = Tail(@)]
           gone == [conn EXCEPT ![view[v].socket] = None]
           w == CASE f.kind = "open"  -> Opened(view[v])
                  [] f.kind = "event" -> Take(view[v], f.event)
                  [] f.kind = "close" -> Hears(view[v], f.code)
           turned == [view EXCEPT ![v] = w]
           have == Len(view[v].accepted)
<1>1. /\ view[v].socket # None /\ k.wire # <<>> /\ view' = turned
      /\ conn' = IF w.socket # None THEN read ELSE IF f.kind = "close" THEN gone ELSE Left(v)
      /\ log' = log /\ up' = up /\ boot' = boot /\ faults' = faults /\ gestures' = gestures
  BY ZenonT(20) DEF Receive
<1>2. /\ f.kind = "open" => w = Opened(view[v])
      /\ f.kind = "event" => w = Take(view[v], f.event)
      /\ f.kind = "close" => w = Hears(view[v], f.code)
  <2> HIDE DEF f
  <2> QED
    OBVIOUS
<1>3. k = conn[view[v].socket] /\ f = Head(k.wire) /\ t = ReadOff(k)
  OBVIOUS
<1>4. have = Len(view[v].accepted)
  OBVIOUS
<1> HIDE DEF k, f, t, w, have
<1>5. turned = [view EXCEPT ![v] = w]
  OBVIOUS
<1> HIDE DEF turned
<1>6. /\ Carries(t, log) /\ t.viewer = v /\ t.phase = k.phase /\ t.delivered = k.delivered
      /\ Rest(t.wire, k.wire) /\ Skipped(t.wire) = 0
      /\ k.wire[1] \in Frame /\ f = k.wire[1] /\ 1 \in 1..Len(k.wire)
      /\ Framed(k, log) /\ Continues(k, have) /\ k \in Connection
  <2> HIDE DEF read, gone
  <2>1. view[v].socket # None /\ k.wire # <<>>
    BY <1>1
  <2> QED
    BY <1>3, <1>4, <2>1, NextFrame
<1>7. read = Replaced(v, t) /\ gone = Replaced(v, None)
  <2>1. view[v].socket \in Conns /\ conn \in [Conns -> Connection \cup {None}]
    BY <1>1, OwnConnection DEF SInv, Wired
  <2> QED
    BY <1>3, <2>1 DEF ReadOff, Replaced
<1> HIDE DEF read, gone
<1>8. /\ Shows(view[v], log) /\ have \in Nat /\ Len(log) \in Nat /\ Len(log) <= MaxEvents
  BY <1>4, Viewing DEF SInv, LogOK
<1>9. faults' \in 0..MaxFaults /\ faults' >= faults /\ gestures' \in 0..MaxGestures
  <2>1. faults' = faults /\ gestures' = gestures
    BY <1>1
  <2> QED
    BY <2>1, Bounds DEF SInv, ServerOK
<1>10. Wired(Left(v), log, up) /\ Others(v, Left(v)) /\ OpenIn(Left(v), Subscribers)
  BY LeftKeeps
<1>11. t # None
  BY <1>6, Nobody DEF Carries
<1>12. view[v].socket # None
  BY <1>1
<1>13. /\ Wired(read, log, up) /\ Others(v, read) /\ OpenIn(read, Subscribers)
       /\ read[view[v].socket] = t
  <2>1. SamePhase(v, t)
    BY <1>3, <1>6 DEF SamePhase
  <2> QED
    BY <1>7, <1>12, <2>1, ReplacedKeeps
<1>14. Wired(gone, log, up) /\ Others(v, gone) /\ OpenIn(gone, Subscribers)
  <2>1. SamePhase(v, None)
    BY DEF SamePhase
  <2> QED
    BY <1>7, <1>12, <2>1, ReplacedKeeps
<1>15. view' = [view EXCEPT ![v] = w] /\ log' = log /\ up' = up /\ boot' = boot
  BY <1>1, <1>5
<1>16. f.kind \in {"open", "event", "close"}
  BY <1>6, Frames
<1>17. CASE f.kind = "open"
  <2>1. w = Opened(view[v])
    BY <1>2, <1>17
  <2>2. /\ Shows(w, log) /\ w.socket = view[v].socket /\ w.accepted = view[v].accepted
    BY <1>8, <1>12, <2>1, OpenedShows
  <2>3. conn' = read
    BY <1>1, <1>12, <2>2
  <2>4. Skipped(k.wire) = 1
    BY <1>1, <1>6, <1>17 DEF Skipped
  <2>5. have = have + 1 - Skipped(k.wire)
    BY <1>8, <2>4
  <2>6. Continues(t, have)
    BY <1>6, <1>8, <2>5, ReadContinues
  <2>7. Linked(v, w, read)
    BY <1>4, <1>6, <1>11, <1>13, <2>2, <2>6 DEF Linked
  <2> QED
    BY <1>9, <1>13, <1>15, <2>2, <2>3, <2>7, PageTurns
<1>18. CASE f.kind = "event"
  <2> DEFINE e == f.event
  <2>1. w = Take(view[v], e)
    BY <1>2, <1>18
  <2>2. k.wire # <<>> /\ k.wire[1].kind = "event" /\ e = k.wire[1].event
    BY <1>1, <1>6, <1>18
  <2> HIDE DEF e
  <2>3. /\ e \in Event /\ have + 1 \in 1..Len(log) /\ e = log[have + 1] /\ e.at = have + 1
        /\ Skipped(k.wire) = 0
    BY <1>4, <1>6, <2>2, NextEvent
  <2>4. /\ Shows(w, log)
        /\ w.socket = None \/ (w.socket = view[v].socket /\ Len(w.accepted) = have + 1)
    BY <1>4, <1>12, <2>1, <2>3, TakeShows
  <2>5. CASE w.socket = None
    <3>1. conn' = Left(v)
      BY <1>1, <1>18, <2>5
    <3>2. Linked(v, w, Left(v))
      BY <2>5 DEF Linked
    <3> QED
      BY <1>9, <1>10, <1>15, <2>4, <3>1, <3>2, PageTurns
  <2>6. CASE w.socket # None
    <3>1. conn' = read
      BY <1>1, <2>6
    <3>2. have + 1 = have + 1 - Skipped(k.wire)
      BY <1>8, <2>3
    <3>3. Continues(t, have + 1)
      BY <1>6, <1>8, <3>2, ReadContinues
    <3>4. Linked(v, w, read)
      BY <1>6, <1>11, <1>13, <2>4, <2>6, <3>3 DEF Linked
    <3> QED
      BY <1>9, <1>13, <1>15, <2>4, <3>1, <3>4, PageTurns
  <2> QED
    BY <2>5, <2>6
<1>19. CASE f.kind = "close"
  <2>1. w = Hears(view[v], f.code)
    BY <1>2, <1>19
  <2>2. Shows(w, log) /\ w.socket = None
    BY <1>8, <2>1, HearsShows
  <2>3. conn' = gone
    BY <1>1, <1>19, <2>2
  <2>4. Linked(v, w, gone)
    BY <2>2 DEF Linked
  <2> QED
    BY <1>9, <1>14, <1>15, <2>2, <2>3, <2>4, PageTurns
<1> QED
  BY <1>16, <1>17, <1>18, <1>19

(* The connections carry the log; the pages show it.                       *)
LEMMA Connections ==
  ASSUME SInv
  PROVE  /\ conn \in [Conns -> Connection \cup {None}]
         /\ \A c \in Conns : conn[c] # None =>
              Carries(conn[c], log) /\ conn[c] \in Connection /\ (~up => conn[c].phase = "closed")
         /\ Viewed(view, conn, log) /\ Len(log) \in Nat /\ Extends(log, log)
BY Longest DEF SInv, Wired, Carries, LogOK

OnlyAt(c, k, cs) == cs[c] = k /\ \A d \in Conns : d # c => cs[d] = conn[d]

(* A step of the server at one connection.                                 *)
LEMMA OneIsServed ==
  ASSUME SInv, NEW c \in Conns, conn[c] # None, NEW k, k \in Connection \cup {None},
         Served(conn[c], k, log), (k # None /\ ~up) => k.phase = "closed",
         NEW cs, cs = [conn EXCEPT ![c] = k]
  PROVE  Wired(cs, log, up) /\ Viewed(view, cs, log) /\ OnlyAt(c, k, cs)
<1>1. /\ conn \in [Conns -> Connection \cup {None}]
      /\ \A d \in Conns : conn[d] # None =>
           Carries(conn[d], log) /\ conn[d] \in Connection /\ (~up => conn[d].phase = "closed")
      /\ Viewed(view, conn, log) /\ Len(log) \in Nat /\ Extends(log, log)
  BY Connections
<1>2. /\ cs \in [Conns -> Connection \cup {None}] /\ cs[c] = k
      /\ \A d \in Conns : d # c => cs[d] = conn[d]
  BY <1>1
<1>3. ASSUME NEW d \in Conns
      PROVE  /\ Served(conn[d], cs[d], log) /\ (conn[d] = None => cs[d] = None)
             /\ (cs[d] # None /\ ~up) => cs[d].phase = "closed"
  <2>1. CASE d = c
    BY <1>2, <2>1
  <2>2. CASE d # c
    <3>1. cs[d] = conn[d]
      BY <1>2, <2>2
    <3>2. Served(conn[d], conn[d], log)
      BY <1>1, Same
    <3> QED
      BY <1>1, <3>1, <3>2
  <2> QED
    BY <2>1, <2>2
<1>4. Wired(cs, log, up) /\ Viewed(view, cs, log)
  BY <1>1, <1>2, <1>3, ServerServes
<1> QED
  BY <1>2, <1>4 DEF OnlyAt

(* The server learns that a page is gone.                                  *)
LEMMA NoticeKeeps ==
  ASSUME SInv, NEW c \in Conns, Notice(c)
  PROVE  SInv'
<1> DEFINE cs == [conn EXCEPT ![c] = None]
<1>1. conn[c] # None /\ conn[c].viewer = None /\ conn' = cs
      /\ log' = log /\ view' = view /\ up' = up /\ boot' = boot /\ faults' = faults
      /\ gestures' = gestures
  BY DEF Notice
<1> HIDE DEF cs
<1>2. Served(conn[c], None, log)
  BY <1>1 DEF Served
<1>3. Wired(cs, log, up) /\ Viewed(view, cs, log) /\ OnlyAt(c, None, cs)
  BY <1>1, <1>2, OneIsServed DEF cs
<1>4. OpenIn(cs, Subscribers)
  BY <1>3 DEF OpenIn, Subscribers, OnlyAt
<1>5. Cardinality(Subscribers') <= Limit
  BY <1>1, <1>4, FewSubscribers DEF SInv, ServerOK
<1>6. ServerOK'
  BY <1>1, <1>5 DEF SInv, ServerOK
<1> QED
  BY <1>1, <1>3, <1>6 DEF SInv

(* A crash cuts every connection off.                                      *)
LEMMA CrashServes ==
  ASSUME NEW k, Carries(k, log), k.phase # "closed", Len(log) \in Nat,
         NEW s, s = Tidy(Shut([k EXCEPT !.wire = <<>>], 1006))
  PROVE  /\ Served(k, s, log) /\ s \in Connection \cup {None}
         /\ s # None => s.phase = "closed"
<1> DEFINE t == [k EXCEPT !.wire = <<>>]
           r == Shut(t, 1006)
<1>1. k \in Connection /\ k.delivered <= Len(log) /\ <<>> \in Seq(Frame) /\ 1006 \in CloseCode
      /\ k # None
  BY Nobody DEF Carries, CloseCode
<1>2. t \in Connection
  BY <1>1 DEF Connection
<1>3. /\ t.wire = <<>> /\ t.viewer = k.viewer /\ t.phase = k.phase
      /\ t.delivered = k.delivered
  BY <1>1 DEF Connection
<1>4. s = Tidy(r)
  OBVIOUS
<1>5. r = [t EXCEPT !.phase = "closed", !.wire = Append(t.wire, CloseFrame(1006))]
  BY DEF Shut
<1>6. r.wire = Append(t.wire, CloseFrame(1006))
  <2> HIDE DEF t, r
  <2> QED
    BY <1>2, <1>5 DEF Connection
<1>7. CloseFrame(1006).kind = "close" /\ CloseFrame(1006) \in Frame
  BY <1>1, Frames
<1> HIDE DEF t
<1>8. Framed(t, log)
  BY <1>3 DEF Framed
<1>9. Carries(r, log) /\ r.viewer = t.viewer /\ r.phase = "closed"
  <2>1. t.phase # "closed" /\ t.delivered <= Len(log)
    BY <1>1, <1>3
  <2> QED
    BY <1>1, <1>2, <1>8, <2>1, ShutKeeps
<1> HIDE DEF r
<1>10. GoesOn(k, r)
  <2>1. r.wire = <<CloseFrame(1006)>>
    BY <1>3, <1>6
  <2>2. Len(r.wire) = 1 /\ r.wire[1] = CloseFrame(1006)
    BY <1>7, <2>1
  <2>3. \A i \in 1..Len(r.wire) : r.wire[i].kind = "close"
    BY <1>7, <2>2
  <2> QED
    BY <1>9, <2>3 DEF GoesOn, Continues
<1>11. r.viewer = k.viewer
  BY <1>3, <1>9
<1>12. /\ Served(k, Tidy(r), log) /\ Tidy(r) \in Connection \cup {None}
       /\ Tidy(r) # None => Tidy(r).phase = r.phase
  BY <1>1, <1>9, <1>10, <1>11, TidyServes
<1> QED
  BY <1>4, <1>9, <1>12

(* The process dies.                                                       *)
LEMMA CrashKeeps ==
  ASSUME SInv, Crash
  PROVE  SInv'
<1> DEFINE cs == [c \in Conns |->
       IF conn[c] = None \/ conn[c].phase = "closed" THEN conn[c]
       ELSE Tidy(Shut([conn[c] EXCEPT !.wire = <<>>], 1006))]
<1>1. /\ up /\ faults < MaxFaults /\ conn' = cs /\ up' = FALSE /\ faults' = faults + 1
      /\ log' = log /\ view' = view /\ boot' = boot /\ gestures' = gestures
  BY DEF Crash
<1>2. /\ conn \in [Conns -> Connection \cup {None}]
      /\ \A d \in Conns : conn[d] # None =>
           Carries(conn[d], log) /\ conn[d] \in Connection /\ (~up => conn[d].phase = "closed")
      /\ Viewed(view, conn, log) /\ Len(log) \in Nat /\ Extends(log, log)
  BY Connections
<1>3. ASSUME NEW c \in Conns
      PROVE  /\ cs[c] \in Connection \cup {None}
             /\ Served(conn[c], cs[c], log) /\ (conn[c] = None => cs[c] = None)
             /\ cs[c] # None => cs[c].phase = "closed"
  <2>1. CASE conn[c] = None \/ conn[c].phase = "closed"
    <3>1. cs[c] = conn[c]
      BY <2>1
    <3>2. Served(conn[c], conn[c], log)
      BY <1>2, Same
    <3> HIDE DEF cs
    <3> QED
      BY <1>2, <2>1, <3>1, <3>2
  <2>2. CASE conn[c] # None /\ conn[c].phase # "closed"
    <3>1. cs[c] = Tidy(Shut([conn[c] EXCEPT !.wire = <<>>], 1006))
      BY <2>2
    <3> DEFINE k == conn[c]
    <3>2. cs[c] = Tidy(Shut([k EXCEPT !.wire = <<>>], 1006)) /\ Carries(k, log) /\ k # None
          /\ k.phase # "closed"
      BY <1>2, <2>2, <3>1
    <3> HIDE DEF cs, k
    <3>3. /\ Served(k, cs[c], log) /\ cs[c] \in Connection \cup {None}
          /\ cs[c] # None => cs[c].phase = "closed"
      BY <1>2, <3>2, CrashServes
    <3> QED
      BY <2>2, <3>3 DEF k
  <2> HIDE DEF cs
  <2> QED
    BY <2>1, <2>2
<1>4. cs = [c \in Conns |-> cs[c]]
  OBVIOUS
<1> HIDE DEF cs
<1>5. cs \in [Conns -> Connection \cup {None}]
  BY <1>3, <1>4
<1>6. Wired(cs, log, FALSE) /\ Viewed(view, cs, log)
  BY <1>2, <1>3, <1>5, ServerServes
<1>7. OpenIn(cs, Subscribers)
  BY <1>3 DEF OpenIn
<1>8. Cardinality(Subscribers') <= Limit
  BY <1>1, <1>7, FewSubscribers DEF SInv, ServerOK
<1>9. ServerOK'
  <2>1. boot \in Nat /\ boot <= faults /\ faults \in 0..MaxFaults
    BY <1>1, Bounds DEF SInv, ServerOK
  <2>2. gestures \in 0..MaxGestures
    BY DEF SInv, ServerOK
  <2>3. faults' \in 0..MaxFaults /\ boot' \in Nat /\ up' \in BOOLEAN /\ gestures' \in 0..MaxGestures
    <3>1. faults' \in 0..MaxFaults
      BY <1>1, <2>1, Bounds
    <3>2. boot' \in Nat /\ up' \in BOOLEAN /\ gestures' \in 0..MaxGestures
      BY <1>1, <2>1, <2>2
    <3> QED
      BY <3>1, <3>2
  <2>4. boot + 1 <= faults + 1
    BY <2>1, Bounds
  <2>5. boot' + (IF up' THEN 0 ELSE 1) <= faults'
    BY <1>1, <2>4
  <2> QED
    BY <1>8, <2>3, <2>5 DEF ServerOK
<1> QED
  BY <1>1, <1>6, <1>9 DEF SInv

(* The socket is open, and the page is told.                               *)
Upgraded(k) == [k EXCEPT !.phase = "open", !.wire = <<OpenFrame>>]

(* An accepted connection has its handshake on the wire.                   *)
LEMMA UpgradeKeeps ==
  ASSUME LogOK(log), NEW k0, Carries(k0, log), k0.phase = "opening", NEW k, k = Upgraded(k0)
  PROVE  /\ k \in Connection /\ k.viewer = k0.viewer /\ k.phase = "open"
         /\ k.delivered \in 0..Len(log) /\ k.delivered = k0.delivered
         /\ Framed(k, log) /\ Carries(k, SubSeq(log, 1, k.delivered)) /\ GoesOn(k0, k)
<1>1. k0 \in Connection /\ k0.delivered <= Len(log) /\ k0.wire = <<>>
  BY DEF Carries
<1>2. OpenFrame \in Frame /\ OpenFrame.kind = "open"
  BY Frames
<1>3. <<OpenFrame>> \in Seq(Frame) /\ Len(<<OpenFrame>>) = 1
  BY <1>2
<1>4. k \in Connection
  BY <1>1, <1>3 DEF Connection, Upgraded
<1>5. /\ k.viewer = k0.viewer /\ k.phase = "open" /\ k.delivered = k0.delivered
      /\ k.wire = <<OpenFrame>>
  BY <1>1 DEF Connection, Upgraded
<1>6. Len(k.wire) = 1 /\ k.wire[1] = OpenFrame
  BY <1>3, <1>5
<1>7. \A i \in 1..Len(k.wire) : i = 1 /\ k.wire[i].kind = "open"
  BY <1>2, <1>6
<1>8. \A l : Framed(k, l)
  BY <1>7 DEF Framed
<1>9. k0.delivered \in Nat /\ Len(log) \in Nat
  BY <1>1 DEF Connection, LogOK
<1>10. k.delivered \in 0..Len(log)
  BY <1>1, <1>5, <1>9
<1>11. Carries(k, SubSeq(log, 1, k.delivered))
  <2> DEFINE d == k.delivered
             l == SubSeq(log, 1, d)
  <2>1. Part(l, log, 0, d)
    BY <1>10, LogIs, PrefixIs
  <2> HIDE DEF l
  <2>2. Len(l) = d
    BY <1>10, <2>1 DEF Part
  <2>3. Framed(k, l)
    BY <1>8
  <2>4. d \in Nat /\ d <= d
    BY <1>10
  <2>5. Carries(k, l)
    BY <1>4, <1>5, <2>2, <2>3, <2>4 DEF Carries
  <2> QED
    BY <2>5 DEF l
<1>12. GoesOn(k0, k)
  <2>1. SUFFICES ASSUME NEW have \in Nat, Continues(k0, have) PROVE Continues(k, have)
    BY DEF GoesOn
  <2>2. Skipped(k0.wire) = 0 /\ Len(k0.wire) = 0
    BY <1>1 DEF Skipped
  <2>3. Skipped(k.wire) = 1
    BY <1>2, <1>5, <1>6 DEF Skipped
  <2>4. k0.delivered = have + 0 - 0
    BY <2>1, <2>2 DEF Continues
  <2>5. k.delivered = have + 1 - 1
    BY <1>5, <2>4
  <2> QED
    BY <1>6, <1>7, <2>3, <2>5 DEF Continues
<1> QED
  BY <1>4, <1>5, <1>8, <1>10, <1>11, <1>12

(* A connection is accepted and replayed to, or refused at the limit.      *)
LEMMA AcceptKeeps ==
  ASSUME SInv, NEW c \in Conns, Accept(c)
  PROVE  SInv'
<1> DEFINE k0 == conn[c]
           k == Upgraded(k0)
           d == k.delivered
           stored == SubSeq(log, d + 1, Len(log))
           refused == Shut(k, 4503)
<1>1. /\ up /\ k0 # None /\ k0.phase = "opening" /\ log' = log /\ view' = view /\ up' = up
      /\ boot' = boot /\ gestures' = gestures
  BY DEF Accept
<1>2. /\ Carries(k0, log) /\ conn \in [Conns -> Connection \cup {None}] /\ Len(log) \in Nat
      /\ LogOK(log)
  BY <1>1, Connections DEF SInv
<1>3. /\ k \in Connection /\ k.viewer = k0.viewer /\ k.phase = "open"
      /\ d \in 0..Len(log) /\ d = k0.delivered
      /\ Framed(k, log) /\ Carries(k, SubSeq(log, 1, d)) /\ GoesOn(k0, k)
  BY <1>1, <1>2, UpgradeKeeps
<1>4. faults \in 0..MaxFaults /\ Cardinality(Subscribers) <= Limit /\ boot \in Nat
      /\ boot <= faults /\ gestures \in 0..MaxGestures
  BY <1>1, Bounds DEF SInv, ServerOK
<1>5. ASSUME NEW s, Carries(s, log), s.viewer = k.viewer, GoesOn(k, s), NEW cs,
             cs = [conn EXCEPT ![c] = Tidy(s)], conn' = cs,
             s.phase # "open" \/ Cardinality(Subscribers) < Limit,
             faults' \in {faults, faults + 1}, faults' <= MaxFaults
      PROVE  SInv'
  <2>1. GoesOn(k0, s) /\ s.viewer = k0.viewer
    BY <1>3, <1>5, GoesOnOn
  <2> HIDE DEF k0, k
  <2>2. /\ Served(k0, Tidy(s), log) /\ Tidy(s) \in Connection \cup {None}
        /\ Tidy(s) # None => Tidy(s).phase = s.phase
    BY <1>1, <1>5, <2>1, TidyServes
  <2>3. Wired(cs, log, up) /\ Viewed(view, cs, log) /\ OnlyAt(c, Tidy(s), cs)
    BY <1>1, <1>5, <2>2, OneIsServed DEF k0
  <2>4. Cardinality(Subscribers') <= Limit
    <3>1. CASE s.phase # "open"
      <4>1. OpenIn(cs, Subscribers)
        BY <2>2, <2>3, <3>1 DEF OpenIn, Subscribers, OnlyAt
      <4> QED
        BY <1>4, <1>5, <4>1, FewSubscribers
    <3>2. CASE Cardinality(Subscribers) < Limit
      <4>1. OpenIn(cs, Subscribers \cup {c})
        BY <2>3 DEF OpenIn, Subscribers, OnlyAt
      <4> QED
        BY <1>5, <3>2, <4>1, OneMoreSubscriber
    <3> QED
      BY <1>5, <3>1, <3>2
  <2>5. ServerOK'
    <3>1. faults' \in 0..MaxFaults /\ boot <= faults'
      BY <1>4, <1>5, Bounds
    <3>2. boot' + (IF up' THEN 0 ELSE 1) <= faults'
      BY <1>1, <1>4, <3>1
    <3>3. boot' \in Nat /\ gestures' \in 0..MaxGestures /\ up' \in BOOLEAN
      BY <1>1, <1>4
    <3> QED
      BY <2>4, <3>1, <3>2, <3>3 DEF ServerOK
  <2> QED
    BY <1>1, <1>2, <1>5, <2>3, <2>5 DEF SInv
<1>6. \/ /\ conn' = [conn EXCEPT ![c] = Tidy(refused)] /\ faults' = faults
      \/ /\ Cardinality(Subscribers) < Limit
         /\ \E fullAt :
              /\ conn' = [conn EXCEPT ![c] = Tidy(Replayed(k, stored, fullAt))]
              /\ faults' = faults \/ (faults < MaxFaults /\ faults' = faults + 1)
  <2>1. Cardinality(Subscribers) \in Nat
    <3>1. IsFiniteSet(Subscribers)
      BY Bounds, FS_Subset DEF Subscribers
    <3> QED
      BY <3>1, FS_CardinalityType
  <2>2. ~(Cardinality(Subscribers) >= Limit) => Cardinality(Subscribers) < Limit
    BY <2>1, Bounds
  <2>3. CASE Cardinality(Subscribers) >= Limit
    BY <2>3 DEF Accept, Upgraded
  <2>4. CASE ~(Cardinality(Subscribers) >= Limit)
    BY <2>2, <2>4 DEF Accept, Upgraded, StoredAfter
  <2> QED
    BY <2>3, <2>4
<1>7. CASE conn' = [conn EXCEPT ![c] = Tidy(refused)] /\ faults' = faults
  <2>1. 4503 \in CloseCode /\ d <= Len(log) /\ k.phase # "closed"
    BY <1>2, <1>3 DEF CloseCode
  <2>2. Carries(refused, log) /\ refused.viewer = k.viewer /\ refused.phase = "closed"
        /\ GoesOn(k, refused)
    BY <1>3, <2>1, ShutKeeps
  <2>3. faults' <= MaxFaults
    BY <1>4, <1>7, Bounds
  <2> HIDE DEF refused, k, k0
  <2> QED
    BY <1>5, <1>7, <2>2, <2>3
<1>8. ASSUME Cardinality(Subscribers) < Limit, NEW fullAt,
             conn' = [conn EXCEPT ![c] = Tidy(Replayed(k, stored, fullAt))],
             faults' = faults \/ (faults < MaxFaults /\ faults' = faults + 1)
      PROVE  SInv'
  <2> DEFINE s == Replayed(k, stored, fullAt)
  <2>1. /\ Carries(s, log) /\ s.viewer = k.viewer /\ s.phase \in {"open", "closed"}
        /\ GoesOn(k, s)
    <3> HIDE DEF k
    <3> QED
      BY <1>2, <1>3, ReplayKeeps
  <2>2. faults' \in {faults, faults + 1} /\ faults' <= MaxFaults
    BY <1>4, <1>8, Bounds
  <2>3. conn' = [conn EXCEPT ![c] = Tidy(s)]
    BY <1>8
  <2> HIDE DEF s, k, k0, stored
  <2> QED
    BY <1>5, <1>8, <2>1, <2>2, <2>3
<1> QED
  BY <1>6, <1>7, <1>8

(* The log with one more event.                                            *)
LEMMA LogGrows ==
  ASSUME LogOK(log), NEW e, e \in Event, e.at = Len(log) + 1, Len(log) < MaxEvents,
         ~e.terminal => Len(log) < MaxEvents - 1,
         (log # <<>> /\ e.run # log[Len(log)].run) => \E i \in 1..Len(log) : log[i].terminal,
         NEW l, l = Append(log, e)
  PROVE  LogOK(l) /\ Len(l) = Len(log) + 1 /\ l[Len(l)] = e /\ Extends(log, l) /\ Len(l) \in Nat
<1> DEFINE n == Len(log)
<1>1. log \in Seq(Event) /\ n \in Nat /\ \A i \in 1..n : log[i].at = i
  BY DEF LogOK
<1>2. l \in Seq(Event) /\ Len(l) = n + 1 /\ l[n + 1] = e /\ \A i \in 1..n : l[i] = log[i]
  <2>1. /\ Append(log, e) \in Seq(Event) /\ Append(log, e) # <<>>
        /\ Len(Append(log, e)) = Len(log) + 1 /\ Len(log) \in Nat
        /\ Append(log, e)[Len(log) + 1] = e
        /\ \A i \in 1..Len(log) : Append(log, e)[i] = log[i]
    BY <1>1, Appending
  <2> QED
    BY <2>1
<1>3. l # <<>>
  BY <1>1, <1>2
<1>4. \A i \in 1..n : log[i].at = i
  BY <1>1
<1>5. log # <<>> => n \in 1..n /\ 1 \in 1..n
  BY <1>1
<1>6. (\A i \in 1..(n - 1) : ~log[i].terminal) => \A i \in 1..n : log[i].run = log[1].run
  BY DEF LogOK
<1>7. (log # <<>> /\ e.run # log[n].run) => \E i \in 1..n : log[i].terminal
  OBVIOUS
<1>8. n < MaxEvents /\ (~e.terminal => n < MaxEvents - 1) /\ e.at = n + 1
  OBVIOUS
<1>9. log = <<>> => n = 0
  OBVIOUS
<1> HIDE DEF n
<1>10. \A i \in 1..(n + 1) : i \in 1..n \/ i = n + 1
  BY <1>1
<1>11. \A i \in 1..(n + 1) : l[i].at = i
  BY <1>2, <1>4, <1>8, <1>10
<1>12. n + 1 <= MaxEvents /\ (~e.terminal => n + 1 < MaxEvents)
  BY <1>1, <1>8, Bounds
<1>13. ASSUME \A i \in 1..n : ~l[i].terminal, NEW i \in 1..(n + 1)
       PROVE  l[i].run = l[1].run
  <2>1. CASE log = <<>>
    <3>1. i = 1
      BY <1>9, <2>1
    <3> QED
      BY <3>1
  <2>2. CASE log # <<>>
    <3>1. \A j \in 1..n : ~log[j].terminal
      BY <1>2, <1>13
    <3>2. e.run = log[n].run
      BY <1>7, <2>2, <3>1
    <3>3. \A j \in 1..(n - 1) : j \in 1..n
      BY <1>1
    <3>4. \A j \in 1..n : log[j].run = log[1].run
      BY <1>6, <3>1, <3>3
    <3>5. l[1] = log[1] /\ log[n].run = log[1].run
      BY <1>2, <1>5, <2>2, <3>4
    <3>6. CASE i = n + 1
      BY <1>2, <3>2, <3>5, <3>6
    <3>7. CASE i \in 1..n
      BY <1>2, <3>4, <3>5, <3>7
    <3> QED
      BY <1>10, <3>6, <3>7
  <2> QED
    BY <2>1, <2>2
<1>14. (n + 1) - 1 = n
  BY <1>1
<1>15. LogOK(l)
  <2>1. l \in Seq(Event) /\ Len(l) <= MaxEvents
    BY <1>2, <1>12
  <2>2. \A i \in 1..Len(l) : l[i].at = i
    BY <1>2, <1>11
  <2>3. (l = <<>> \/ ~l[Len(l)].terminal) => Len(l) < MaxEvents
    BY <1>2, <1>3, <1>12
  <2>4. (\A i \in 1..(Len(l) - 1) : ~l[i].terminal) => \A i \in 1..Len(l) : l[i].run = l[1].run
    BY <1>2, <1>13, <1>14
  <2> QED
    BY <2>1, <2>2, <2>3, <2>4 DEF LogOK
<1>16. Extends(log, l)
  <2>1. n <= n + 1
    BY <1>1
  <2> QED
    BY <1>2, <2>1 DEF Extends, n
<1>17. n + 1 \in Nat
  BY <1>1
<1> QED
  BY <1>2, <1>15, <1>16, <1>17 DEF n

(* The run of the last event, or the first one.                            *)
LEMMA RunNowIs ==
  ASSUME LogOK(log)
  PROVE  /\ RunNow \in 1..MaxRuns
         /\ log # <<>> => RunNow = log[Len(log)].run /\ log[Len(log)] \in Event
                          /\ Len(log) \in 1..Len(log)
         /\ Closed <=> (log # <<>> /\ log[Len(log)].terminal)
<1>1. log \in Seq(Event) /\ Len(log) \in Nat
  BY DEF LogOK
<1>2. CASE log = <<>>
  BY <1>2, Bounds DEF RunNow, Closed
<1>3. CASE log # <<>>
  <2>1. Last(log) = log[Len(log)] /\ Len(log) \in 1..Len(log)
    BY <1>1, <1>3 DEF Last
  <2>2. log[Len(log)] \in Event
    BY <1>1, <2>1
  <2> QED
    BY <1>3, <2>1, <2>2 DEF RunNow, Closed, Event
<1> QED
  BY <1>2, <1>3

(* The events that the agent may emit.                                     *)
LEMMA EventFields ==
  ASSUME LogOK(log), boot \in 0..MaxFaults, NEW e, e \in Events, Closed => RunNow < MaxRuns,
         Len(log) < IF e.terminal THEN MaxEvents ELSE MaxEvents - 1
  PROVE  /\ e \in Event /\ e.at = Len(log) + 1 /\ Len(log) < MaxEvents
         /\ ~e.terminal => Len(log) < MaxEvents - 1
         /\ (log # <<>> /\ e.run # log[Len(log)].run) => \E i \in 1..Len(log) : log[i].terminal
<1>1. /\ RunNow \in 1..MaxRuns
      /\ log # <<>> => RunNow = log[Len(log)].run /\ log[Len(log)] \in Event
                       /\ Len(log) \in 1..Len(log)
      /\ Closed <=> (log # <<>> /\ log[Len(log)].terminal)
  BY RunNowIs
<1>2. /\ e.at = Len(log) + 1 /\ e.boot = boot /\ e.terminal \in BOOLEAN
      /\ e.run = IF Closed THEN RunNow + 1 ELSE RunNow
      /\ e = [at |-> e.at, run |-> e.run, boot |-> e.boot, terminal |-> e.terminal]
  <2>1. CASE Closed
    BY <2>1 DEF Events
  <2>2. CASE ~Closed
    BY <2>2 DEF Events
  <2> QED
    BY <2>1, <2>2
<1>3. Len(log) \in Nat
  BY DEF LogOK
<1>4. Len(log) < MaxEvents /\ (~e.terminal => Len(log) < MaxEvents - 1)
  <2>1. CASE e.terminal
    BY <2>1
  <2>2. CASE ~e.terminal
    <3>1. Len(log) < MaxEvents - 1
      BY <2>2
    <3> QED
      BY <1>3, <3>1, Bounds
  <2> QED
    BY <2>1, <2>2
<1>5. e.at \in 1..MaxEvents
  BY <1>2, <1>3, <1>4, Bounds
<1>6. e.run \in 1..MaxRuns
  <2>1. CASE Closed
    BY <1>1, <1>2, <2>1, Bounds
  <2>2. CASE ~Closed
    BY <1>1, <1>2, <2>2
  <2> QED
    BY <2>1, <2>2
<1>7. e \in Event
  BY <1>2, <1>5, <1>6 DEF Event
<1>8. (log # <<>> /\ e.run # log[Len(log)].run) => \E i \in 1..Len(log) : log[i].terminal
  <2>1. SUFFICES ASSUME log # <<>>, e.run # log[Len(log)].run
                 PROVE  \E i \in 1..Len(log) : log[i].terminal
    OBVIOUS
  <2>2. Closed
    BY <1>1, <1>2, <2>1
  <2> QED
    BY <1>1, <2>1, <2>2
<1> QED
  BY <1>2, <1>4, <1>7, <1>8

(* An event is stored, and then published.                                 *)
LEMMA EmitKeeps ==
  ASSUME SInv, Emit
  PROVE  SInv'
<1>1. PICK e \in Events, full \in {{}} \cup {{c} : c \in {d \in Subscribers : MayBeFull(conn[d])}} :
        /\ Len(log) < IF e.terminal THEN MaxEvents ELSE MaxEvents - 1
        /\ full # {} => faults < MaxFaults
        /\ faults' = faults + Cardinality(full)
        /\ Record(e, full)
  BY DEF Emit
<1>2. /\ up /\ (Closed => RunNow < MaxRuns) /\ log' = Append(log, e) /\ conn' = Published(e, full)
      /\ view' = view /\ up' = up /\ boot' = boot /\ gestures' = gestures
  BY <1>1 DEF Emit, Record
<1>3. /\ LogOK(log) /\ Len(log) \in Nat /\ faults \in 0..MaxFaults /\ boot \in Nat /\ boot <= faults
      /\ Cardinality(Subscribers) <= Limit /\ gestures \in 0..MaxGestures
  <2>1. boot + 0 <= faults /\ boot \in Nat /\ faults \in 0..MaxFaults
    BY <1>2 DEF SInv, ServerOK
  <2> QED
    BY <2>1, Connections, Bounds DEF SInv, ServerOK
<1>4. boot \in 0..MaxFaults
  BY <1>3, Bounds
<1>5. /\ e \in Event /\ e.at = Len(log) + 1 /\ Len(log) < MaxEvents
      /\ ~e.terminal => Len(log) < MaxEvents - 1
      /\ (log # <<>> /\ e.run # log[Len(log)].run) => \E i \in 1..Len(log) : log[i].terminal
  BY <1>1, <1>2, <1>3, <1>4, EventFields
<1> DEFINE m == Append(log, e)
           cs == Published(e, full)
<1>6. LogOK(m) /\ Len(m) = Len(log) + 1 /\ m[Len(m)] = e /\ Extends(log, m) /\ Len(m) \in Nat
  BY <1>3, <1>5, LogGrows
<1> HIDE DEF m
<1>7. /\ conn \in [Conns -> Connection \cup {None}]
      /\ \A d \in Conns : conn[d] # None =>
           Carries(conn[d], log) /\ conn[d] \in Connection /\ (~up => conn[d].phase = "closed")
      /\ Viewed(view, conn, log)
  BY Connections
<1>8. ASSUME NEW c \in Conns
      PROVE  /\ cs[c] \in Connection \cup {None}
             /\ Served(conn[c], cs[c], m) /\ (conn[c] = None => cs[c] = None)
             /\ (cs[c] # None /\ cs[c].phase = "open") => c \in Subscribers
  <2>1. CASE conn[c] = None
    <3>1. cs[c] = None
      BY <2>1 DEF Published
    <3> HIDE DEF cs
    <3> QED
      BY <2>1, <3>1 DEF Served
  <2>2. CASE conn[c] # None
    <3> DEFINE k == conn[c]
               fullNow == c \in full
               s == Sent(k, e, fullNow)
    <3>1. cs[c] = Tidy(s)
      BY <2>2 DEF Published
    <3>2. Carries(k, log) /\ k # None
      BY <1>7, <2>2
    <3>3. e.at = Len(m)
      BY <1>5, <1>6
    <3> HIDE DEF cs, fullNow
    <3>4. SentFrom(k, s, m)
      BY <1>3, <1>5, <1>6, <3>2, <3>3, SentKeeps
    <3> HIDE DEF s, k
    <3>5. /\ Served(k, Tidy(s), m) /\ Tidy(s) \in Connection \cup {None}
          /\ Tidy(s) # None => Tidy(s).phase = s.phase
      BY <3>2, <3>4, TidyServes DEF SentFrom
    <3>6. (cs[c] # None /\ cs[c].phase = "open") => k.phase = "open"
      BY <3>1, <3>4, <3>5 DEF SentFrom
    <3>7. k.phase = "open" => c \in Subscribers
      BY <2>2 DEF Subscribers, k
    <3> QED
      BY <2>2, <3>1, <3>5, <3>6, <3>7 DEF k
  <2> HIDE DEF cs
  <2> QED
    BY <2>1, <2>2
<1>9. cs = [c \in Conns |-> cs[c]]
  BY DEF Published
<1> HIDE DEF cs
<1>10. cs \in [Conns -> Connection \cup {None}]
  BY <1>8, <1>9
<1>11. Wired(cs, m, up) /\ Viewed(view, cs, m)
  <2>1. \A c \in Conns : Served(conn[c], cs[c], m)
    BY <1>8
  <2>2. \A c \in Conns : conn[c] = None => cs[c] = None
    BY <1>8
  <2>3. \A c \in Conns : (cs[c] # None /\ ~up) => cs[c].phase = "closed"
    BY <1>2
  <2> QED
    BY <1>3, <1>6, <1>7, <1>10, <2>1, <2>2, <2>3, ServerServes
<1>12. OpenIn(cs, Subscribers)
  BY <1>8 DEF OpenIn
<1>13. Cardinality(Subscribers') <= Limit
  BY <1>2, <1>3, <1>12, FewSubscribers DEF cs
<1>14. faults' \in 0..MaxFaults /\ boot <= faults'
  <2>1. CASE full = {}
    <3>1. Cardinality(full) = 0
      BY <2>1, FS_EmptySet
    <3> QED
      BY <1>1, <1>3, <3>1, Bounds
  <2>2. CASE full # {}
    <3>1. PICK c : full = {c}
      BY <1>1, <2>2
    <3>2. Cardinality(full) = 1
      BY <3>1, FS_Singleton
    <3> QED
      BY <1>1, <1>3, <2>2, <3>2, Bounds
  <2> QED
    BY <2>1, <2>2
<1>15. ServerOK'
  <2>1. boot' + (IF up' THEN 0 ELSE 1) <= faults'
    BY <1>2, <1>3, <1>14
  <2>2. boot' \in Nat /\ gestures' \in 0..MaxGestures /\ up' \in BOOLEAN
    BY <1>2, <1>3
  <2> QED
    BY <1>13, <1>14, <2>1, <2>2 DEF ServerOK
<1>16. log' = m /\ conn' = cs /\ view' = view /\ up' = up
  BY <1>2 DEF m, cs
<1> QED
  BY <1>6, <1>11, <1>15, <1>16 DEF SInv

(* The process starts again and ends the interrupted run.                  *)
LEMMA RestartKeeps ==
  ASSUME SInv, Restart
  PROVE  SInv'
<1> DEFINE m == IF log = <<>> \/ Closed THEN log ELSE Append(log, RecoveryEvent)
<1>1. /\ ~up /\ up' = TRUE /\ boot' = boot + 1 /\ log' = m
      /\ conn' = conn /\ view' = view /\ faults' = faults /\ gestures' = gestures
  BY DEF Restart
<1>2. /\ LogOK(log) /\ Len(log) \in Nat /\ faults \in 0..MaxFaults /\ boot \in Nat
      /\ boot + 1 <= faults /\ Cardinality(Subscribers) <= Limit /\ gestures \in 0..MaxGestures
  BY <1>1, Connections DEF SInv, ServerOK
<1>3. LogOK(m) /\ Extends(log, m) /\ Len(m) \in Nat
  <2>1. CASE log = <<>> \/ Closed
    <3>1. m = log
      BY <2>1
    <3> HIDE DEF m
    <3> QED
      BY <1>2, <3>1, Longest
  <2>2. CASE ~(log = <<>> \/ Closed)
    <3> DEFINE e == RecoveryEvent
    <3>1. /\ RunNow \in 1..MaxRuns
          /\ log # <<>> => RunNow = log[Len(log)].run /\ log[Len(log)] \in Event
                           /\ Len(log) \in 1..Len(log)
          /\ Closed <=> (log # <<>> /\ log[Len(log)].terminal)
      BY <1>2, RunNowIs
    <3>2. /\ e.at = Len(log) + 1 /\ e.run = RunNow /\ e.boot = boot + 1 /\ e.terminal = TRUE
          /\ e = [at |-> e.at, run |-> e.run, boot |-> e.boot, terminal |-> e.terminal]
      BY DEF RecoveryEvent
    <3> HIDE DEF e
    <3>3. Len(log) < MaxEvents
      BY <1>2, <2>2, <3>1 DEF LogOK
    <3>4. e.at \in 1..MaxEvents /\ e.boot \in 0..MaxFaults
      BY <1>2, <3>2, <3>3, Bounds
    <3>5. e \in Event
      BY <3>1, <3>2, <3>4 DEF Event
    <3>6. e.at = Len(log) + 1 /\ e.terminal /\ (log # <<>> => e.run = log[Len(log)].run)
      BY <3>1, <3>2
    <3>7. m = Append(log, e)
      BY <2>2 DEF e
    <3> HIDE DEF m
    <3> QED
      BY <1>2, <3>3, <3>5, <3>6, <3>7, LogGrows
  <2> QED
    BY <2>1, <2>2
<1> HIDE DEF m
<1>4. /\ conn \in [Conns -> Connection \cup {None}]
      /\ \A d \in Conns : conn[d] # None =>
           Carries(conn[d], log) /\ conn[d] \in Connection /\ (~up => conn[d].phase = "closed")
      /\ Viewed(view, conn, log)
  BY Connections
<1>5. ASSUME NEW c \in Conns
      PROVE  Served(conn[c], conn[c], m) /\ (conn[c] # None => conn[c].phase = "closed")
  <2>1. CASE conn[c] = None
    BY <2>1 DEF Served
  <2>2. CASE conn[c] # None
    <3>1. Carries(conn[c], log) /\ conn[c].phase = "closed"
      BY <1>1, <1>4, <2>2
    <3>2. conn[c].phase # "open"
      BY <3>1
    <3>3. Carries(conn[c], m)
      BY <1>2, <1>3, <3>1, <3>2, CarriesOn
    <3>4. Served(conn[c], conn[c], m)
      BY <3>3, Same
    <3> QED
      BY <3>1, <3>4
  <2> QED
    BY <2>1, <2>2
<1>6. Wired(conn, m, TRUE) /\ Viewed(view, conn, m)
  <2>1. \A c \in Conns : Served(conn[c], conn[c], m)
    BY <1>5
  <2>2. \A c \in Conns : (conn[c] # None /\ ~TRUE) => conn[c].phase = "closed"
    OBVIOUS
  <2>3. \A c \in Conns : conn[c] = None => conn[c] = None
    OBVIOUS
  <2> QED
    BY <1>2, <1>3, <1>4, <2>1, <2>2, <2>3, ServerServes
<1>7. OpenIn(conn', Subscribers)
  BY <1>1 DEF OpenIn, Subscribers
<1>8. Cardinality(Subscribers') <= Limit
  BY <1>2, <1>7, FewSubscribers
<1>9. ServerOK'
  <2>1. faults' \in 0..MaxFaults /\ gestures' \in 0..MaxGestures /\ up' \in BOOLEAN
    BY <1>1, <1>2
  <2>2. boot' \in Nat /\ boot' <= faults'
    BY <1>1, <1>2
  <2>3. boot' + (IF up' THEN 0 ELSE 1) <= faults'
    BY <1>1, <2>2
  <2> QED
    BY <1>8, <2>1, <2>2, <2>3 DEF ServerOK
<1> QED
  BY <1>1, <1>3, <1>6, <1>9 DEF SInv

(* The invariant holds at the start.                                       *)
LEMMA InitKeeps ==
  ASSUME Init
  PROVE  SInv
<1>1. /\ log = <<>> /\ conn = [c \in Conns |-> None] /\ view = [v \in Viewers |-> Idle]
      /\ up = TRUE /\ boot = 0 /\ faults = 0 /\ gestures = 0
  BY DEF Init
<1>2. LogOK(log)
  <2>1. <<>> \in Seq(Event) /\ Len(<<>>) = 0
    OBVIOUS
  <2> QED
    BY <1>1, <2>1, Bounds DEF LogOK
<1>3. ServerOK
  <2>1. Subscribers = {}
    BY <1>1 DEF Subscribers
  <2>2. Cardinality(Subscribers) <= Limit
    BY <2>1, FS_EmptySet, Bounds
  <2>3. 0 \in 0..MaxFaults /\ 0 \in 0..MaxGestures
    BY Bounds
  <2> QED
    BY <1>1, <2>2, <2>3 DEF ServerOK
<1>4. Wired(conn, log, up)
  BY <1>1 DEF Wired
<1>5. Viewed(view, conn, log)
  <2>1. Len(log) \in Nat
    BY <1>1
  <2>2. Shows(Idle, log) /\ Idle.socket = None
    BY <2>1, IdleShows
  <2>3. Idle \in View
    BY <2>2 DEF Shows
  <2>4. \A v \in Viewers : Linked(v, Idle, conn)
    BY <2>2 DEF Linked
  <2>5. view \in [Viewers -> View] /\ \A v \in Viewers : view[v] = Idle
    BY <1>1, <2>3
  <2> QED
    BY <2>2, <2>4, <2>5 DEF Viewed
<1> QED
  BY <1>2, <1>3, <1>4, <1>5 DEF SInv

(* The invariant holds when nothing happens.                               *)
LEMMA StutterKeeps ==
  ASSUME SInv, UNCHANGED vars
  PROVE  SInv'
<1>1. log' = log /\ conn' = conn /\ view' = view /\ up' = up /\ boot' = boot
      /\ faults' = faults /\ gestures' = gestures
  BY DEF vars
<1>2. Subscribers' = Subscribers
  BY <1>1 DEF Subscribers
<1>3. ServerOK'
  BY <1>1, <1>2 DEF SInv, ServerOK
<1> QED
  BY <1>1, <1>3 DEF SInv

(* Every step keeps the inductive invariant.                               *)
LEMMA StepKeeps ==
  ASSUME SInv, [Next]_vars
  PROVE  SInv'
<1>1. CASE Emit
  BY <1>1, EmitKeeps
<1>2. CASE Restart
  BY <1>2, RestartKeeps
<1>3. CASE Crash
  BY <1>3, CrashKeeps
<1>4. ASSUME NEW c \in Conns, Accept(c) \/ Notice(c)
      PROVE  SInv'
  BY <1>4, AcceptKeeps, NoticeKeeps
<1>5. ASSUME NEW v \in Viewers,
             Receive(v) \/ Timer(v) \/ Watch(v) \/ Leave(v) \/ Reconnect(v) \/ Lose(v)
      PROVE  SInv'
  BY <1>5, ReceiveKeeps, TimerKeeps, WatchKeeps, LeaveKeeps, ReconnectKeeps, LoseKeeps
<1>6. CASE UNCHANGED vars
  BY <1>6, StutterKeeps
<1> QED
  BY <1>1, <1>2, <1>3, <1>4, <1>5, <1>6
     DEF Next, ServerTurn, HookTurn, Gesture, Fault

-----------------------------------------------------------------------------
(* What the inductive invariant says of the frames on a wire.              *)

(* The events among the first frames of a wire, counted.                   *)
LEMMA EventsCounted ==
  ASSUME NEW l, NEW k, Carries(k, l), NEW i \in 0..Len(k.wire),
         i < Len(k.wire) \/ k.phase # "closed" \/ (i \in 1..Len(k.wire) /\ k.wire[i].kind = "event")
  PROVE  EventsUpTo(k.wire, i) = IF i = 0 THEN 0 ELSE i - Skipped(k.wire)
<1> DEFINE wire == k.wire
           S == {j \in 1..i : wire[j].kind = "event"}
           gone == Skipped(wire)
<1>1. k \in Connection /\ wire \in Seq(Frame) /\ Len(wire) \in Nat /\ Framed(k, l)
  BY DEF Carries, Connection
<1>2. gone \in {0, 1} /\ (gone = 1 <=> (wire # <<>> /\ wire[1].kind = "open"))
  BY DEF Skipped
<1>3. \A j \in 1..Len(wire) : wire[j] \in Frame /\ wire[j].kind \in {"open", "event", "close"}
  BY <1>1, Frames
<1>4. \A j \in 1..Len(wire) :
        /\ wire[j].kind = "open" => j = 1
        /\ wire[j].kind = "close" => j = Len(wire) /\ k.phase = "closed"
  BY <1>1 DEF Framed
<1>5. /\ i \in 0..Len(wire)
      /\ \/ i < Len(wire) \/ k.phase # "closed"
         \/ i \in 1..Len(wire) /\ wire[i].kind = "event"
  OBVIOUS
<1>6. S = (gone + 1)..i
  <2>1. ASSUME NEW j \in 1..i PROVE wire[j].kind = "event" <=> j \in (gone + 1)..i
    <3>1. j \in 1..Len(wire) /\ wire # <<>>
      BY <1>1, <1>5
    <3>2. wire[j].kind # "close"
      <4>1. CASE i < Len(wire)
        <5>1. j # Len(wire)
          BY <4>1, <1>1
        <5> QED
          BY <1>4, <3>1, <5>1
      <4>2. CASE k.phase # "closed"
        BY <1>4, <3>1, <4>2
      <4>3. CASE i \in 1..Len(wire) /\ wire[i].kind = "event"
        <5>1. CASE j = i
          BY <4>3, <5>1
        <5>2. CASE j # i
          <6>1. j # Len(wire)
            BY <1>1, <1>5, <5>2
          <6> QED
            BY <1>4, <3>1, <6>1
        <5> QED
          BY <5>1, <5>2
      <4> QED
        BY <1>5, <4>1, <4>2, <4>3
    <3>3. wire[j].kind = "event" <=> wire[j].kind # "open"
      BY <1>3, <3>1, <3>2
    <3>4. wire[j].kind = "open" <=> (j = 1 /\ gone = 1)
      BY <1>2, <1>4, <3>1
    <3>5. (j = 1 /\ gone = 1) <=> ~(j \in (gone + 1)..i)
      BY <1>2, <1>5
    <3> QED
      BY <3>3, <3>4, <3>5
  <2>2. \A j : j \in (gone + 1)..i => j \in 1..i
    BY <1>2
  <2> HIDE DEF wire, gone
  <2> QED
    BY <2>1, <2>2
<1> HIDE DEF S, gone
<1>7. Cardinality((gone + 1)..i) = IF gone + 1 > i THEN 0 ELSE i - (gone + 1) + 1
  <2>1. gone + 1 \in Int /\ i \in Int
    BY <1>2, <1>5
  <2> QED
    BY <2>1, FS_Interval
<1>8. EventsUpTo(wire, i) = Cardinality(S)
  BY DEF EventsUpTo, S
<1>9. i # 0 => i >= 1
  BY <1>5
<1> HIDE DEF wire
<1>10. Cardinality(S) = IF i = 0 THEN 0 ELSE i - gone
  <2>1. i \in Nat
    BY <1>1, <1>5
  <2> QED
    BY <1>2, <1>6, <1>7, <1>9, <2>1
<1> QED
  BY <1>8, <1>10 DEF wire, gone

(* The frames on the wire of a page that has one.                          *)
LEMMA WireIsContinued ==
  ASSUME SInv, NEW v \in Viewers, view[v].socket # None,
         NEW k, k = conn[view[v].socket], NEW have, have = Len(view[v].accepted)
  PROVE  /\ k.phase # "closed" => k.delivered = have + EventsUpTo(k.wire, Len(k.wire))
         /\ \A i \in DOMAIN k.wire :
              k.wire[i].kind = "event" => k.wire[i].event.at = have + EventsUpTo(k.wire, i)
<1>1. Carries(k, log) /\ Continues(k, have)
  BY OwnConnection
<1>2. k \in Connection /\ k.wire \in Seq(Frame) /\ Len(k.wire) \in Nat /\ have \in Nat
      /\ DOMAIN k.wire = 1..Len(k.wire)
  BY <1>1, Viewing DEF Carries, Connection
<1> DEFINE n == Len(k.wire)
           gone == Skipped(k.wire)
<1>3. gone \in {0, 1} /\ (n = 0 => gone = 0)
  BY <1>2 DEF Skipped
<1>4. ASSUME k.phase # "closed" PROVE k.delivered = have + EventsUpTo(k.wire, n)
  <2>1. n \in 0..n
    BY <1>2
  <2>2. EventsUpTo(k.wire, n) = IF n = 0 THEN 0 ELSE n - gone
    BY <1>1, <1>4, <2>1, EventsCounted
  <2>3. k.delivered = have + n - gone
    BY <1>1, <1>4 DEF Continues
  <2> HIDE DEF gone, n
  <2>4. EventsUpTo(k.wire, n) = n - gone
    BY <1>3, <2>2
  <2>5. n \in Nat
    BY <1>2 DEF n
  <2>6. have + (n - gone) = have + n - gone
    BY <1>2, <1>3, <2>5
  <2> QED
    BY <2>3, <2>4, <2>6
<1>5. ASSUME NEW i \in 1..n, k.wire[i].kind = "event"
      PROVE  k.wire[i].event.at = have + EventsUpTo(k.wire, i)
  <2>1. i \in 0..n /\ i # 0
    BY <1>2
  <2>2. EventsUpTo(k.wire, i) = IF i = 0 THEN 0 ELSE i - gone
    BY <1>1, <1>5, <2>1, EventsCounted
  <2>3. k.wire[i].event.at = have + i - gone
    BY <1>1, <1>5 DEF Continues
  <2> HIDE DEF gone, n
  <2>4. i \in Nat
    BY <2>1 DEF n
  <2>5. have + (i - gone) = have + i - gone
    BY <1>2, <1>3, <2>4
  <2> QED
    BY <2>1, <2>2, <2>3, <2>5
<1> QED
  BY <1>2, <1>4, <1>5

(* WireContinues, from the inductive invariant.                            *)
LEMMA WiresContinue ==
  ASSUME SInv
  PROVE  WireContinues
<1>1. SUFFICES ASSUME NEW v \in Viewers, view[v].socket # None
      PROVE  LET k == conn[view[v].socket]
                 have == Len(view[v].accepted)
             IN  /\ k.phase # "closed" => k.delivered = have + EventsUpTo(k.wire, Len(k.wire))
                 /\ \A i \in DOMAIN k.wire :
                      k.wire[i].kind = "event" => k.wire[i].event.at = have + EventsUpTo(k.wire, i)
  BY DEF WireContinues
<1> DEFINE k == conn[view[v].socket]
           have == Len(view[v].accepted)
<1>2. k = conn[view[v].socket] /\ have = Len(view[v].accepted)
  OBVIOUS
<1> HIDE DEF k, have
<1>3. /\ k.phase # "closed" => k.delivered = have + EventsUpTo(k.wire, Len(k.wire))
      /\ \A i \in DOMAIN k.wire :
           k.wire[i].kind = "event" => k.wire[i].event.at = have + EventsUpTo(k.wire, i)
  BY <1>1, <1>2, WireIsContinued
<1> QED
  BY <1>3 DEF k, have

(* PagesShowTheLog, from the inductive invariant.                          *)
LEMMA PagesShow ==
  ASSUME SInv
  PROVE  PagesShowTheLog
<1>1. SUFFICES ASSUME NEW v \in Viewers PROVE IsPrefix(view[v].accepted, log)
  BY DEF PagesShowTheLog
<1> DEFINE a == view[v].accepted
           n == Len(a)
<1>2. /\ Shows(view[v], log) /\ a \in Seq(Event) /\ log \in Seq(Event)
      /\ n \in Nat /\ Len(log) \in Nat
  BY Viewing DEF View, SInv, LogOK
<1>3. n <= Len(log) /\ \A i \in 1..n : a[i] = log[i]
  BY <1>2 DEF Shows
<1>4. a = SubSeq(log, 1, n)
  <2>1. n \in 0..Len(log)
    BY <1>2, <1>3
  <2>2. Part(SubSeq(log, 1, n), log, 0, n) /\ SubSeq(log, 1, n) \in Seq(Event)
    BY <1>2, <2>1, PrefixIs
  <2> DEFINE b == SubSeq(log, 1, n)
  <2> HIDE DEF b
  <2>3. Len(b) = n /\ b \in Seq(Event) /\ \A i \in 1..n : b[i] = log[i]
    BY <1>2, <2>2 DEF Part, b
  <2>4. Len(a) = Len(b) /\ \A i \in 1..Len(a) : a[i] = b[i]
    BY <1>3, <2>3
  <2>5. a = b
    BY <1>2, <2>3, <2>4, SeqEqual
  <2> QED
    BY <2>5 DEF b
<1> QED
  BY <1>2, <1>3, <1>4 DEF IsPrefix

(* SubscriberIsCurrent, from the inductive invariant.                      *)
LEMMA SubscribersCurrent ==
  ASSUME SInv
  PROVE  SubscriberIsCurrent
BY Connections DEF SubscriberIsCurrent, Subscribers, Carries

(* ErrorOnlyAfterRetry, from the inductive invariant.                      *)
LEMMA ErrorsExplained ==
  ASSUME SInv
  PROVE  ErrorOnlyAfterRetry
<1>1. \A v \in Viewers : view[v].state = "error" => \E i \in 1..(Len(log) - 1) : log[i].terminal
  BY DEF SInv, Viewed, Shows
<1> QED
  BY <1>1 DEF ErrorOnlyAfterRetry

(* TypeOK, from the inductive invariant.                                   *)
LEMMA WellFormed ==
  ASSUME SInv
  PROVE  TypeOK
<1>1. log \in Seq(Event) /\ Len(log) <= MaxEvents
  BY DEF SInv, LogOK
<1>2. conn \in [Conns -> Connection \cup {None}]
  BY DEF SInv, Wired
<1>3. view \in [Viewers -> View]
  BY DEF SInv, Viewed
<1>4. \A v \in Viewers : view[v].socket # None =>
        conn[view[v].socket] # None /\ conn[view[v].socket].viewer = v
  BY OwnConnection
<1>5. Cardinality(Subscribers) <= Limit /\ up \in BOOLEAN
      /\ faults \in 0..MaxFaults /\ gestures \in 0..MaxGestures
  BY DEF SInv, ServerOK
<1>6. boot \in 0..MaxFaults
  <2>1. boot \in Nat /\ boot + (IF up THEN 0 ELSE 1) <= faults
    BY DEF SInv, ServerOK
  <2>2. boot <= faults
    BY <1>5, <2>1, Bounds
  <2> QED
    BY <1>5, <2>1, <2>2, Bounds
<1> QED
  BY <1>1, <1>2, <1>3, <1>4, <1>5, <1>6 DEF TypeOK

(* StreamInv, from the store to the page.                                  *)
THEOREM PagesFollowTheLog == Spec => []StreamInv
<1>1. Init => SInv
  BY InitKeeps
<1>2. SInv /\ [Next]_vars => SInv'
  BY StepKeeps
<1>3. SInv => StreamInv
  BY WellFormed, PagesShow, SubscribersCurrent, WiresContinue, ErrorsExplained DEF StreamInv
<1> QED
  BY <1>1, <1>2, <1>3, PTL DEF Spec
=============================================================================
