------------------------- MODULE SpwStartUp_proofs -------------------------
(***************************************************************************)
(* The two devices of SpwLink connect only if they are started in step.    *)
(*                                                                         *)
(* Each device that the other leaves alone goes round the states of        *)
(* start-up, and has a clock that says where it is.  The difference of the *)
(* two clocks is that of their starts until a NULL finds a device in       *)
(* STARTED, which then starts its clock anew in CONNECTING; the new        *)
(* difference is a time at which the other sent a NULL, and LATENCY.  Both *)
(* are differences at which the devices do not meet in any cycle           *)
(* (FarApart), so that the one in CONNECTING finds no answer and both go   *)
(* round again.  But for one case: if a NULL of the other arrives at the   *)
(* instant at which it is to send its next, the link opens at one end.     *)
(***************************************************************************)
EXTENDS SpwLink_proofs

-----------------------------------------------------------------------------
(***************************************************************************)
(* What is on a calendar and, of the events of one device and one instant, *)
(* in which order.                                                         *)
(***************************************************************************)

\* Of what n does in t, an event a comes before an event b.
Precedes(c, a, b, n, t) ==
  \E i, j \in 1 .. Len(c) : /\ i < j /\ c[i].do = a /\ c[j].do = b
                            /\ c[i].dev = n /\ c[j].dev = n /\ c[i].in = t /\ c[j].in = t

\* r is c, h later, with some events gone.
Elapsed(c, r, h) ==
  /\ Calendar(r) /\ h \in Nat
  /\ \A do, n, t : Has(r, do, n, t) => t \in Nat /\ Has(c, do, n, t + h)
  /\ \A a, b, n, t : Precedes(r, a, b, n, t) => Precedes(c, a, b, n, t + h)

\* The events do of n are still there.
Left(c, r, h, do, n) == \A t : Has(c, do, n, t) => t \in Nat /\ h <= t /\ Has(r, do, n, t - h)

\* r is c and the events of E, each after those of its instant.
Grows(c, r, E) ==
  /\ Calendar(r)
  /\ \A do, n, t : Has(r, do, n, t) <=> Has(c, do, n, t) \/ <<do, n, t>> \in E
  /\ \A a, b, n, t : Precedes(r, a, b, n, t) =>
       \/ Precedes(c, a, b, n, t)
       \/ <<b, n, t>> \in E /\ (Has(c, a, n, t) \/ <<a, n, t>> \in E)

\* Some events of n are gone, but not the NULLs and FCTs it is going to receive.
Cuts(c, r, n) ==
  /\ Calendar(r) /\ Tidy(r)
  /\ \A do, m, t : Has(r, do, m, t) => Has(c, do, m, t)
  /\ \A do, m, t : Has(c, do, m, t) /\ (m # n \/ do \in {"ReceiveNull", "ReceiveFCT"}) =>
       Has(r, do, m, t)
  /\ \A a, b, m, t : Precedes(r, a, b, m, t) => Precedes(c, a, b, m, t)

\* A handler of n has taken events of n away and then added those of E.
Changes(c, r, n, E) == \E b : Cuts(c, b, n) /\ Grows(b, r, E)

LEMMA RestElapsed ==
  ASSUME Calendar(calendar), calendar # <<>>
  PROVE  /\ Elapsed(calendar, Rest, Head(calendar).in)
         /\ \A do, n : do # Head(calendar).do \/ n # Head(calendar).dev =>
              Left(calendar, Rest, Head(calendar).in, do, n)
         /\ \A do, n, t : Has(calendar, do, n, t) => t \in Nat /\ Head(calendar).in <= t
         /\ Has(calendar, Head(calendar).do, Head(calendar).dev, Head(calendar).in)
         /\ \A do : /\ do # Head(calendar).do
                    /\ Has(calendar, do, Head(calendar).dev, Head(calendar).in)
                    => Precedes(calendar, Head(calendar).do, do, Head(calendar).dev,
                                Head(calendar).in)
<1> DEFINE c == calendar
           r == Rest
           h == Head(c).in
<1>1. /\ Len(c) \in Nat \ {0} /\ Head(c) = c[1] /\ Calendar(r) /\ Len(r) = Len(c) - 1
      /\ \A i \in 1 .. Len(r) : i + 1 \in 1 .. Len(c) /\ SameEvent(r[i], c[i + 1])
  BY RestCalendar
<1>2. \A i \in 1 .. Len(c) : c[i].in \in Nat /\ h <= c[i].in
  <2>1. \A i \in 1 .. Len(c) : c[i].in \in Nat
    BY CalendarTypes
  <2>2. \A i, j \in 1 .. Len(c) : i < j => c[i].in <= c[j].in
    BY DEF Calendar, InRunOrder
  <2>3. 1 \in 1 .. Len(c) /\ c[1].in = h
    BY <1>1
  <2> HIDE DEF c, h
  <2> QED
    BY <2>1, <2>2, <2>3
<1>3. \A i \in 1 .. Len(r) : r[i].in \in Nat /\ r[i].in = c[i + 1].in - h
  <2> DEFINE s == Tail(c)
  <2>1. c \in Seq(Event)
    BY CalendarTypes
  <2>2. s \in Seq(Event) /\ Len(s) = Len(c) - 1 /\ \A i \in 1 .. Len(s) : s[i] = c[i + 1]
    BY <2>1, HeadTailProperties
  <2>3. DOMAIN s = 1 .. Len(s)
    BY <2>2, LenProperties
  <2>4. ASSUME NEW i \in 1 .. Len(r) PROVE r[i].in = c[i + 1].in - h
    <3>1. i \in DOMAIN s
      BY <1>1, <2>2, <2>3
    <3>2. s[i] = c[i + 1] /\ s[i] \in Event
      BY <2>2, <2>3, <3>1
    <3>3. r[i] = [s[i] EXCEPT !.in = s[i].in - h]
      BY <3>1 DEF Rest, Later
    <3> HIDE DEF s, r, h, c
    <3> QED
      BY <3>2, <3>3 DEF Event
  <2>5. \A i \in 1 .. Len(r) : r[i].in \in Nat
    BY <1>1, CalendarTypes
  <2> QED
    BY <2>4, <2>5
<1>4. h \in Nat
  BY <1>1, <1>2
<1> HIDE DEF c, r, h
<1>5. ASSUME NEW do, NEW n, NEW t, Has(r, do, n, t) PROVE t \in Nat /\ Has(c, do, n, t + h)
  <2>1. PICK i \in 1 .. Len(r) : r[i].do = do /\ r[i].dev = n /\ r[i].in = t
    BY <1>5 DEF Has
  <2>2. i + 1 \in 1 .. Len(c) /\ SameEvent(r[i], c[i + 1])
    BY <1>1
  <2>3. c[i + 1].do = do /\ c[i + 1].dev = n /\ c[i + 1].in = t + h /\ t \in Nat
    BY <1>2, <1>3, <1>4, <2>1, <2>2 DEF SameEvent
  <2> QED
    BY <2>2, <2>3 DEF Has
<1>6. ASSUME NEW a, NEW b, NEW n, NEW t, Precedes(r, a, b, n, t)
      PROVE  Precedes(c, a, b, n, t + h)
  <2>1. PICK i \in 1 .. Len(r), j \in 1 .. Len(r) :
          /\ i < j /\ r[i].do = a /\ r[j].do = b
          /\ r[i].dev = n /\ r[j].dev = n /\ r[i].in = t /\ r[j].in = t
    BY <1>6 DEF Precedes
  <2>2. /\ i + 1 \in 1 .. Len(c) /\ SameEvent(r[i], c[i + 1])
        /\ j + 1 \in 1 .. Len(c) /\ SameEvent(r[j], c[j + 1]) /\ i + 1 < j + 1
    BY <1>1, <2>1
  <2>3. c[i + 1].do = a /\ c[i + 1].dev = n /\ c[i + 1].in = t + h
    BY <1>2, <1>3, <1>4, <2>1, <2>2 DEF SameEvent
  <2>4. c[j + 1].do = b /\ c[j + 1].dev = n /\ c[j + 1].in = t + h
    BY <1>2, <1>3, <1>4, <2>1, <2>2 DEF SameEvent
  <2> QED
    BY <2>2, <2>3, <2>4 DEF Precedes
<1>7. ASSUME NEW do, NEW n, do # Head(c).do \/ n # Head(c).dev PROVE Left(c, r, h, do, n)
  <2> SUFFICES ASSUME NEW t, Has(c, do, n, t) PROVE t \in Nat /\ h <= t /\ Has(r, do, n, t - h)
    BY DEF Left
  <2>1. PICK k \in 1 .. Len(c) : c[k].do = do /\ c[k].dev = n /\ c[k].in = t
    BY DEF Has
  <2>2. k # 1
    BY <1>1, <1>7, <2>1
  <2>3. k - 1 \in 1 .. Len(r) /\ (k - 1) + 1 = k
    BY <1>1, <2>2
  <2>4. SameEvent(r[k - 1], c[k]) /\ r[k - 1].in = c[k].in - h
    BY <1>1, <1>3, <2>3
  <2> QED
    BY <1>2, <2>1, <2>3, <2>4 DEF Has, SameEvent
<1>8. \A do, n, t : Has(c, do, n, t) => t \in Nat /\ h <= t
  BY <1>2 DEF Has
<1>9. Has(c, Head(c).do, Head(c).dev, h)
  <2>1. 1 \in 1 .. Len(c) /\ c[1].in = h
    BY <1>1 DEF h
  <2> QED
    BY <1>1, <2>1 DEF Has
<1>10. ASSUME NEW do, do # Head(c).do, Has(c, do, Head(c).dev, h)
       PROVE  Precedes(c, Head(c).do, do, Head(c).dev, h)
  <2>1. PICK k \in 1 .. Len(c) : c[k].do = do /\ c[k].dev = Head(c).dev /\ c[k].in = h
    BY <1>10 DEF Has
  <2>2. 1 \in 1 .. Len(c) /\ c[1].in = h /\ 1 < k
    BY <1>1, <1>10, <2>1 DEF h
  <2> QED
    BY <1>1, <2>1, <2>2 DEF Precedes
<1>11. Elapsed(c, r, h)
  BY <1>1, <1>4, <1>5, <1>6 DEF Elapsed
<1> QED
  BY <1>7, <1>8, <1>9, <1>10, <1>11 DEF c, r, h

\* A call from outside.
LEMMA CallElapsed ==
  ASSUME Calendar(calendar), NEW d \in Gap, CallAt(d)
  PROVE  /\ Elapsed(calendar, Later(calendar, d), d)
         /\ \A do, n : Left(calendar, Later(calendar, d), d, do, n)
<1> DEFINE c == calendar
           r == Later(c, d)
<1>1. /\ Calendar(r) /\ Len(r) = Len(c) /\ \A i \in 1 .. Len(c) : SameEvent(r[i], c[i])
  BY CallCalendar
<1>2. d \in Nat
  BY LinkAssumption
<1>3. \A i \in 1 .. Len(c) : c[i].in \in Nat /\ r[i].in \in Nat /\ r[i].in = c[i].in - d
  <2>1. \A i \in 1 .. Len(c) : r[i].in = c[i].in - d
    BY <1>2, LaterTimes
  <2>2. \A i \in 1 .. Len(c) : c[i].in \in Nat /\ r[i].in \in Nat
    BY <1>1, CalendarTypes
  <2> QED
    BY <2>1, <2>2
<1> HIDE DEF c, r
<1>4. ASSUME NEW i \in 1 .. Len(c)
      PROVE  /\ r[i].do = c[i].do /\ r[i].dev = c[i].dev /\ c[i].in = r[i].in + d
             /\ d <= c[i].in
  BY <1>1, <1>2, <1>3 DEF SameEvent
<1>5. \A do, n, t : Has(r, do, n, t) => t \in Nat /\ Has(c, do, n, t + d)
  BY <1>1, <1>3, <1>4 DEF Has
<1>6. ASSUME NEW a, NEW b, NEW n, NEW t, Precedes(r, a, b, n, t)
      PROVE  Precedes(c, a, b, n, t + d)
  <2>1. PICK i \in 1 .. Len(r), j \in 1 .. Len(r) :
          /\ i < j /\ r[i].do = a /\ r[j].do = b
          /\ r[i].dev = n /\ r[j].dev = n /\ r[i].in = t /\ r[j].in = t
    BY <1>6 DEF Precedes
  <2>2. /\ c[i].do = a /\ c[i].dev = n /\ c[i].in = t + d
        /\ c[j].do = b /\ c[j].dev = n /\ c[j].in = t + d
    BY <1>1, <1>4, <2>1
  <2> QED
    BY <1>1, <2>1, <2>2 DEF Precedes
<1>7. ASSUME NEW do, NEW n PROVE Left(c, r, d, do, n)
  <2> SUFFICES ASSUME NEW t, Has(c, do, n, t) PROVE t \in Nat /\ d <= t /\ Has(r, do, n, t - d)
    BY DEF Left
  <2>1. PICK k \in 1 .. Len(c) : c[k].do = do /\ c[k].dev = n /\ c[k].in = t
    BY DEF Has
  <2> QED
    BY <1>1, <1>3, <1>4, <2>1 DEF Has
<1> QED
  BY <1>1, <1>2, <1>5, <1>6, <1>7 DEF Elapsed, c, r

LEMMA InsertGrows ==
  ASSUME NEW c, Calendar(c), NEW e \in Event, e.do \notin Carrying
  PROVE  Grows(c, Insert(c, e), {<<e.do, e.dev, e.in>>})
<1> DEFINE r == Insert(c, e)
           E == {<<e.do, e.dev, e.in>>}
<1>1. Calendar(r)
  BY InsertCalendar
<1>2. Len(c) \in Nat /\ Len(r) = Len(c) + 1
  BY InsertPlaces
<1>3. PICK p \in 1 .. Len(c) + 1, g \in [1 .. Len(c) -> 1 .. Len(c) + 1] :
        /\ r[p] = e
        /\ \A i \in 1 .. Len(c) : g[i] # p /\ r[g[i]] = c[i]
        /\ \A i, j \in 1 .. Len(c) : i < j => g[i] < g[j]
        /\ \A i \in 1 .. Len(c) + 1 : i # p => \E k \in 1 .. Len(c) : i = g[k]
        /\ \A i \in 1 .. Len(c) : c[i].in <= e.in => g[i] < p
  BY InsertPlaces
<1>4. \A i \in 1 .. Len(c) : c[i].in \in Nat
  BY CalendarTypes
<1> HIDE DEF r
<1>5. ASSUME NEW i \in 1 .. Len(r) PROVE i = p \/ \E k \in 1 .. Len(c) : i = g[k] /\ r[i] = c[k]
  BY <1>2, <1>3
<1>6. ASSUME NEW do, NEW n, NEW t
      PROVE  Has(r, do, n, t) <=> Has(c, do, n, t) \/ <<do, n, t>> \in E
  <2>1. ASSUME Has(r, do, n, t) PROVE Has(c, do, n, t) \/ <<do, n, t>> \in E
    <3>1. PICK i \in 1 .. Len(r) : r[i].do = do /\ r[i].dev = n /\ r[i].in = t
      BY <2>1 DEF Has
    <3> QED
      BY <1>3, <1>5, <3>1 DEF Has
  <2>2. Has(c, do, n, t) => Has(r, do, n, t)
    BY InsertHas DEF r
  <2>3. <<do, n, t>> \in E => Has(r, do, n, t)
    BY InsertHas DEF r
  <2> QED
    BY <2>1, <2>2, <2>3
<1>7. ASSUME NEW a, NEW b, NEW n, NEW t, Precedes(r, a, b, n, t), ~Precedes(c, a, b, n, t)
      PROVE  <<b, n, t>> \in E /\ Has(c, a, n, t)
  <2>1. PICK i \in 1 .. Len(r), j \in 1 .. Len(r) :
          /\ i < j /\ r[i].do = a /\ r[j].do = b
          /\ r[i].dev = n /\ r[j].dev = n /\ r[i].in = t /\ r[j].in = t
    BY <1>7 DEF Precedes
  <2>2. i # p
    <3> SUFFICES ASSUME i = p PROVE FALSE
      OBVIOUS
    <3>1. j # p
      BY <2>1
    <3>2. PICK k \in 1 .. Len(c) : j = g[k] /\ r[j] = c[k]
      BY <1>5, <3>1
    <3>3. c[k].in <= e.in
      BY <1>3, <1>4, <2>1, <3>2
    <3>4. j < p
      BY <1>3, <3>2, <3>3
    <3> QED
      BY <1>2, <2>1, <3>4
  <2>3. PICK k \in 1 .. Len(c) : i = g[k] /\ r[i] = c[k]
    BY <1>5, <2>2
  <2>4. Has(c, a, n, t)
    BY <2>1, <2>3 DEF Has
  <2>5. j = p
    <3> SUFFICES ASSUME j # p PROVE FALSE
      OBVIOUS
    <3>1. PICK l \in 1 .. Len(c) : j = g[l] /\ r[j] = c[l]
      BY <1>5
    <3>2. k < l
      <4>1. ~(l < k) /\ k # l
        <5>1. l < k => g[l] < g[k]
          BY <1>3
        <5> QED
          BY <1>2, <2>1, <2>3, <3>1, <5>1
      <4> QED
        BY <1>2, <4>1
    <3> QED
      BY <1>7, <2>1, <2>3, <3>1, <3>2 DEF Precedes
  <2> QED
    BY <1>3, <2>1, <2>4, <2>5
<1> QED
  BY <1>1, <1>6, <1>7 DEF Grows, r

LEMMA ForgetGrows ==
  ASSUME NEW c, Calendar(c), NEW m, NEW h, NEW u
  PROVE  Grows(c, Forget(c, m, h, u), {})
<1> DEFINE r == Forget(c, m, h, u)
<1>1. Calendar(r) /\ Len(r) = Len(c)
  BY ForgetCalendar
<1>2. DOMAIN c = 1 .. Len(c) /\ \A i \in 1 .. Len(c) : c[i] \in Event
  BY CalendarTypes
<1>3. \A i \in 1 .. Len(c) : r[i] = IF c[i].dev = m /\ c[i].handle = h /\ c[i].uid = u
                                      THEN [c[i] EXCEPT !.handle = "none"] ELSE c[i]
  BY <1>2 DEF Forget
<1> HIDE DEF r
<1>4. \A i \in 1 .. Len(c) : r[i].do = c[i].do /\ r[i].dev = c[i].dev /\ r[i].in = c[i].in
  BY <1>2, <1>3 DEF Event
<1>5. \A do, n, t : Has(r, do, n, t) <=> Has(c, do, n, t)
  BY <1>1, <1>4 DEF Has
<1>6. ASSUME NEW a, NEW b, NEW n, NEW t, Precedes(r, a, b, n, t)
      PROVE  Precedes(c, a, b, n, t)
  BY <1>1, <1>4, <1>6 DEF Precedes
<1> QED
  BY <1>1, <1>5, <1>6 DEF Grows, r

LEMMA GrowsTwice ==
  ASSUME NEW a, NEW b, NEW c, NEW E, NEW F, Grows(a, b, E), Grows(b, c, F)
  PROVE  Grows(a, c, E \cup F)
<1>1. \A do, n, t : Has(c, do, n, t) <=> Has(a, do, n, t) \/ <<do, n, t>> \in E \cup F
  BY DEF Grows
<1>2. ASSUME NEW x, NEW y, NEW n, NEW t, Precedes(c, x, y, n, t)
      PROVE  \/ Precedes(a, x, y, n, t)
             \/ <<y, n, t>> \in E \cup F /\ (Has(a, x, n, t) \/ <<x, n, t>> \in E \cup F)
  BY <1>2 DEF Grows
<1> QED
  BY <1>1, <1>2 DEF Grows

LEMMA CancelCuts ==
  ASSUME NEW c, Calendar(c), Tidy(c), NEW n \in Node, NEW H \in SUBSET Handle
  PROVE  Cuts(c, Cancel(c, n, H), n)
<1> DEFINE r == Cancel(c, n, H)
<1>1. c \in Seq(Event)
  BY CalendarTypes
<1>2. PICK f : /\ Selects(c, r, f)
               /\ \A i \in 1 .. Len(c) : ~Refers(c[i], n, H) =>
                    \E k \in 1 .. Len(r) : f[k] = i
  BY <1>1, Cancelled
<1>3. Calendar(r) /\ Tidy(r)
  <2>1. "none" \notin H
    BY DEF Handle
  <2> QED
    BY <2>1, TidyCancel DEF Handled
<1> HIDE DEF r
<1>4. \A i \in 1 .. Len(r) : f[i] \in 1 .. Len(c) /\ r[i] = c[f[i]]
  BY <1>2 DEF Selects
<1>5. \A do, m, t : Has(r, do, m, t) => Has(c, do, m, t)
  BY <1>4 DEF Has
<1>6. ASSUME NEW do, NEW m, NEW t, Has(c, do, m, t), m # n \/ do \in {"ReceiveNull", "ReceiveFCT"}
      PROVE  Has(r, do, m, t)
  <2>1. PICK i \in 1 .. Len(c) : c[i].do = do /\ c[i].dev = m /\ c[i].in = t
    BY <1>6 DEF Has
  <2>2. ~Refers(c[i], n, H)
    <3>1. CASE m # n
      BY <2>1, <3>1 DEF Refers
    <3>2. CASE do \in {"ReceiveNull", "ReceiveFCT"}
      <4>1. RightHandle(c[i]) /\ Kind(c[i]) = do
        BY <2>1, <3>2 DEF Tidy, Kind
      <4>2. c[i].handle = "none"
        BY <2>1, <3>2, <4>1 DEF RightHandle, HandleOf
      <4> QED
        BY <4>2 DEF Refers, Handle
    <3> QED
      BY <1>6, <3>1, <3>2
  <2>3. PICK k \in 1 .. Len(r) : f[k] = i
    BY <1>2, <2>2
  <2> QED
    BY <1>4, <2>1, <2>3 DEF Has
<1>7. ASSUME NEW a, NEW b, NEW m, NEW t, Precedes(r, a, b, m, t)
      PROVE  Precedes(c, a, b, m, t)
  <2>1. PICK i \in 1 .. Len(r), j \in 1 .. Len(r) :
          /\ i < j /\ r[i].do = a /\ r[j].do = b
          /\ r[i].dev = m /\ r[j].dev = m /\ r[i].in = t /\ r[j].in = t
    BY <1>7 DEF Precedes
  <2>2. f[i] < f[j] /\ f[i] \in 1 .. Len(c) /\ f[j] \in 1 .. Len(c)
    BY <1>2, <2>1 DEF Selects
  <2> QED
    BY <1>4, <2>1, <2>2 DEF Precedes
<1> QED
  BY <1>3, <1>5, <1>6, <1>7 DEF Cuts, r

LEMMA CutsTwice ==
  ASSUME NEW a, NEW b, NEW c, NEW n, Cuts(a, b, n), Cuts(b, c, n)
  PROVE  Cuts(a, c, n)
BY DEF Cuts

LEMMA ScheduleGrows ==
  ASSUME NEW c, Calendar(c), NEW delay \in Nat, NEW do \in Handler \ Carrying,
         NEW n \in Node
  PROVE  /\ Grows(c, Schedule(c, delay, do, n, NoUid), {<<do, n, delay>>})
         /\ \A h \in Handle : Grows(c, ScheduleAs(h, c, delay, do, n, NoUid), {<<do, n, delay>>})
<1>1. ASSUME NEW d, Calendar(d), NEW h \in Handle \cup {"none"}
      PROVE  Grows(d, Insert(d, [do |-> do, dev |-> n, uid |-> NoUid, in |-> delay, handle |-> h]),
                   {<<do, n, delay>>})
  <2> DEFINE e == [do |-> do, dev |-> n, uid |-> NoUid, in |-> delay, handle |-> h]
  <2>1. e \in Event /\ e.do = do /\ e.dev = n /\ e.in = delay
    BY DEF Event
  <2> HIDE DEF e
  <2>2. Grows(d, Insert(d, e), {<<do, n, delay>>})
    BY <1>1, <2>1, InsertGrows
  <2> QED
    BY <2>2 DEF e
<1>2. Grows(c, Schedule(c, delay, do, n, NoUid), {<<do, n, delay>>})
  BY <1>1 DEF Schedule
<1>3. ASSUME NEW h \in Handle
      PROVE  Grows(c, ScheduleAs(h, c, delay, do, n, NoUid), {<<do, n, delay>>})
  <2> DEFINE d == Forget(c, n, h, NoUid)
             r == ScheduleAs(h, c, delay, do, n, NoUid)
  <2>1. Grows(c, d, {}) /\ Calendar(d)
    BY ForgetGrows, ForgetCalendar
  <2>2. Grows(d, r, {<<do, n, delay>>})
    BY <1>1, <2>1 DEF ScheduleAs
  <2> HIDE DEF d, r
  <2>3. Grows(c, r, {} \cup {<<do, n, delay>>})
    BY <2>1, <2>2, GrowsTwice
  <2>4. {} \cup {<<do, n, delay>>} = {<<do, n, delay>>}
    OBVIOUS
  <2> QED
    BY <2>3, <2>4 DEF r
<1> QED
  BY <1>2, <1>3

\* What each handler makes of the calendar.
LEMMA HandlerChanges ==
  ASSUME NEW c, Calendar(c), Tidy(c), NEW n \in Node
  PROVE  /\ Changes(c, ErrorReset(c, n), n, {<<"ErrorWait", n, SPW_HALF_DELAY>>})
         /\ Changes(c, Schedule(c, SPW_DELAY, "Ready", n, NoUid), n,
                    {<<"Ready", n, SPW_DELAY>>})
         /\ Changes(c, Started(c, n), n,
                    {<<"ErrorReset", n, SPW_DELAY>>, <<"SendNull", n, 0>>})
         /\ Changes(c, Connecting(Cancel(c, n, {"sendNull"}), n), n,
                    {<<"ErrorReset", n, SPW_DELAY>>, <<"SendFCT", n, 0>>})
         /\ Grows(c, ScheduleAs("sendNull", NullInLink(c, n), PERIOD, "SendNull", n, NoUid),
                  {<<"ReceiveNull", Peer(n), LATENCY>>, <<"SendNull", n, PERIOD>>})
         /\ Grows(c, ScheduleAs("sendFCT", FCTInLink(c, n), PERIOD, "SendFCT", n, NoUid),
                  {<<"ReceiveFCT", Peer(n), LATENCY>>, <<"SendFCT", n, PERIOD>>})
         /\ \A s, E : Grows(c, s, E) => Changes(c, s, n, E)
<1> DEFINE one == {"stateChangeToErrorReset"}
<1>1. /\ {"ErrorReset", "ErrorWait", "Ready", "SendNull", "SendFCT", "ReceiveNull", "ReceiveFCT"}
           \subseteq Handler \ Carrying
      /\ {"stateChangeToErrorReset", "sendNull", "sendFCT"} \subseteq Handle
      /\ one \in SUBSET Handle /\ {"sendNull"} \in SUBSET Handle
      /\ (Handle \ one) \in SUBSET Handle
      /\ Peer(n) \in Node /\ 0 \in Nat
  BY PeerType DEF Handler, Carrying, Handle
<1>2. Cuts(c, c, n)
  BY DEF Cuts
<1>3. \A H \in SUBSET Handle : Cuts(c, Cancel(c, n, H), n)
  BY CancelCuts
<1>4. \A b : Cuts(c, b, n) => Calendar(b) /\ Tidy(b)
  BY DEF Cuts
<1>5. ASSUME NEW b, Calendar(b), NEW s, NEW h \in Handle, NEW do \in Handler \ Carrying,
             NEW E, Grows(b, s, E), NEW delay \in Nat
      PROVE  Grows(b, ScheduleAs(h, s, delay, do, n, NoUid), E \cup {<<do, n, delay>>})
  <2>1. Calendar(s)
    BY <1>5 DEF Grows
  <2>2. Grows(s, ScheduleAs(h, s, delay, do, n, NoUid), {<<do, n, delay>>})
    BY <2>1, ScheduleGrows
  <2> QED
    BY <1>5, <2>2, GrowsTwice
<1>6. Changes(c, ErrorReset(c, n), n, {<<"ErrorWait", n, SPW_HALF_DELAY>>})
  <2> DEFINE b == Cancel(c, n, Handle \ one)
  <2>1. Cuts(c, b, n) /\ Calendar(b)
    BY <1>1, <1>3, <1>4
  <2> HIDE DEF b
  <2>2. Grows(b, Schedule(b, SPW_HALF_DELAY, "ErrorWait", n, NoUid),
              {<<"ErrorWait", n, SPW_HALF_DELAY>>})
    BY <1>1, <2>1, ScheduleGrows, Delays
  <2> QED
    BY <2>1, <2>2 DEF Changes, ErrorReset, b
<1>7. Changes(c, Schedule(c, SPW_DELAY, "Ready", n, NoUid), n, {<<"Ready", n, SPW_DELAY>>})
  <2>1. Grows(c, Schedule(c, SPW_DELAY, "Ready", n, NoUid), {<<"Ready", n, SPW_DELAY>>})
    BY <1>1, ScheduleGrows, Delays
  <2> QED
    BY <1>2, <2>1 DEF Changes
<1>8. ASSUME NEW b, Calendar(b)
      PROVE  Grows(b, ScheduleAs("stateChangeToErrorReset", b, SPW_DELAY, "ErrorReset", n, NoUid),
                   {<<"ErrorReset", n, SPW_DELAY>>})
  BY <1>1, <1>8, ScheduleGrows, Delays
<1>9. \A do, h, x : {<<do, n, h>>} \cup {x} = {<<do, n, h>>, x}
  OBVIOUS
<1>10. Changes(c, Started(c, n), n, {<<"ErrorReset", n, SPW_DELAY>>, <<"SendNull", n, 0>>})
  <2> DEFINE b == Cancel(c, n, one)
             s == ScheduleAs("stateChangeToErrorReset", b, SPW_DELAY, "ErrorReset", n, NoUid)
  <2>1. Cuts(c, b, n) /\ Calendar(b)
    BY <1>1, <1>3, <1>4
  <2>2. Started(c, n) = ScheduleAs("sendNull", s, 0, "SendNull", n, NoUid)
    BY DEF Started, Timeout
  <2> HIDE DEF b
  <2>3. Grows(b, s, {<<"ErrorReset", n, SPW_DELAY>>})
    BY <1>8, <2>1
  <2> HIDE DEF s
  <2>4. Grows(b, Started(c, n), {<<"ErrorReset", n, SPW_DELAY>>} \cup {<<"SendNull", n, 0>>})
    BY <1>1, <1>5, <2>1, <2>2, <2>3
  <2> QED
    BY <1>9, <2>1, <2>4 DEF Changes
<1>11. Changes(c, Connecting(Cancel(c, n, {"sendNull"}), n), n,
               {<<"ErrorReset", n, SPW_DELAY>>, <<"SendFCT", n, 0>>})
  <2> DEFINE a == Cancel(c, n, {"sendNull"})
             b == Cancel(a, n, one)
             s == ScheduleAs("stateChangeToErrorReset", b, SPW_DELAY, "ErrorReset", n, NoUid)
  <2>1. Cuts(c, a, n) /\ Calendar(a) /\ Tidy(a)
    BY <1>1, <1>3, <1>4
  <2>2. Connecting(a, n) = ScheduleAs("sendFCT", s, 0, "SendFCT", n, NoUid)
    BY DEF Connecting, Timeout
  <2> HIDE DEF a
  <2>3. Cuts(a, b, n)
    BY <1>1, <2>1, CancelCuts
  <2> HIDE DEF b
  <2>4. Cuts(c, b, n) /\ Calendar(b)
    BY <1>4, <2>1, <2>3, CutsTwice
  <2>5. Grows(b, s, {<<"ErrorReset", n, SPW_DELAY>>})
    BY <1>8, <2>4
  <2> HIDE DEF s
  <2>6. Grows(b, Connecting(a, n), {<<"ErrorReset", n, SPW_DELAY>>} \cup {<<"SendFCT", n, 0>>})
    BY <1>1, <1>5, <2>2, <2>4, <2>5
  <2> QED
    BY <1>9, <2>4, <2>6 DEF Changes, a
<1>12. Grows(c, ScheduleAs("sendNull", NullInLink(c, n), PERIOD, "SendNull", n, NoUid),
             {<<"ReceiveNull", Peer(n), LATENCY>>, <<"SendNull", n, PERIOD>>})
  <2>1. Grows(c, NullInLink(c, n), {<<"ReceiveNull", Peer(n), LATENCY>>})
    BY <1>1, ScheduleGrows, Delays DEF NullInLink
  <2>2. Grows(c, ScheduleAs("sendNull", NullInLink(c, n), PERIOD, "SendNull", n, NoUid),
              {<<"ReceiveNull", Peer(n), LATENCY>>} \cup {<<"SendNull", n, PERIOD>>})
    BY <1>1, <1>5, <2>1, Delays
  <2>3. {<<"ReceiveNull", Peer(n), LATENCY>>} \cup {<<"SendNull", n, PERIOD>>}
          = {<<"ReceiveNull", Peer(n), LATENCY>>, <<"SendNull", n, PERIOD>>}
    OBVIOUS
  <2> QED
    BY <2>2, <2>3
<1>13. Grows(c, ScheduleAs("sendFCT", FCTInLink(c, n), PERIOD, "SendFCT", n, NoUid),
             {<<"ReceiveFCT", Peer(n), LATENCY>>, <<"SendFCT", n, PERIOD>>})
  <2>1. Grows(c, FCTInLink(c, n), {<<"ReceiveFCT", Peer(n), LATENCY>>})
    BY <1>1, ScheduleGrows, Delays DEF FCTInLink
  <2>2. Grows(c, ScheduleAs("sendFCT", FCTInLink(c, n), PERIOD, "SendFCT", n, NoUid),
              {<<"ReceiveFCT", Peer(n), LATENCY>>} \cup {<<"SendFCT", n, PERIOD>>})
    BY <1>1, <1>5, <2>1, Delays
  <2>3. {<<"ReceiveFCT", Peer(n), LATENCY>>} \cup {<<"SendFCT", n, PERIOD>>}
          = {<<"ReceiveFCT", Peer(n), LATENCY>>, <<"SendFCT", n, PERIOD>>}
    OBVIOUS
  <2> QED
    BY <2>2, <2>3
<1>14. \A s, E : Grows(c, s, E) => Changes(c, s, n, E)
  BY <1>2 DEF Changes
<1> QED
  BY <1>6, <1>7, <1>10, <1>11, <1>12, <1>13, <1>14

\* What a change leaves, adds and may add.
LEMMA Changed ==
  ASSUME NEW c, NEW r, NEW n, NEW E, Changes(c, r, n, E)
  PROVE  /\ Calendar(r)
         /\ \A do, m, t : Has(r, do, m, t) => Has(c, do, m, t) \/ <<do, m, t>> \in E
         /\ \A do, m, t : Has(c, do, m, t) /\ (m # n \/ do \in {"ReceiveNull", "ReceiveFCT"}) =>
              Has(r, do, m, t)
         /\ \A do, m, t : <<do, m, t>> \in E => Has(r, do, m, t)
         /\ \A a, b, m, t : Precedes(r, a, b, m, t) =>
              \/ Precedes(c, a, b, m, t)
              \/ <<b, m, t>> \in E /\ (Has(c, a, m, t) \/ <<a, m, t>> \in E)
<1>1. PICK d : Cuts(c, d, n) /\ Grows(d, r, E)
  BY DEF Changes
<1> QED
  BY <1>1 DEF Cuts, Grows

-----------------------------------------------------------------------------
(***************************************************************************)
(* How far apart the devices are.                                          *)
(***************************************************************************)

\* A NULL or FCT is on its way for less than half the time between two of them, and
\* for less than any state lasts that ends with a timeout: 11, 50, 12800 and 6400 in
\* the code.
Timing == 2 * LATENCY < PERIOD /\ LATENCY < SPW_DELAY /\ LATENCY < SPW_HALF_DELAY

\* When a device sends NULLs, counted from its entering STARTED.
Multiple == {j * PERIOD : j \in Nat}

\* The other device, which enters STARTED x later than a device that then is in
\* STARTED, finds none of its NULLs on the way, and its own first one arrives before
\* the next is sent, or at that time if half.
Clear(x, half) ==
  \/ x + LATENCY >= SPW_DELAY
  \/ \A b \in Multiple : x + LATENCY < b \/ x >= b + LATENCY \/ (half /\ x + LATENCY = b)

\* That is so in every cycle in which a device is ahead of the other, if it is z
\* ahead in one.
FarApart(z, half) ==
  \A k \in Int : z + k * CYCLE >= 0 => Clear(z + k * CYCLE, half)

LEMMA Scale ==
  ASSUME Timing
  PROVE  /\ SPW_DELAY \in Nat /\ SPW_HALF_DELAY \in Nat /\ PERIOD \in Nat /\ LATENCY \in Nat
         /\ LATENCY >= 1 /\ LATENCY + LATENCY < PERIOD
         /\ LATENCY < SPW_DELAY /\ LATENCY < SPW_HALF_DELAY
         /\ CYCLE \in Nat /\ CYCLE = SPW_HALF_DELAY + (SPW_DELAY + SPW_DELAY)
<1>1. /\ SPW_DELAY \in Nat /\ SPW_HALF_DELAY \in Nat /\ PERIOD \in Nat /\ LATENCY \in Nat \ {0}
  BY LinkAssumption
<1>2. 2 * LATENCY = LATENCY + LATENCY /\ 2 * SPW_DELAY = SPW_DELAY + SPW_DELAY
  BY <1>1
<1> QED
  BY <1>1, <1>2 DEF Timing, CYCLE

LEMMA Multiples ==
  ASSUME Timing
  PROVE  /\ 0 \in Multiple /\ Multiple \subseteq Nat
         /\ \A b \in Multiple : b + PERIOD \in Multiple
         /\ \A a, b \in Multiple : a < b => a + PERIOD <= b
<1>1. PERIOD \in Nat
  BY Scale
<1>2. 0 * PERIOD = 0
  BY <1>1
<1>3. \A j \in Nat : j * PERIOD \in Nat /\ j * PERIOD + PERIOD = (j + 1) * PERIOD
  BY <1>1
<1>4. ASSUME NEW i \in Nat, NEW j \in Nat, i * PERIOD < j * PERIOD
      PROVE  i * PERIOD + PERIOD <= j * PERIOD
  <2>1. j <= i => j * PERIOD <= i * PERIOD
    BY <1>1
  <2>2. i < j
    BY <1>1, <1>4, <2>1
  <2> QED
    BY <1>1, <2>2
<1> QED
  BY <1>2, <1>3, <1>4 DEF Multiple

LEMMA FarShift ==
  ASSUME Timing, NEW z \in Int, NEW half, FarApart(z, half)
  PROVE  FarApart(z + CYCLE, half) /\ FarApart(z - CYCLE, half)
<1>1. CYCLE \in Nat
  BY Scale
<1>2. \A k \in Int : (z + CYCLE) + k * CYCLE = z + (k + 1) * CYCLE
  BY <1>1
<1>3. \A k \in Int : (z - CYCLE) + k * CYCLE = z + (k - 1) * CYCLE
  BY <1>1
<1>4. FarApart(z + CYCLE, half)
  <2> SUFFICES ASSUME NEW k \in Int, (z + CYCLE) + k * CYCLE >= 0
               PROVE  Clear((z + CYCLE) + k * CYCLE, half)
    BY DEF FarApart
  <2>1. k + 1 \in Int /\ z + (k + 1) * CYCLE >= 0
    BY <1>2
  <2>2. Clear(z + (k + 1) * CYCLE, half)
    BY <2>1 DEF FarApart
  <2> QED
    BY <1>2, <2>2
<1>5. FarApart(z - CYCLE, half)
  <2> SUFFICES ASSUME NEW k \in Int, (z - CYCLE) + k * CYCLE >= 0
               PROVE  Clear((z - CYCLE) + k * CYCLE, half)
    BY DEF FarApart
  <2>1. k - 1 \in Int /\ z + (k - 1) * CYCLE >= 0
    BY <1>3
  <2>2. Clear(z + (k - 1) * CYCLE, half)
    BY <2>1 DEF FarApart
  <2> QED
    BY <1>3, <2>2
<1> QED
  BY <1>4, <1>5

LEMMA FarNow ==
  ASSUME Timing, NEW z \in Nat, NEW half, FarApart(z, half)
  PROVE  Clear(z, half)
<1>1. z + 0 * CYCLE = z
  BY Scale
<1> QED
  BY <1>1 DEF FarApart

\* From one cycle to all: beyond half a cycle everything is clear.
LEMMA FarAlways ==
  ASSUME Timing, NEW half, NEW x \in Nat, x < CYCLE, Clear(x, half), Clear(CYCLE - x, half),
         NEW q \in Nat
  PROVE  FarApart(q * CYCLE + x, half) /\ FarApart(-(q * CYCLE + x), half)
<1>1. CYCLE \in Nat /\ SPW_DELAY \in Nat /\ SPW_DELAY <= CYCLE /\ LATENCY \in Nat /\ CYCLE >= 1
  BY Scale
<1>2. \A y \in Nat : y >= CYCLE => Clear(y, half)
  BY <1>1 DEF Clear
<1> HIDE DEF CYCLE
<1>3. \A k \in Int : k >= 1 => k * CYCLE >= CYCLE
  BY <1>1
<1>4. \A k \in Int : k <= -1 => k * CYCLE <= -CYCLE
  BY <1>1
<1>5. ASSUME NEW k \in Int, x + k * CYCLE >= 0
      PROVE  Clear(x + k * CYCLE, half)
  <2>0. k * CYCLE \in Int
    BY <1>1
  <2>1. CASE k = 0
    <3>1. x + k * CYCLE = x
      BY <1>1, <2>1
    <3> QED
      BY <3>1
  <2>2. CASE k >= 1
    <3>1. x + k * CYCLE >= CYCLE /\ x + k * CYCLE \in Nat
      BY <1>1, <1>3, <2>0, <2>2
    <3> QED
      BY <1>2, <3>1
  <2>3. CASE k <= -1
    <3>1. k * CYCLE <= -CYCLE
      BY <1>4, <2>3
    <3> QED
      BY <1>1, <1>5, <2>0, <3>1
  <2> QED
    BY <2>1, <2>2, <2>3
<1>6. ASSUME NEW k \in Int, k * CYCLE - x >= 0
      PROVE  Clear(k * CYCLE - x, half)
  <2>0. k * CYCLE \in Int
    BY <1>1
  <2>1. CASE k = 1
    <3>1. k * CYCLE - x = CYCLE - x
      BY <1>1, <2>1
    <3> QED
      BY <3>1
  <2>2. CASE k >= 2
    <3>1. (k - 1) * CYCLE >= CYCLE
      BY <1>3, <2>2
    <3>2. k * CYCLE = (k - 1) * CYCLE + CYCLE
      BY <1>1
    <3>3. k * CYCLE - x >= CYCLE /\ k * CYCLE - x \in Nat
      BY <1>1, <2>0, <3>1, <3>2
    <3> QED
      BY <1>2, <3>3
  <2>3. CASE k = 0
    <3>1. k * CYCLE - x = -x
      BY <1>1, <2>3
    <3>2. x = 0
      BY <1>6, <3>1
    <3>3. k * CYCLE - x = x
      BY <3>1, <3>2
    <3> QED
      BY <3>3
  <2>4. CASE k <= -1
    <3>1. k * CYCLE <= -CYCLE
      BY <1>4, <2>4
    <3> QED
      BY <1>1, <1>6, <2>0, <3>1
  <2> QED
    BY <2>1, <2>2, <2>3, <2>4
<1>7. FarApart(q * CYCLE + x, half)
  <2> SUFFICES ASSUME NEW k \in Int, (q * CYCLE + x) + k * CYCLE >= 0
               PROVE  Clear((q * CYCLE + x) + k * CYCLE, half)
    BY DEF FarApart
  <2>1. (q * CYCLE + x) + k * CYCLE = x + (q + k) * CYCLE /\ q + k \in Int
    BY <1>1
  <2> QED
    BY <1>5, <2>1
<1>8. FarApart(-(q * CYCLE + x), half)
  <2> SUFFICES ASSUME NEW k \in Int, (-(q * CYCLE + x)) + k * CYCLE >= 0
               PROVE  Clear((-(q * CYCLE + x)) + k * CYCLE, half)
    BY DEF FarApart
  <2>1. (-(q * CYCLE + x)) + k * CYCLE = (k - q) * CYCLE - x /\ k - q \in Int
    BY <1>1
  <2> QED
    BY <1>6, <2>1
<1> QED
  BY <1>7, <1>8

\* A device starts up anew when a NULL arrives that the other sent u after entering
\* STARTED.
LEMMA FarAgain ==
  ASSUME Timing, NEW half, NEW u \in Multiple, u <= SPW_DELAY
  PROVE  FarApart(u + LATENCY, half) /\ FarApart(-(u + LATENCY), half)
<1> DEFINE x == u + LATENCY
<1>1. /\ SPW_DELAY \in Nat /\ SPW_HALF_DELAY \in Nat /\ PERIOD \in Nat /\ LATENCY \in Nat
      /\ LATENCY >= 1 /\ LATENCY + LATENCY < PERIOD
      /\ LATENCY < SPW_DELAY /\ LATENCY < SPW_HALF_DELAY
      /\ CYCLE \in Nat /\ CYCLE = SPW_HALF_DELAY + (SPW_DELAY + SPW_DELAY)
  BY Scale
<1>2. u \in Nat /\ \A b \in Multiple : b \in Nat /\ (u < b => u + PERIOD <= b)
  BY Multiples
<1>3. x \in Nat /\ x < CYCLE
  BY <1>1, <1>2
<1>4. Clear(x, half)
  <2>1. ASSUME NEW b \in Multiple PROVE x + LATENCY < b \/ x >= b + LATENCY
    <3>1. CASE u < b
      BY <1>1, <1>2, <3>1
    <3>2. CASE ~(u < b)
      BY <1>1, <1>2, <3>2
    <3> QED
      BY <3>1, <3>2
  <2> QED
    BY <2>1 DEF Clear
<1>5. Clear(CYCLE - x, half)
  BY <1>1, <1>2 DEF Clear
<1> HIDE DEF x
<1>6. 0 * CYCLE + x = x
  BY <1>1, <1>3
<1> QED
  BY <1>3, <1>4, <1>5, <1>6, FarAlways DEF x

LEMMA Division ==
  ASSUME NEW a \in Nat, NEW b \in Nat \ {0}
  PROVE  a % b \in 0 .. b - 1 /\ \E q \in Nat : a = q * b + (a % b)
<1>1. a % b \in 0 .. b - 1 /\ a \div b \in Nat /\ a = (a \div b) * b + (a % b)
  OBVIOUS
<1> QED
  BY <1>1

\* Devices that are started out of step.
LEMMA FarAtFirst ==
  ASSUME Timing, offset \in Nat, ~InStep
  PROVE  FarApart(offset, HalfOpen) /\ FarApart(-offset, HalfOpen)
<1> DEFINE d == offset % CYCLE
<1>1. /\ SPW_DELAY \in Nat /\ SPW_HALF_DELAY \in Nat /\ PERIOD \in Nat /\ LATENCY \in Nat
      /\ LATENCY >= 1 /\ LATENCY + LATENCY < PERIOD
      /\ LATENCY < SPW_DELAY /\ LATENCY < SPW_HALF_DELAY
      /\ CYCLE \in Nat /\ CYCLE = SPW_HALF_DELAY + (SPW_DELAY + SPW_DELAY)
  BY Scale
<1>2. CYCLE \in Nat \ {0} /\ PERIOD \in Nat \ {0}
  BY <1>1
<1>3. PICK q \in Nat : offset = q * CYCLE + d /\ d \in 0 .. CYCLE - 1
  BY <1>2, Division
<1>4. Lead = IF 2 * d <= CYCLE THEN d ELSE CYCLE - d
  BY DEF Lead
<1> HIDE DEF d
<1>5. d \in Nat /\ d < CYCLE /\ 2 * d = d + d
  BY <1>1, <1>3
<1>6. Lead \in Nat
  BY <1>1, <1>4, <1>5
<1>7. Clear(Lead, HalfOpen)
  <2> DEFINE a == Lead + LATENCY
  <2>1. SUFFICES ASSUME a < SPW_DELAY, NEW b \in Multiple
                 PROVE  a < b \/ Lead >= b + LATENCY \/ (HalfOpen /\ a = b)
    BY <1>1, <1>6 DEF Clear
  <2>2. a \in Nat
    BY <1>1, <1>6
  <2>3. PICK j \in Nat : b = j * PERIOD
    BY <2>1 DEF Multiple
  <2>4. a % PERIOD \in 0 .. PERIOD - 1 /\ \E i \in Nat : a = i * PERIOD + (a % PERIOD)
    BY <1>2, <2>2, Division
  <2>5. PICK i \in Nat : a = i * PERIOD + (a % PERIOD)
    BY <2>4
  <2>6. a % PERIOD = 0 \/ a % PERIOD >= LATENCY + LATENCY
    <3>1. a % PERIOD \notin 1 .. 2 * LATENCY - 1
      BY <2>1 DEF InStep
    <3>2. 2 * LATENCY = LATENCY + LATENCY
      BY <1>1
    <3> HIDE DEF a
    <3> QED
      BY <1>1, <2>4, <3>1, <3>2
  <2>7. a % PERIOD = 0 => HalfOpen
    BY <2>1 DEF HalfOpen
  <2> DEFINE r == a % PERIOD
             m == i * PERIOD
  <2>8. r \in Nat /\ r < PERIOD /\ m \in Nat /\ a = m + r /\ b \in Nat
    <3>1. m \in Nat /\ b \in Nat
      BY <1>1, <2>3
    <3> QED
      BY <1>1, <2>4, <2>5, <3>1
  <2>9. Lead + LATENCY = a
    OBVIOUS
  <2>10. m \in Multiple
    BY DEF Multiple
  <2>11. (m < b => m + PERIOD <= b) /\ (b < m => b + PERIOD <= m)
    BY <2>1, <2>10, Multiples
  <2> HIDE DEF a, r, m
  <2>12. CASE m < b
    BY <2>8, <2>11, <2>12, <1>1
  <2>13. CASE b < m
    BY <2>8, <2>9, <2>11, <2>13, <1>1, <1>6
  <2>14. CASE b = m
    BY <2>6, <2>7, <2>8, <2>9, <2>14, <1>1, <1>6 DEF r
  <2> QED
    BY <2>8, <2>12, <2>13, <2>14
<1>8. Clear(d, HalfOpen) /\ Clear(CYCLE - d, HalfOpen)
  <2>1. CASE 2 * d <= CYCLE
    <3>1. CYCLE - d >= SPW_DELAY /\ CYCLE - d \in Nat
      BY <1>1, <1>5, <2>1
    <3>2. Clear(CYCLE - d, HalfOpen)
      BY <1>1, <3>1 DEF Clear
    <3> QED
      BY <1>4, <1>7, <2>1, <3>2
  <2>2. CASE ~(2 * d <= CYCLE)
    <3>1. d >= SPW_DELAY
      BY <1>1, <1>5, <2>2
    <3>2. Clear(d, HalfOpen)
      BY <1>1, <1>5, <3>1 DEF Clear
    <3> QED
      BY <1>4, <1>7, <2>2, <3>2
  <2> QED
    BY <2>1, <2>2
<1> QED
  BY <1>3, <1>5, <1>8, FarAlways

LEMMA HalfIsLong ==
  ASSUME Timing, offset \in Nat, HalfOpen
  PROVE  LATENCY + LATENCY < SPW_DELAY
<1> DEFINE a == Lead + LATENCY
           d == offset % CYCLE
<1>1. /\ SPW_DELAY \in Nat /\ PERIOD \in Nat /\ LATENCY \in Nat
      /\ LATENCY >= 1 /\ LATENCY + LATENCY < PERIOD /\ CYCLE \in Nat /\ CYCLE >= 1
  BY Scale
<1>2. d \in 0 .. CYCLE - 1
  BY <1>1, Division
<1>3. Lead = IF 2 * d <= CYCLE THEN d ELSE CYCLE - d
  BY DEF Lead
<1> HIDE DEF d
<1>4. a \in Nat /\ a >= 1
  BY <1>1, <1>2, <1>3
<1>5. a < SPW_DELAY /\ a % PERIOD = 0
  BY DEF HalfOpen
<1> HIDE DEF a
<1>6. PICK q \in Nat : a = q * PERIOD + (a % PERIOD)
  <2>1. PERIOD \in Nat \ {0}
    BY <1>1
  <2> QED
    BY <1>4, <2>1, Division
<1>7. q >= 1
  BY <1>1, <1>4, <1>5, <1>6
<1>8. q * PERIOD >= PERIOD
  BY <1>1, <1>7
<1> QED
  BY <1>1, <1>4, <1>5, <1>6, <1>8

-----------------------------------------------------------------------------
(***************************************************************************)
(* Two devices that do not meet.                                           *)
(*                                                                         *)
(* A device of which the other sees nothing goes round: each has a clock,  *)
(* 0 when it enters STARTED and CYCLE when it does so again.  CONNECTING   *)
(* starts the clock anew.                                                  *)
(***************************************************************************)

Waiting == {"DOWN", "ERROR_RESET", "ERROR_WAIT", "STARTED", "CONNECTING"}

\* The event that ends state p, when it does so, and when p began.
NextMove(p) == CASE p = "ERROR_RESET" -> "ErrorWait" [] p = "ERROR_WAIT" -> "Ready"
                 [] OTHER -> "ErrorReset"
EndOf(p) == CASE p = "ERROR_RESET" -> SPW_DELAY + SPW_HALF_DELAY [] p = "ERROR_WAIT" -> CYCLE
              [] OTHER -> SPW_DELAY
BeginOf(p) == CASE p = "ERROR_RESET" -> SPW_DELAY
                [] p = "ERROR_WAIT" -> SPW_DELAY + SPW_HALF_DELAY
                [] OTHER -> 0

\* In what follows n is in state p with clock x, the other in q with clock y.

\* The clock of n is right.
On(c, p, x, n) ==
  /\ p \in Waiting /\ x \in Int
  /\ p # "DOWN" => x >= BeginOf(p)
  /\ Has(c, NextMove(p), n, EndOf(p) - x)

\* n sends NULLs in STARTED, at the multiples.
SendsNulls(c, p, x, n) ==
  \A t : Has(c, "SendNull", n, t) => p = "STARTED" /\ x + t \in Multiple

\* The NULLs of n that are on the way.
NullsOf(c, p, x, n) ==
  \A t : Has(c, "ReceiveNull", Peer(n), t) =>
    /\ t <= LATENCY
    /\ \/ /\ p \in {"STARTED", "ERROR_RESET"}
          /\ (x + t) - LATENCY \in Multiple /\ (x + t) - LATENCY <= SPW_DELAY
       \/ p = "CONNECTING" /\ x + t <= LATENCY

\* Its FCTs find the other in no state in which they matter, now or later.
FctsOf(c, p, q, x, n) ==
  \A t : Has(c, "ReceiveFCT", Peer(n), t) =>
    /\ t <= LATENCY /\ q # "CONNECTING"
    /\ \/ p = "CONNECTING"
       \/ /\ p = "ERROR_RESET" /\ (x + t) - LATENCY <= SPW_DELAY
          /\ \A u : ~Has(c, "ReceiveNull", Peer(n), u)

\* Of the two at most one is in CONNECTING, and will be: the NULLs of the one that is
\* arrive when the other is not in STARTED.
Harmless(c, p, q, y, n) ==
  p = "CONNECTING" =>
    /\ q # "CONNECTING"
    /\ \A t : Has(c, "ReceiveNull", Peer(n), t) =>
         /\ q = "STARTED" => SPW_DELAY - y <= t
         /\ q = "ERROR_WAIT" => t < CYCLE - y

\* The timeout of n comes before a NULL of that instant.
InTime(c, n) == \A t : ~Precedes(c, "ReceiveNull", "ErrorReset", n, t)

\* A NULL that arrives when n enters STARTED does so before n sends one.
AtOnce(c, p, x, n) ==
  p = "STARTED" /\ x = 0 /\ Has(c, "ReceiveNull", n, 0) =>
    /\ ~Precedes(c, "SendNull", "ReceiveNull", n, 0)
    /\ \A t : ~Has(c, "ReceiveNull", Peer(n), t)

Facts(c, p, q, x, y, n, half) ==
  /\ SendsNulls(c, p, x, n) /\ NullsOf(c, p, x, n) /\ FctsOf(c, p, q, x, n)
  /\ Harmless(c, p, q, y, n) /\ InTime(c, n) /\ AtOnce(c, p, x, n)
  /\ FarApart(x - y, half)

\* As long as both are in STARTED, the first NULL of the one that is behind has not
\* arrived.
Behind(c, p, q, x, y, n) ==
  p = "STARTED" /\ q = "STARTED" /\ y > x =>
    \/ x = 0 /\ Has(c, "SendNull", n, 0)
    \/ Has(c, "ReceiveNull", Peer(n), LATENCY - x)

Side(c, p, q, x, y, n, half) ==
  On(c, p, x, n) /\ Facts(c, p, q, x, y, n, half) /\ Behind(c, p, q, x, y, n)

Apart(c, s, half) ==
  \E v \in [Node -> Int] :
    \A n \in Node : Side(c, s[n], s[Peer(n)], v[n], v[Peer(n)], n, half)

LEMMA ApartBy ==
  ASSUME NEW c, NEW s, NEW half, NEW n \in Node, NEW x \in Int, NEW y \in Int,
         Side(c, s[n], s[Peer(n)], x, y, n, half), Side(c, s[Peer(n)], s[n], y, x, Peer(n), half)
  PROVE  Apart(c, s, half)
<1> DEFINE v == [k \in Node |-> IF k = n THEN x ELSE y]
<1>1. /\ Peer(n) \in Node /\ Peer(n) # n /\ Peer(Peer(n)) = n
      /\ \A k \in Node : k = n \/ k = Peer(n)
  BY PeerType, PeerOfPeer
<1>2. v \in [Node -> Int] /\ v[n] = x /\ v[Peer(n)] = y
  BY <1>1
<1> HIDE DEF v
<1>3. ASSUME NEW k \in Node
      PROVE  Side(c, s[k], s[Peer(k)], v[k], v[Peer(k)], k, half)
  <2>1. CASE k = n
    BY <1>2, <2>1
  <2>2. CASE k = Peer(n)
    BY <1>1, <1>2, <2>2
  <2> QED
    BY <1>1, <2>1, <2>2
<1> QED
  BY <1>2, <1>3 DEF Apart

LEMMA HasTypes ==
  ASSUME NEW c, Calendar(c), NEW do, NEW n, NEW t, Has(c, do, n, t)
  PROVE  t \in Nat
BY CalendarTypes DEF Has

LEMMA States ==
  /\ \A p \in {"DOWN", "STARTED", "CONNECTING"} :
       NextMove(p) = "ErrorReset" /\ EndOf(p) = SPW_DELAY /\ BeginOf(p) = 0
  /\ NextMove("ERROR_RESET") = "ErrorWait" /\ EndOf("ERROR_RESET") = SPW_DELAY + SPW_HALF_DELAY
  /\ BeginOf("ERROR_RESET") = SPW_DELAY
  /\ NextMove("ERROR_WAIT") = "Ready" /\ EndOf("ERROR_WAIT") = CYCLE
  /\ BeginOf("ERROR_WAIT") = SPW_DELAY + SPW_HALF_DELAY
BY DEF NextMove, EndOf, BeginOf

\* Time passes.
LEMMA FactsLater ==
  ASSUME Timing, NEW c, NEW r, NEW h, Elapsed(c, r, h), NEW n \in Node, NEW p, NEW q,
         NEW x \in Int, NEW y \in Int, p = "STARTED" => x >= 0,
         NEW half, Facts(c, p, q, x, y, n, half)
  PROVE  Facts(r, p, q, x + h, y + h, n, half)
<1>1. /\ h \in Nat
      /\ \A do, m, t : Has(r, do, m, t) => t \in Nat /\ Has(c, do, m, t + h)
      /\ \A a, b, m, t : Precedes(r, a, b, m, t) => Precedes(c, a, b, m, t + h)
  BY DEF Elapsed
<1>2. SPW_DELAY \in Nat /\ LATENCY \in Nat /\ CYCLE \in Nat
  BY Scale
<1>3. /\ SendsNulls(c, p, x, n) /\ NullsOf(c, p, x, n) /\ FctsOf(c, p, q, x, n)
      /\ Harmless(c, p, q, y, n) /\ InTime(c, n) /\ AtOnce(c, p, x, n)
      /\ FarApart(x - y, half)
  BY DEF Facts
<1>4. SendsNulls(r, p, x + h, n)
  <2> SUFFICES ASSUME NEW t, Has(r, "SendNull", n, t)
               PROVE  p = "STARTED" /\ (x + h) + t \in Multiple
    BY DEF SendsNulls
  <2>1. t \in Nat /\ x + (t + h) = (x + h) + t
    BY <1>1
  <2> QED
    BY <1>1, <1>3, <2>1 DEF SendsNulls
<1>5. NullsOf(r, p, x + h, n)
  <2> SUFFICES ASSUME NEW t, Has(r, "ReceiveNull", Peer(n), t)
               PROVE  /\ t <= LATENCY
                      /\ \/ /\ p \in {"STARTED", "ERROR_RESET"}
                            /\ ((x + h) + t) - LATENCY \in Multiple
                            /\ ((x + h) + t) - LATENCY <= SPW_DELAY
                         \/ p = "CONNECTING" /\ (x + h) + t <= LATENCY
    BY DEF NullsOf
  <2>1. t \in Nat /\ x + (t + h) = (x + h) + t /\ (t + h <= LATENCY => t <= LATENCY)
    BY <1>1, <1>2
  <2>2. Has(c, "ReceiveNull", Peer(n), t + h)
    BY <1>1
  <2> QED
    BY <1>3, <2>1, <2>2 DEF NullsOf
<1>6. FctsOf(r, p, q, x + h, n)
  <2> SUFFICES ASSUME NEW t, Has(r, "ReceiveFCT", Peer(n), t)
               PROVE  /\ t <= LATENCY /\ q # "CONNECTING"
                      /\ \/ p = "CONNECTING"
                         \/ /\ p = "ERROR_RESET" /\ ((x + h) + t) - LATENCY <= SPW_DELAY
                            /\ \A u : ~Has(r, "ReceiveNull", Peer(n), u)
    BY DEF FctsOf
  <2>1. t \in Nat /\ x + (t + h) = (x + h) + t /\ (t + h <= LATENCY => t <= LATENCY)
    BY <1>1, <1>2
  <2>2. Has(c, "ReceiveFCT", Peer(n), t + h)
    BY <1>1
  <2>3. (\A u : ~Has(c, "ReceiveNull", Peer(n), u)) => \A u : ~Has(r, "ReceiveNull", Peer(n), u)
    BY <1>1
  <2> QED
    BY <1>3, <2>1, <2>2, <2>3 DEF FctsOf
<1>7. Harmless(r, p, q, y + h, n)
  <2> SUFFICES ASSUME p = "CONNECTING"
               PROVE  /\ q # "CONNECTING"
                      /\ \A t : Has(r, "ReceiveNull", Peer(n), t) =>
                           /\ q = "STARTED" => SPW_DELAY - (y + h) <= t
                           /\ q = "ERROR_WAIT" => t < CYCLE - (y + h)
    BY DEF Harmless
  <2>1. q # "CONNECTING"
    BY <1>3 DEF Harmless
  <2>2. ASSUME NEW t, Has(r, "ReceiveNull", Peer(n), t)
        PROVE  /\ q = "STARTED" => SPW_DELAY - (y + h) <= t
               /\ q = "ERROR_WAIT" => t < CYCLE - (y + h)
    <3>1. t \in Nat /\ Has(c, "ReceiveNull", Peer(n), t + h)
      BY <1>1, <2>2
    <3>2. /\ q = "STARTED" => SPW_DELAY - y <= t + h
          /\ q = "ERROR_WAIT" => t + h < CYCLE - y
      BY <1>3, <3>1 DEF Harmless
    <3> QED
      BY <1>1, <1>2, <3>1, <3>2
  <2> QED
    BY <2>1, <2>2
<1>8. InTime(r, n)
  BY <1>1, <1>3 DEF InTime
<1>9. AtOnce(r, p, x + h, n)
  <2> SUFFICES ASSUME p = "STARTED", x + h = 0, Has(r, "ReceiveNull", n, 0)
               PROVE  /\ ~Precedes(r, "SendNull", "ReceiveNull", n, 0)
                      /\ \A t : ~Has(r, "ReceiveNull", Peer(n), t)
    BY DEF AtOnce
  <2>1. h = 0 /\ x = 0 /\ 0 + h = 0
    BY <1>1
  <2>2. Has(c, "ReceiveNull", n, 0)
    BY <1>1, <2>1
  <2> QED
    BY <1>1, <1>3, <2>1, <2>2 DEF AtOnce
<1>10. (x + h) - (y + h) = x - y
  BY <1>1
<1> QED
  BY <1>3, <1>4, <1>5, <1>6, <1>7, <1>8, <1>9, <1>10 DEF Facts

LEMMA OnLater ==
  ASSUME Timing, NEW c, NEW r, NEW h \in Nat, NEW n, NEW p, NEW x, On(c, p, x, n),
         Left(c, r, h, NextMove(p), n)
  PROVE  On(r, p, x + h, n)
<1>1. SPW_DELAY \in Nat /\ SPW_HALF_DELAY \in Nat /\ CYCLE \in Nat
  BY Scale
<1>2. EndOf(p) \in Nat /\ BeginOf(p) \in Nat
  BY <1>1, States DEF On, Waiting
<1>3. Has(r, NextMove(p), n, (EndOf(p) - x) - h)
  BY DEF On, Left
<1>4. (EndOf(p) - x) - h = EndOf(p) - (x + h)
  BY <1>2 DEF On
<1> QED
  BY <1>2, <1>3, <1>4 DEF On

LEMMA BehindLater ==
  ASSUME Timing, NEW c, NEW r, NEW h \in Nat, NEW n, NEW p, NEW q, NEW x \in Int, NEW y \in Int,
         Behind(c, p, q, x, y, n), p = "STARTED" => x >= 0,
         Left(c, r, h, "SendNull", n), Left(c, r, h, "ReceiveNull", Peer(n))
  PROVE  Behind(r, p, q, x + h, y + h, n)
<1> SUFFICES ASSUME p = "STARTED", q = "STARTED", y + h > x + h
             PROVE  \/ x + h = 0 /\ Has(r, "SendNull", n, 0)
                    \/ Has(r, "ReceiveNull", Peer(n), LATENCY - (x + h))
  BY DEF Behind
<1>1. y > x /\ LATENCY \in Nat
  BY Scale
<1>2. CASE x = 0 /\ Has(c, "SendNull", n, 0)
  <2>1. h = 0 /\ Has(r, "SendNull", n, 0 - h)
    BY <1>2 DEF Left
  <2> QED
    BY <1>2, <2>1
<1>3. CASE Has(c, "ReceiveNull", Peer(n), LATENCY - x)
  <2>1. Has(r, "ReceiveNull", Peer(n), (LATENCY - x) - h)
    BY <1>3 DEF Left
  <2>2. (LATENCY - x) - h = LATENCY - (x + h)
    BY <1>1
  <2> QED
    BY <2>1, <2>2
<1> QED
  BY <1>1, <1>2, <1>3 DEF Behind

\* Of the events that change the state of a device there is one.
LEMMA OneMove ==
  ASSUME NEW c, Tidy(c), NEW n, NEW a \in {"ErrorReset", "ErrorWait", "Ready"},
         NEW b \in {"ErrorReset", "ErrorWait", "Ready"}, NEW t, NEW u,
         Has(c, a, n, t), Has(c, b, n, u)
  PROVE  a = b /\ t = u
<1>1. PICK i \in 1 .. Len(c) : c[i].do = a /\ c[i].dev = n /\ c[i].in = t
  BY DEF Has
<1>2. PICK j \in 1 .. Len(c) : c[j].do = b /\ c[j].dev = n /\ c[j].in = u
  BY DEF Has
<1>3. /\ Kind(c[i]) \in Chain /\ Kind(c[j]) \in Chain
  BY <1>1, <1>2 DEF Kind, Chain
<1>4. /\ Kind(c[i]) \in Own /\ Class(Kind(c[i])) = Class(Kind(c[j]))
  BY <1>3 DEF Own, Class
<1>5. i = j
  BY <1>1, <1>2, <1>4 DEF Tidy
<1> QED
  BY <1>1, <1>2, <1>5

-----------------------------------------------------------------------------
(***************************************************************************)
(* The handlers keep them apart.                                           *)
(***************************************************************************)

\* The handlers add events of their own device, and NULLs and FCTs to the other.
Usual(E, n) ==
  \A do, m, t : <<do, m, t>> \in E =>
    \/ m = n /\ do \notin {"ReceiveNull", "ReceiveFCT"}
    \/ m = Peer(n) /\ do \in {"ReceiveNull", "ReceiveFCT"} /\ t = LATENCY

LEMMA UsualEvents ==
  ASSUME NEW n \in Node
  PROVE  /\ Usual({<<"ErrorWait", n, SPW_HALF_DELAY>>}, n)
         /\ Usual({<<"Ready", n, SPW_DELAY>>}, n)
         /\ Usual({<<"ErrorReset", n, SPW_DELAY>>, <<"SendNull", n, 0>>}, n)
         /\ Usual({<<"ErrorReset", n, SPW_DELAY>>, <<"SendFCT", n, 0>>}, n)
         /\ Usual({<<"ReceiveNull", Peer(n), LATENCY>>, <<"SendNull", n, PERIOD>>}, n)
         /\ Usual({<<"ReceiveFCT", Peer(n), LATENCY>>, <<"SendFCT", n, PERIOD>>}, n)
         /\ Usual({}, n)
BY DEF Usual

\* What a handler of n means for the other device, m.
LEMMA PeerSide ==
  ASSUME Timing, NEW n \in Node, NEW m \in Node, m = Peer(n), NEW r, NEW s, NEW E,
         Changes(r, s, n, E), Usual(E, n),
         NEW p, NEW q, NEW x, NEW y, NEW half, Facts(r, q, p, y, x, m, half), On(r, q, y, m),
         NEW p1, NEW x1, Harmless(s, q, p1, x1, m), FarApart(y - x1, half),
         p1 = "CONNECTING" => \A t : ~Has(r, "ReceiveFCT", n, t)
  PROVE  On(s, q, y, m) /\ Facts(s, q, p1, y, x1, m, half)
<1>1. Peer(m) = n /\ m # n /\ LATENCY \in Nat /\ LATENCY >= 1
  BY PeerType, PeerOfPeer, Scale
<1>2. /\ \A do, k, t : Has(s, do, k, t) => Has(r, do, k, t) \/ <<do, k, t>> \in E
      /\ \A do, t : Has(r, do, m, t) => Has(s, do, m, t)
      /\ \A a, b, k, t : Precedes(s, a, b, k, t) =>
           Precedes(r, a, b, k, t) \/ <<b, k, t>> \in E
  BY <1>1, Changed
<1>3. /\ \A t : <<"SendNull", m, t>> \notin E /\ <<"ErrorReset", m, t>> \notin E
      /\ \A t : <<"ReceiveNull", n, t>> \notin E /\ <<"ReceiveFCT", n, t>> \notin E
      /\ <<"ReceiveNull", m, 0>> \notin E
  BY <1>1 DEF Usual
<1>4. /\ \A t : Has(s, "SendNull", m, t) => Has(r, "SendNull", m, t)
      /\ \A t : Has(s, "ReceiveNull", n, t) => Has(r, "ReceiveNull", n, t)
      /\ \A t : Has(s, "ReceiveFCT", n, t) => Has(r, "ReceiveFCT", n, t)
      /\ Has(s, "ReceiveNull", m, 0) => Has(r, "ReceiveNull", m, 0)
      /\ \A t : Precedes(s, "ReceiveNull", "ErrorReset", m, t) =>
           Precedes(r, "ReceiveNull", "ErrorReset", m, t)
      /\ Precedes(s, "SendNull", "ReceiveNull", m, 0) =>
           Precedes(r, "SendNull", "ReceiveNull", m, 0)
  BY <1>2, <1>3
<1>5. On(s, q, y, m)
  BY <1>2 DEF On
<1>6. /\ SendsNulls(r, q, y, m) /\ NullsOf(r, q, y, m) /\ FctsOf(r, q, p, y, m)
      /\ InTime(r, m) /\ AtOnce(r, q, y, m)
  BY DEF Facts
<1>7. SendsNulls(s, q, y, m)
  BY <1>4, <1>6 DEF SendsNulls
<1>8. NullsOf(s, q, y, m)
  BY <1>1, <1>4, <1>6 DEF NullsOf
<1>9. FctsOf(s, q, p1, y, m)
  BY <1>1, <1>4, <1>6 DEF FctsOf
<1>10. InTime(s, m)
  BY <1>4, <1>6 DEF InTime
<1>11. AtOnce(s, q, y, m)
  BY <1>1, <1>4, <1>6 DEF AtOnce
<1> QED
  BY <1>5, <1>7, <1>8, <1>9, <1>10, <1>11 DEF Facts

LEMMA ErrorResetApart ==
  ASSUME Timing, NEW n \in Node, NEW m \in Node, m = Peer(n), NEW r, NEW s, Calendar(r),
         Changes(r, s, n, {<<"ErrorWait", n, SPW_HALF_DELAY>>}),
         NEW p \in {"DOWN", "STARTED", "CONNECTING"}, NEW q, NEW x, x = SPW_DELAY, NEW y \in Int,
         NEW half, Facts(r, p, q, x, y, n, half), Facts(r, q, p, y, x, m, half), On(r, q, y, m),
         \A t : ~Has(s, "SendNull", n, t)
  PROVE  /\ Side(s, "ERROR_RESET", q, x, y, n, half)
         /\ Side(s, q, "ERROR_RESET", y, x, m, half)
<1> DEFINE E == {<<"ErrorWait", n, SPW_HALF_DELAY>>}
<1>1. /\ Peer(m) = n /\ m # n /\ SPW_DELAY \in Nat /\ SPW_HALF_DELAY \in Nat
      /\ LATENCY \in Nat /\ LATENCY < SPW_DELAY
  BY PeerType, PeerOfPeer, Scale
<1>2. Usual(E, n) /\ Changes(r, s, n, E) /\ <<"ErrorWait", n, SPW_HALF_DELAY>> \in E
  BY UsualEvents
<1> HIDE DEF E
<1>3. /\ \A do, k, t : Has(s, do, k, t) => Has(r, do, k, t) \/ <<do, k, t>> \in E
      /\ \A a, b, k, t : Precedes(s, a, b, k, t) => Precedes(r, a, b, k, t) \/ <<b, k, t>> \in E
      /\ Has(s, "ErrorWait", n, SPW_HALF_DELAY)
  BY <1>2, Changed
<1>4. /\ \A k, t : Has(s, "ReceiveNull", k, t) => Has(r, "ReceiveNull", k, t)
      /\ \A k, t : Has(s, "ReceiveFCT", k, t) => Has(r, "ReceiveFCT", k, t)
      /\ \A t : ~Precedes(s, "ReceiveNull", "ErrorReset", n, t)
                \/ Precedes(r, "ReceiveNull", "ErrorReset", n, t)
  BY <1>3 DEF E
<1>5. /\ NullsOf(r, p, x, n) /\ FctsOf(r, p, q, x, n) /\ InTime(r, n) /\ FarApart(x - y, half)
      /\ Harmless(r, q, p, x, m) /\ FarApart(y - x, half)
  BY DEF Facts
<1>6. On(s, "ERROR_RESET", x, n)
  <2>1. EndOf("ERROR_RESET") - x = SPW_HALF_DELAY
    BY <1>1, States
  <2> QED
    BY <1>1, <1>3, <2>1, States DEF On, Waiting
<1>7. NullsOf(s, "ERROR_RESET", x, n)
  <2> SUFFICES ASSUME NEW t, Has(r, "ReceiveNull", m, t)
               PROVE  /\ t <= LATENCY
                      /\ (x + t) - LATENCY \in Multiple /\ (x + t) - LATENCY <= SPW_DELAY
    BY <1>4 DEF NullsOf
  <2>1. t \in Nat
    BY HasTypes
  <2>2. ~(x + t <= LATENCY)
    BY <1>1, <2>1
  <2> QED
    BY <1>5, <2>2 DEF NullsOf
<1>8. FctsOf(s, "ERROR_RESET", q, x, n)
  <2> SUFFICES ASSUME NEW t, Has(r, "ReceiveFCT", m, t)
               PROVE  /\ t <= LATENCY /\ q # "CONNECTING"
                      /\ (x + t) - LATENCY <= SPW_DELAY
                      /\ \A u : ~Has(s, "ReceiveNull", m, u)
    BY <1>4 DEF FctsOf
  <2>1. t \in Nat
    BY HasTypes
  <2>2. t <= LATENCY /\ q # "CONNECTING" /\ p = "CONNECTING"
    BY <1>5 DEF FctsOf
  <2>3. ASSUME NEW u, Has(s, "ReceiveNull", m, u) PROVE FALSE
    <3>1. Has(r, "ReceiveNull", m, u) /\ u \in Nat
      BY <1>4, <2>3, HasTypes
    <3>2. x + u <= LATENCY
      BY <1>5, <2>2, <3>1 DEF NullsOf
    <3> QED
      BY <1>1, <3>1, <3>2
  <2> QED
    BY <1>1, <2>1, <2>2, <2>3
<1>9. Facts(s, "ERROR_RESET", q, x, y, n, half)
  <2>1. SendsNulls(s, "ERROR_RESET", x, n)
    BY DEF SendsNulls
  <2>2. Harmless(s, "ERROR_RESET", q, y, n) /\ AtOnce(s, "ERROR_RESET", x, n)
    BY DEF Harmless, AtOnce
  <2>3. InTime(s, n)
    BY <1>4, <1>5 DEF InTime
  <2> QED
    BY <1>5, <1>7, <1>8, <2>1, <2>2, <2>3 DEF Facts
<1>10. Harmless(s, q, "ERROR_RESET", x, m)
  BY DEF Harmless
<1>11. On(s, q, y, m) /\ Facts(s, q, "ERROR_RESET", y, x, m, half)
  BY <1>2, <1>5, <1>10, PeerSide
<1>12. Behind(s, "ERROR_RESET", q, x, y, n) /\ Behind(s, q, "ERROR_RESET", y, x, m)
  BY DEF Behind
<1> QED
  BY <1>6, <1>9, <1>11, <1>12 DEF Side

LEMMA ErrorWaitApart ==
  ASSUME Timing, NEW n \in Node, NEW m \in Node, m = Peer(n), NEW r, NEW s, Calendar(r),
         Changes(r, s, n, {<<"Ready", n, SPW_DELAY>>}),
         NEW q, NEW x, x = SPW_DELAY + SPW_HALF_DELAY, NEW y \in Int,
         NEW half, Facts(r, "ERROR_RESET", q, x, y, n, half),
         Facts(r, q, "ERROR_RESET", y, x, m, half), On(r, q, y, m)
  PROVE  /\ Side(s, "ERROR_WAIT", q, x, y, n, half)
         /\ Side(s, q, "ERROR_WAIT", y, x, m, half)
<1> DEFINE E == {<<"Ready", n, SPW_DELAY>>}
<1>1. /\ Peer(m) = n /\ m # n /\ SPW_DELAY \in Nat /\ SPW_HALF_DELAY \in Nat
      /\ LATENCY \in Nat /\ LATENCY < SPW_DELAY /\ LATENCY < SPW_HALF_DELAY
      /\ CYCLE - x = SPW_DELAY
  BY PeerType, PeerOfPeer, Scale
<1>2. Usual(E, n) /\ Changes(r, s, n, E) /\ <<"Ready", n, SPW_DELAY>> \in E
  BY UsualEvents
<1> HIDE DEF E
<1>3. /\ \A do, k, t : Has(s, do, k, t) => Has(r, do, k, t) \/ <<do, k, t>> \in E
      /\ \A a, b, k, t : Precedes(s, a, b, k, t) => Precedes(r, a, b, k, t) \/ <<b, k, t>> \in E
      /\ Has(s, "Ready", n, SPW_DELAY)
  BY <1>2, Changed
<1>4. /\ \A k, t : Has(s, "ReceiveNull", k, t) => Has(r, "ReceiveNull", k, t)
      /\ \A k, t : Has(s, "ReceiveFCT", k, t) => Has(r, "ReceiveFCT", k, t)
      /\ \A t : Has(s, "SendNull", n, t) => Has(r, "SendNull", n, t)
      /\ \A t : ~Precedes(s, "ReceiveNull", "ErrorReset", n, t)
                \/ Precedes(r, "ReceiveNull", "ErrorReset", n, t)
  BY <1>3 DEF E
<1>5. /\ SendsNulls(r, "ERROR_RESET", x, n) /\ NullsOf(r, "ERROR_RESET", x, n)
      /\ FctsOf(r, "ERROR_RESET", q, x, n) /\ InTime(r, n) /\ FarApart(x - y, half)
      /\ NullsOf(r, q, y, m) /\ FarApart(y - x, half)
  BY DEF Facts
<1>6. On(s, "ERROR_WAIT", x, n)
  BY <1>1, <1>3, States DEF On, Waiting
<1>7. ASSUME NEW t, Has(r, "ReceiveNull", m, t) PROVE FALSE
  <2>1. t \in Nat
    BY <1>7, HasTypes
  <2>2. (x + t) - LATENCY <= SPW_DELAY
    BY <1>5, <1>7 DEF NullsOf
  <2> QED
    BY <1>1, <2>1, <2>2
<1>8. ASSUME NEW t, Has(r, "ReceiveFCT", m, t) PROVE FALSE
  <2>1. t \in Nat
    BY <1>8, HasTypes
  <2>2. (x + t) - LATENCY <= SPW_DELAY
    BY <1>5, <1>8 DEF FctsOf
  <2> QED
    BY <1>1, <2>1, <2>2
<1>9. Facts(s, "ERROR_WAIT", q, x, y, n, half)
  <2>1. SendsNulls(s, "ERROR_WAIT", x, n)
    BY <1>4, <1>5 DEF SendsNulls
  <2>2. Harmless(s, "ERROR_WAIT", q, y, n) /\ AtOnce(s, "ERROR_WAIT", x, n)
    BY DEF Harmless, AtOnce
  <2>3. InTime(s, n)
    BY <1>4, <1>5 DEF InTime
  <2>4. NullsOf(s, "ERROR_WAIT", x, n) /\ FctsOf(s, "ERROR_WAIT", q, x, n)
    BY <1>4, <1>7, <1>8 DEF NullsOf, FctsOf
  <2> QED
    BY <1>5, <2>1, <2>2, <2>3, <2>4 DEF Facts
<1>10. Harmless(s, q, "ERROR_WAIT", x, m)
  <2>1. ASSUME NEW t, Has(s, "ReceiveNull", n, t) PROVE t < CYCLE - x
    <3>1. t <= LATENCY /\ t \in Nat
      BY <1>1, <1>4, <1>5, <2>1, HasTypes DEF NullsOf
    <3> QED
      BY <1>1, <3>1
  <2> QED
    BY <1>1, <2>1 DEF Harmless
<1>11. On(s, q, y, m) /\ Facts(s, q, "ERROR_WAIT", y, x, m, half)
  BY <1>2, <1>5, <1>10, PeerSide
<1>12. Behind(s, "ERROR_WAIT", q, x, y, n) /\ Behind(s, q, "ERROR_WAIT", y, x, m)
  BY DEF Behind
<1> QED
  BY <1>6, <1>9, <1>11, <1>12 DEF Side

LEMMA ReadyApart ==
  ASSUME Timing, NEW n \in Node, NEW m \in Node, m = Peer(n), NEW r, NEW s, Calendar(r),
         Changes(r, s, n, {<<"ErrorReset", n, SPW_DELAY>>, <<"SendNull", n, 0>>}),
         NEW q, NEW x, x = CYCLE, NEW y \in Int,
         NEW half, Facts(r, "ERROR_WAIT", q, x, y, n, half),
         Facts(r, q, "ERROR_WAIT", y, x, m, half), On(r, q, y, m)
  PROVE  /\ Side(s, "STARTED", q, 0, y, n, half)
         /\ Side(s, q, "STARTED", y, 0, m, half)
<1> DEFINE E == {<<"ErrorReset", n, SPW_DELAY>>, <<"SendNull", n, 0>>}
<1>1. /\ Peer(m) = n /\ m # n /\ SPW_DELAY \in Nat /\ CYCLE \in Nat
      /\ LATENCY \in Nat /\ LATENCY < SPW_DELAY
  BY PeerType, PeerOfPeer, Scale
<1>2. Usual(E, n) /\ Changes(r, s, n, E) /\ <<"ErrorReset", n, SPW_DELAY>> \in E /\ <<"SendNull", n, 0>> \in E
  BY UsualEvents
<1> HIDE DEF E
<1>3. /\ \A do, k, t : Has(s, do, k, t) => Has(r, do, k, t) \/ <<do, k, t>> \in E
      /\ \A a, b, k, t : Precedes(s, a, b, k, t) =>
           \/ Precedes(r, a, b, k, t)
           \/ <<b, k, t>> \in E /\ (Has(r, a, k, t) \/ <<a, k, t>> \in E)
      /\ Has(s, "ErrorReset", n, SPW_DELAY) /\ Has(s, "SendNull", n, 0)
  BY <1>2, Changed
<1>4. /\ \A k, t : Has(s, "ReceiveNull", k, t) => Has(r, "ReceiveNull", k, t)
      /\ \A k, t : Has(s, "ReceiveFCT", k, t) => Has(r, "ReceiveFCT", k, t)
      /\ \A t : Has(s, "SendNull", n, t) => Has(r, "SendNull", n, t) \/ t = 0
      /\ \A t : Precedes(s, "ReceiveNull", "ErrorReset", n, t) =>
           \/ Precedes(r, "ReceiveNull", "ErrorReset", n, t)
           \/ t = SPW_DELAY /\ Has(r, "ReceiveNull", n, t)
      /\ Precedes(s, "SendNull", "ReceiveNull", n, 0) =>
           Precedes(r, "SendNull", "ReceiveNull", n, 0)
  BY <1>3 DEF E
<1>5. /\ SendsNulls(r, "ERROR_WAIT", x, n) /\ NullsOf(r, "ERROR_WAIT", x, n)
      /\ FctsOf(r, "ERROR_WAIT", q, x, n) /\ InTime(r, n) /\ FarApart(x - y, half)
      /\ NullsOf(r, q, y, m) /\ FarApart(y - x, half) /\ Harmless(r, q, "ERROR_WAIT", x, m)
  BY DEF Facts
<1>6. On(s, "STARTED", 0, n)
  BY <1>1, <1>3, States DEF On, Waiting
<1>7. (\A t : ~Has(r, "ReceiveNull", m, t)) /\ \A t : ~Has(r, "ReceiveFCT", m, t)
  BY <1>5 DEF NullsOf, FctsOf
<1>8. FarApart(0 - y, half) /\ FarApart(y - 0, half)
  <2>1. FarApart((x - y) - CYCLE, half) /\ FarApart((y - x) + CYCLE, half)
    BY <1>1, <1>5, FarShift
  <2>2. (x - y) - CYCLE = 0 - y /\ (y - x) + CYCLE = y - 0
    BY <1>1
  <2> QED
    BY <2>1, <2>2
<1>9. Facts(s, "STARTED", q, 0, y, n, half)
  <2>1. SendsNulls(s, "STARTED", 0, n)
    <3>1. \A t : Has(s, "SendNull", n, t) => t = 0
      BY <1>4, <1>5 DEF SendsNulls
    <3>2. 0 + 0 \in Multiple
      BY Multiples
    <3> QED
      BY <3>1, <3>2 DEF SendsNulls
  <2>2. Harmless(s, "STARTED", q, y, n)
    BY DEF Harmless
  <2>3. AtOnce(s, "STARTED", 0, n)
    <3>1. ~Precedes(r, "SendNull", "ReceiveNull", n, 0)
      <4>1. Precedes(r, "SendNull", "ReceiveNull", n, 0) => Has(r, "SendNull", n, 0)
        BY DEF Precedes, Has
      <4> QED
        BY <1>5, <4>1 DEF SendsNulls
    <3> QED
      BY <1>4, <1>7, <3>1 DEF AtOnce
  <2>4. InTime(s, n)
    <3>1. ~Has(r, "ReceiveNull", n, SPW_DELAY)
      BY <1>1, <1>5 DEF NullsOf
    <3> QED
      BY <1>4, <1>5, <3>1 DEF InTime
  <2>5. NullsOf(s, "STARTED", 0, n) /\ FctsOf(s, "STARTED", q, 0, n)
    BY <1>4, <1>7 DEF NullsOf, FctsOf
  <2> QED
    BY <1>8, <2>1, <2>2, <2>3, <2>4, <2>5 DEF Facts
<1>10. Harmless(s, q, "STARTED", 0, m)
  <2>1. ASSUME q = "CONNECTING", NEW t, Has(s, "ReceiveNull", n, t) PROVE FALSE
    <3>1. t < CYCLE - x /\ t \in Nat
      BY <1>1, <1>4, <1>5, <2>1, HasTypes DEF Harmless
    <3> QED
      BY <1>1, <3>1
  <2> QED
    BY <1>1, <2>1 DEF Harmless
<1>11. On(s, q, y, m) /\ Facts(s, q, "STARTED", y, 0, m, half)
  BY <1>2, <1>8, <1>10, PeerSide
<1>12. Behind(s, "STARTED", q, 0, y, n)
  BY <1>3 DEF Behind
<1>13. Behind(s, q, "STARTED", y, 0, m)
  BY States DEF Behind, On
<1> QED
  BY <1>6, <1>9, <1>11, <1>12, <1>13 DEF Side

LEMMA SendNullApart ==
  ASSUME Timing, NEW n \in Node, NEW m \in Node, m = Peer(n), NEW r, NEW s, Calendar(r),
         Tidy(r), Grows(r, s, {<<"ReceiveNull", m, LATENCY>>, <<"SendNull", n, PERIOD>>}),
         NEW q, NEW x \in Int, NEW y \in Int, NEW half,
         Facts(r, "STARTED", q, x, y, n, half), Facts(r, q, "STARTED", y, x, m, half),
         On(r, "STARTED", x, n), On(r, q, y, m), x \in Multiple,
         x = 0 => ~Has(r, "ReceiveNull", n, 0),
         q = "STARTED" /\ y > x /\ x # 0 => Has(r, "ReceiveNull", m, LATENCY - x),
         Behind(r, q, "STARTED", y, x, m)
  PROVE  /\ Side(s, "STARTED", q, x, y, n, half)
         /\ Side(s, q, "STARTED", y, x, m, half)
<1> DEFINE E == {<<"ReceiveNull", m, LATENCY>>, <<"SendNull", n, PERIOD>>}
<1>1. /\ Peer(m) = n /\ m # n /\ SPW_DELAY \in Nat /\ PERIOD \in Nat
      /\ LATENCY \in Nat /\ LATENCY >= 1 /\ LATENCY < SPW_DELAY
  BY PeerType, PeerOfPeer, Scale
<1>2. /\ Usual(E, n) /\ Grows(r, s, E) /\ Changes(r, s, n, E)
      /\ <<"ReceiveNull", m, LATENCY>> \in E /\ <<"SendNull", n, PERIOD>> \in E
  BY UsualEvents, HandlerChanges
<1> HIDE DEF E
<1>3. /\ \A do, k, t : Has(s, do, k, t) <=> Has(r, do, k, t) \/ <<do, k, t>> \in E
      /\ \A a, b, k, t : Precedes(s, a, b, k, t) => Precedes(r, a, b, k, t) \/ <<b, k, t>> \in E
  BY <1>2 DEF Grows
<1>4. /\ \A t : Has(s, "ReceiveNull", m, t) <=> Has(r, "ReceiveNull", m, t) \/ t = LATENCY
      /\ \A t : Has(s, "ReceiveNull", n, t) <=> Has(r, "ReceiveNull", n, t)
      /\ \A k, t : Has(s, "ReceiveFCT", k, t) <=> Has(r, "ReceiveFCT", k, t)
      /\ \A t : Has(s, "SendNull", n, t) <=> Has(r, "SendNull", n, t) \/ t = PERIOD
      /\ \A t : Has(s, "SendNull", m, t) <=> Has(r, "SendNull", m, t)
      /\ \A t : Precedes(s, "ReceiveNull", "ErrorReset", n, t) =>
           Precedes(r, "ReceiveNull", "ErrorReset", n, t)
  BY <1>1, <1>3 DEF E
<1>5. /\ SendsNulls(r, "STARTED", x, n) /\ NullsOf(r, "STARTED", x, n)
      /\ FctsOf(r, "STARTED", q, x, n) /\ InTime(r, n) /\ FarApart(x - y, half)
      /\ FarApart(y - x, half) /\ Harmless(r, q, "STARTED", x, m)
  BY DEF Facts
<1>6. On(s, "STARTED", x, n)
  BY <1>3 DEF On
<1>7. x <= SPW_DELAY
  <2>1. Has(r, "ErrorReset", n, SPW_DELAY - x)
    BY States DEF On
  <2>2. SPW_DELAY - x \in Nat
    BY <2>1, HasTypes
  <2> QED
    BY <1>1, <2>2
<1>8. Facts(s, "STARTED", q, x, y, n, half)
  <2>1. SendsNulls(s, "STARTED", x, n)
    BY <1>4, <1>5, Multiples DEF SendsNulls
  <2>2. Harmless(s, "STARTED", q, y, n)
    BY DEF Harmless
  <2>3. AtOnce(s, "STARTED", x, n)
    BY <1>4 DEF AtOnce
  <2>4. InTime(s, n)
    BY <1>4, <1>5 DEF InTime
  <2>5. NullsOf(s, "STARTED", x, n)
    <3>1. (x + LATENCY) - LATENCY = x
      BY <1>1
    <3> QED
      BY <1>1, <1>4, <1>5, <1>7, <3>1 DEF NullsOf
  <2>6. FctsOf(s, "STARTED", q, x, n)
    BY <1>4, <1>5 DEF FctsOf
  <2> QED
    BY <1>5, <2>1, <2>2, <2>3, <2>4, <2>5, <2>6 DEF Facts
<1>9. Harmless(s, q, "STARTED", x, m)
  BY <1>1, <1>4, <1>5 DEF Harmless
<1>10. On(s, q, y, m) /\ Facts(s, q, "STARTED", y, x, m, half)
  BY <1>2, <1>5, <1>9, PeerSide
<1>11. Behind(s, "STARTED", q, x, y, n)
  <2>1. x = 0 => Has(s, "ReceiveNull", m, LATENCY - x)
    BY <1>1, <1>4
  <2> QED
    BY <1>4, <2>1 DEF Behind
<1>12. Behind(s, q, "STARTED", y, x, m)
  BY <1>1, <1>4 DEF Behind
<1> QED
  BY <1>6, <1>8, <1>10, <1>11, <1>12 DEF Side

LEMMA SendFCTApart ==
  ASSUME Timing, NEW n \in Node, NEW m \in Node, m = Peer(n), NEW r, NEW s, Calendar(r),
         Tidy(r), Grows(r, s, {<<"ReceiveFCT", m, LATENCY>>, <<"SendFCT", n, PERIOD>>}),
         NEW q, NEW x \in Int, NEW y \in Int, NEW half,
         Facts(r, "CONNECTING", q, x, y, n, half), Facts(r, q, "CONNECTING", y, x, m, half),
         On(r, "CONNECTING", x, n), On(r, q, y, m)
  PROVE  /\ Side(s, "CONNECTING", q, x, y, n, half)
         /\ Side(s, q, "CONNECTING", y, x, m, half)
<1> DEFINE E == {<<"ReceiveFCT", m, LATENCY>>, <<"SendFCT", n, PERIOD>>}
<1>1. Peer(m) = n /\ m # n /\ LATENCY \in Nat
  BY PeerType, PeerOfPeer, Scale
<1>2. Usual(E, n) /\ Grows(r, s, E) /\ Changes(r, s, n, E)
  BY UsualEvents, HandlerChanges
<1> HIDE DEF E
<1>3. /\ \A do, k, t : Has(s, do, k, t) <=> Has(r, do, k, t) \/ <<do, k, t>> \in E
      /\ \A a, b, k, t : Precedes(s, a, b, k, t) => Precedes(r, a, b, k, t) \/ <<b, k, t>> \in E
  BY <1>2 DEF Grows
<1>4. /\ \A k, t : Has(s, "ReceiveNull", k, t) <=> Has(r, "ReceiveNull", k, t)
      /\ \A t : Has(s, "ReceiveFCT", m, t) <=> Has(r, "ReceiveFCT", m, t) \/ t = LATENCY
      /\ \A t : Has(s, "ReceiveFCT", n, t) <=> Has(r, "ReceiveFCT", n, t)
      /\ \A k, t : Has(s, "SendNull", k, t) <=> Has(r, "SendNull", k, t)
      /\ \A t : Precedes(s, "ReceiveNull", "ErrorReset", n, t) =>
           Precedes(r, "ReceiveNull", "ErrorReset", n, t)
  BY <1>1, <1>3 DEF E
<1>5. /\ SendsNulls(r, "CONNECTING", x, n) /\ NullsOf(r, "CONNECTING", x, n)
      /\ FctsOf(r, "CONNECTING", q, x, n) /\ InTime(r, n) /\ FarApart(x - y, half)
      /\ Harmless(r, "CONNECTING", q, y, n)
      /\ FarApart(y - x, half) /\ Harmless(r, q, "CONNECTING", x, m)
      /\ FctsOf(r, q, "CONNECTING", y, m)
  BY DEF Facts
<1>6. On(s, "CONNECTING", x, n)
  BY <1>3 DEF On
<1>7. Facts(s, "CONNECTING", q, x, y, n, half)
  <2>1. SendsNulls(s, "CONNECTING", x, n) /\ NullsOf(s, "CONNECTING", x, n)
    BY <1>4, <1>5 DEF SendsNulls, NullsOf
  <2>2. Harmless(s, "CONNECTING", q, y, n)
    BY <1>4, <1>5 DEF Harmless
  <2>3. AtOnce(s, "CONNECTING", x, n)
    BY DEF AtOnce
  <2>4. InTime(s, n)
    BY <1>4, <1>5 DEF InTime
  <2>5. FctsOf(s, "CONNECTING", q, x, n)
    <3>1. q # "CONNECTING"
      BY <1>5 DEF Harmless
    <3> QED
      BY <1>1, <1>4, <1>5, <3>1 DEF FctsOf
  <2> QED
    BY <1>5, <2>1, <2>2, <2>3, <2>4, <2>5 DEF Facts
<1>8. Harmless(s, q, "CONNECTING", x, m)
  BY <1>1, <1>4, <1>5 DEF Harmless
<1>9. \A t : ~Has(r, "ReceiveFCT", n, t)
  BY <1>1, <1>5 DEF FctsOf
<1>10. On(s, q, y, m) /\ Facts(s, q, "CONNECTING", y, x, m, half)
  BY <1>2, <1>5, <1>8, <1>9, PeerSide
<1>11. Behind(s, "CONNECTING", q, x, y, n) /\ Behind(s, q, "CONNECTING", y, x, m)
  BY DEF Behind
<1> QED
  BY <1>6, <1>7, <1>10, <1>11 DEF Side

\* A NULL arrives in STARTED.  Either those of n still to arrive find the other past
\* STARTED, or a NULL and an FCT are going to arrive there together.
LEMMA NullFinds ==
  ASSUME Timing, NEW n \in Node, NEW m \in Node, m = Peer(n), NEW r, Calendar(r),
         NEW q, NEW x \in Int, NEW y \in Int, NEW half,
         Facts(r, "STARTED", q, x, y, n, half), Facts(r, q, "STARTED", y, x, m, half),
         q = "STARTED", 0 <= x, x < SPW_DELAY,
         y - LATENCY \in Multiple,
         x = 0 => \A t : ~Has(r, "ReceiveNull", m, t),
         Behind(r, "STARTED", q, x, y, n), x > y => y <= LATENCY
  PROVE  \/ \A t : Has(r, "ReceiveNull", m, t) => SPW_DELAY - y <= t
         \/ /\ half /\ y = LATENCY /\ Has(r, "ReceiveNull", m, LATENCY)
            /\ \A t : Has(r, "ReceiveNull", m, t) => t = LATENCY
<1>1. /\ SPW_DELAY \in Nat /\ LATENCY \in Nat /\ LATENCY >= 1 /\ LATENCY < SPW_DELAY
  BY Scale
<1>2. /\ 0 \in Multiple /\ y - LATENCY \in Nat
  BY Multiples
<1>3. /\ NullsOf(r, "STARTED", x, n) /\ FarApart(x - y, half) /\ FarApart(y - x, half)
  BY DEF Facts
<1>4. ASSUME NEW t, Has(r, "ReceiveNull", m, t)
      PROVE  /\ t \in Nat /\ t <= LATENCY
             /\ (x + t) - LATENCY \in Multiple /\ (x + t) - LATENCY \in Nat
  BY <1>3, <1>4, HasTypes, Multiples DEF NullsOf
<1>5. CASE y > x
  <2>1. Clear(y - x, half)
    BY <1>3, <1>5, FarNow
  <2>2. CASE x = 0
    BY <2>2
  <2>3. CASE x # 0
    <3>1. Has(r, "ReceiveNull", m, LATENCY - x)
      BY <1>5, <2>3 DEF Behind
    <3>2. x <= LATENCY
      BY <1>1, <1>4, <3>1
    <3>3. (y - x) + LATENCY >= SPW_DELAY
      <4> SUFFICES ASSUME ~((y - x) + LATENCY >= SPW_DELAY) PROVE FALSE
        OBVIOUS
      <4>1. \/ (y - x) + LATENCY < y - LATENCY
            \/ y - x >= (y - LATENCY) + LATENCY
            \/ (y - x) + LATENCY = y - LATENCY
        BY <2>1 DEF Clear
      <4> QED
        BY <1>1, <1>2, <2>3, <3>2, <4>1
    <3>4. ASSUME NEW t, Has(r, "ReceiveNull", m, t) PROVE SPW_DELAY - y <= t
      <4>1. t \in Nat /\ (x + t) - LATENCY \in Nat
        BY <1>4, <3>4
      <4> QED
        BY <1>1, <3>3, <4>1
    <3> QED
      BY <3>4
  <2> QED
    BY <2>2, <2>3
<1>6. CASE y = x
  <2>1. x - y = 0
    BY <1>6
  <2>2. Clear(0, half)
    BY <1>3, <2>1, FarNow
  <2>3. \/ 0 + LATENCY >= SPW_DELAY \/ 0 + LATENCY < 0 \/ 0 >= 0 + LATENCY
        \/ 0 + LATENCY = 0
    BY <1>2, <2>2 DEF Clear
  <2> QED
    BY <1>1, <2>3
<1>7. CASE x > y
  <2>1. y = LATENCY
    BY <1>1, <1>2, <1>7
  <2>2. x - y \in Nat
    BY <1>7
  <2>3. Clear(x - y, half)
    BY <1>3, <2>2, FarNow
  <2>4. ASSUME NEW t, Has(r, "ReceiveNull", m, t)
        PROVE  half /\ t = LATENCY
    <3> DEFINE b == (x + t) - LATENCY
    <3>1. t \in Nat /\ t <= LATENCY /\ b \in Multiple /\ b \in Nat
      BY <1>4, <2>4
    <3>2. ~((x - y) + LATENCY >= SPW_DELAY)
      BY <1>1, <2>1
    <3>3. \/ (x - y) + LATENCY < b
          \/ x - y >= b + LATENCY
          \/ half /\ (x - y) + LATENCY = b
      BY <2>3, <3>1, <3>2 DEF Clear
    <3> QED
      BY <1>1, <2>1, <3>1, <3>3
  <2>5. CASE \E t : Has(r, "ReceiveNull", m, t)
    BY <2>1, <2>4, <2>5
  <2>6. CASE \A t : ~Has(r, "ReceiveNull", m, t)
    BY <2>6
  <2> QED
    BY <2>5, <2>6
<1> QED
  BY <1>5, <1>6, <1>7

LEMMA ReceiveNullApart ==
  ASSUME Timing, NEW n \in Node, NEW m \in Node, m = Peer(n), NEW r, NEW s, Calendar(r),
         Changes(r, s, n, {<<"ErrorReset", n, SPW_DELAY>>, <<"SendFCT", n, 0>>}),
         \A t : ~Has(s, "SendNull", n, t),
         NEW q \in {"STARTED", "ERROR_RESET"}, NEW x \in Int, NEW y \in Int, NEW half,
         Facts(r, "STARTED", q, x, y, n, half), Facts(r, q, "STARTED", y, x, m, half),
         On(r, q, y, m), y - LATENCY \in Multiple, y - LATENCY <= SPW_DELAY,
         \A t : ~Has(r, "ReceiveFCT", n, t),
         q = "STARTED" => \A t : Has(r, "ReceiveNull", m, t) => SPW_DELAY - y <= t
  PROVE  /\ Side(s, "CONNECTING", q, 0, y, n, half)
         /\ Side(s, q, "CONNECTING", y, 0, m, half)
<1> DEFINE E == {<<"ErrorReset", n, SPW_DELAY>>, <<"SendFCT", n, 0>>}
<1>1. /\ Peer(m) = n /\ m # n /\ SPW_DELAY \in Nat /\ SPW_HALF_DELAY \in Nat
      /\ LATENCY \in Nat /\ LATENCY < SPW_DELAY
  BY PeerType, PeerOfPeer, Scale
<1>2. /\ Usual(E, n) /\ Changes(r, s, n, E)
      /\ <<"ErrorReset", n, SPW_DELAY>> \in E /\ <<"SendFCT", n, 0>> \in E
  BY UsualEvents
<1> HIDE DEF E
<1>3. /\ \A do, k, t : Has(s, do, k, t) => Has(r, do, k, t) \/ <<do, k, t>> \in E
      /\ \A a, b, k, t : Precedes(s, a, b, k, t) =>
           \/ Precedes(r, a, b, k, t)
           \/ <<b, k, t>> \in E /\ (Has(r, a, k, t) \/ <<a, k, t>> \in E)
      /\ Has(s, "ErrorReset", n, SPW_DELAY)
  BY <1>2, Changed
<1>4. /\ \A k, t : Has(s, "ReceiveNull", k, t) => Has(r, "ReceiveNull", k, t)
      /\ \A k, t : Has(s, "ReceiveFCT", k, t) => Has(r, "ReceiveFCT", k, t)
      /\ \A t : Precedes(s, "ReceiveNull", "ErrorReset", n, t) =>
           \/ Precedes(r, "ReceiveNull", "ErrorReset", n, t)
           \/ t = SPW_DELAY /\ Has(r, "ReceiveNull", n, t)
  BY <1>3 DEF E
<1>5. /\ NullsOf(r, "STARTED", x, n) /\ FctsOf(r, "STARTED", q, x, n) /\ InTime(r, n)
      /\ NullsOf(r, q, y, m)
  BY DEF Facts
<1>6. On(s, "CONNECTING", 0, n)
  BY <1>1, <1>3, States DEF On, Waiting
<1>7. FarApart(0 - y, half) /\ FarApart(y - 0, half)
  <2> DEFINE u == y - LATENCY
  <2>1. u \in Multiple /\ u <= SPW_DELAY
    OBVIOUS
  <2>2. -(u + LATENCY) = 0 - y /\ u + LATENCY = y - 0
    BY <1>1
  <2> HIDE DEF u
  <2>3. FarApart(u + LATENCY, half) /\ FarApart(-(u + LATENCY), half)
    BY <2>1, FarAgain
  <2> QED
    BY <2>2, <2>3
<1>8. Harmless(s, "CONNECTING", q, y, n)
  BY <1>4 DEF Harmless
<1>9. Facts(s, "CONNECTING", q, 0, y, n, half)
  <2>1. SendsNulls(s, "CONNECTING", 0, n)
    BY DEF SendsNulls
  <2>2. NullsOf(s, "CONNECTING", 0, n)
    <3>1. ASSUME NEW t, Has(s, "ReceiveNull", m, t) PROVE t <= LATENCY /\ 0 + t <= LATENCY
      <4>1. Has(r, "ReceiveNull", m, t)
        BY <1>4, <3>1
      <4>2. t \in Nat
        BY <4>1, HasTypes
      <4>3. t <= LATENCY
        BY <1>5, <4>1 DEF NullsOf
      <4> QED
        BY <4>2, <4>3
    <3> QED
      BY <3>1 DEF NullsOf
  <2>3. FctsOf(s, "CONNECTING", q, 0, n)
    BY <1>4, <1>5 DEF FctsOf
  <2>4. InTime(s, n)
    <3>1. ~Has(r, "ReceiveNull", n, SPW_DELAY)
      BY <1>1, <1>5 DEF NullsOf
    <3> QED
      BY <1>4, <1>5, <3>1 DEF InTime
  <2>5. AtOnce(s, "CONNECTING", 0, n)
    BY DEF AtOnce
  <2> QED
    BY <1>7, <1>8, <2>1, <2>2, <2>3, <2>4, <2>5 DEF Facts
<1>10. Harmless(s, q, "CONNECTING", 0, m)
  BY DEF Harmless
<1>11. On(s, q, y, m) /\ Facts(s, q, "CONNECTING", y, 0, m, half)
  BY <1>2, <1>7, <1>10, PeerSide
<1>12. Behind(s, "CONNECTING", q, 0, y, n) /\ Behind(s, q, "CONNECTING", y, 0, m)
  BY DEF Behind
<1> QED
  BY <1>6, <1>9, <1>11, <1>12 DEF Side

-----------------------------------------------------------------------------
(***************************************************************************)
(* The next event of devices that do not meet.                             *)
(***************************************************************************)

LEMMA NotPending ==
  ASSUME NEW c, NEW n, NEW K, Only(c, n, K), NEW do \in Own \ {"Start", "ErrorReset"},
         do \notin K
  PROVE  \A t : ~Has(c, do, n, t)
<1> SUFFICES ASSUME NEW t, Has(c, do, n, t) PROVE FALSE
  OBVIOUS
<1>1. PICK i \in 1 .. Len(c) : c[i].do = do /\ c[i].dev = n
  BY DEF Has
<1>2. Kind(c[i]) = do
  BY <1>1 DEF Kind
<1> QED
  BY <1>1, <1>2 DEF Only

LEMMA Now ==
  ASSUME Timing, LinkTypes, ChainInv, NEW n \in Node, NEW m \in Node, m = Peer(n),
         NEW do, Runs(do, n), NEW p, NEW q, NEW v \in Int, NEW w \in Int, NEW half,
         Side(calendar, p, q, v, w, n, half), Side(calendar, q, p, w, v, m, half),
         NEW h, h = Head(calendar).in
  PROVE  /\ v + h \in Int /\ w + h \in Int /\ Calendar(Rest) /\ Tidy(Rest)
         /\ Facts(Rest, p, q, v + h, w + h, n, half) /\ Facts(Rest, q, p, w + h, v + h, m, half)
         /\ On(Rest, q, w + h, m)
         /\ do \notin {"ErrorReset", "ErrorWait", "Ready"} => On(Rest, p, v + h, n)
         /\ do \in {"ErrorReset", "ErrorWait", "Ready"} =>
              p \in Waiting /\ do = NextMove(p) /\ v + h = EndOf(p)
         /\ do # "SendNull" => Behind(Rest, p, q, v + h, w + h, n)
         /\ do # "ReceiveNull" => Behind(Rest, q, p, w + h, v + h, m)
<1>1. /\ Calendar(calendar) /\ calendar # <<>> /\ Tidy(calendar)
      /\ Head(calendar).dev = n /\ Head(calendar).do = do
      /\ Calendar(Rest) /\ Tidy(Rest) /\ Peer(m) = n /\ m # n
  BY HandlerFinds, PeerOfPeer
<1>2. /\ Elapsed(calendar, Rest, h)
      /\ \A a, k : a # do \/ k # n => Left(calendar, Rest, h, a, k)
      /\ Has(calendar, do, n, h)
  BY <1>1, RestElapsed
<1>3. h \in Nat
  BY <1>2 DEF Elapsed
<1>4. /\ On(calendar, p, v, n) /\ Facts(calendar, p, q, v, w, n, half)
      /\ Behind(calendar, p, q, v, w, n)
      /\ On(calendar, q, w, m) /\ Facts(calendar, q, p, w, v, m, half)
      /\ Behind(calendar, q, p, w, v, m)
  BY DEF Side
<1>5. (p = "STARTED" => v >= 0) /\ (q = "STARTED" => w >= 0)
  BY <1>4, States DEF On
<1>6. v + h \in Int /\ w + h \in Int
  BY <1>3
<1>7. /\ Facts(Rest, p, q, v + h, w + h, n, half)
      /\ Facts(Rest, q, p, w + h, v + h, m, half)
  BY <1>1, <1>2, <1>4, <1>5, FactsLater
<1>8. On(Rest, q, w + h, m)
  BY <1>1, <1>2, <1>3, <1>4, OnLater
<1>9. p \in Waiting /\ NextMove(p) \in {"ErrorReset", "ErrorWait", "Ready"}
  BY <1>4, States DEF On, Waiting
<1>10. ASSUME do \notin {"ErrorReset", "ErrorWait", "Ready"} PROVE On(Rest, p, v + h, n)
  BY <1>2, <1>3, <1>4, <1>9, <1>10, OnLater
<1>11. ASSUME do \in {"ErrorReset", "ErrorWait", "Ready"}
       PROVE  do = NextMove(p) /\ v + h = EndOf(p)
  <2>1. Has(calendar, NextMove(p), n, EndOf(p) - v)
    BY <1>4 DEF On
  <2>2. do = NextMove(p) /\ h = EndOf(p) - v
    BY <1>1, <1>2, <1>9, <1>11, <2>1, OneMove
  <2>3. EndOf(p) \in Int
    BY <1>9, States, Scale DEF Waiting
  <2> QED
    BY <1>3, <2>2, <2>3
<1>12. ASSUME do # "SendNull" PROVE Behind(Rest, p, q, v + h, w + h, n)
  <2>1. Left(calendar, Rest, h, "SendNull", n) /\ Left(calendar, Rest, h, "ReceiveNull", m)
    BY <1>1, <1>2, <1>12
  <2> QED
    BY <1>3, <1>4, <1>5, <2>1, BehindLater
<1>13. ASSUME do # "ReceiveNull" PROVE Behind(Rest, q, p, w + h, v + h, m)
  <2>1. Left(calendar, Rest, h, "SendNull", m) /\ Left(calendar, Rest, h, "ReceiveNull", n)
    BY <1>1, <1>2, <1>13
  <2> QED
    BY <1>1, <1>3, <1>4, <1>5, <2>1, BehindLater
<1> QED
  BY <1>1, <1>6, <1>7, <1>8, <1>9, <1>10, <1>11, <1>12, <1>13

LEMMA SendNullNow ==
  ASSUME Timing, LinkTypes, ChainInv, NEW n \in Node, NEW m \in Node, m = Peer(n),
         Runs("SendNull", n), NEW p, NEW q, NEW v \in Int, NEW w \in Int, NEW half,
         Side(calendar, p, q, v, w, n, half), NEW h, h = Head(calendar).in
  PROVE  /\ p = "STARTED" /\ v + h \in Multiple
         /\ v + h = 0 => ~Has(Rest, "ReceiveNull", n, 0)
         /\ q = "STARTED" /\ w + h > v + h /\ v + h # 0 =>
              Has(Rest, "ReceiveNull", m, LATENCY - (v + h))
<1>1. /\ Calendar(calendar) /\ calendar # <<>>
      /\ Head(calendar).dev = n /\ Head(calendar).do = "SendNull" /\ m # n
  BY HandlerFinds, PeerOfPeer
<1>2. /\ Elapsed(calendar, Rest, h) /\ Left(calendar, Rest, h, "ReceiveNull", m)
      /\ Has(calendar, "SendNull", n, h)
      /\ \A do, k, t : Has(calendar, do, k, t) => t \in Nat /\ h <= t
      /\ Has(calendar, "ReceiveNull", n, h) => Precedes(calendar, "SendNull", "ReceiveNull", n, h)
  BY <1>1, RestElapsed
<1>3. h \in Nat /\ LATENCY \in Nat
  BY <1>2, Scale DEF Elapsed
<1>4. /\ SendsNulls(calendar, p, v, n) /\ AtOnce(calendar, p, v, n)
      /\ On(calendar, p, v, n) /\ Behind(calendar, p, q, v, w, n)
  BY DEF Side, Facts
<1>5. p = "STARTED" /\ v + h \in Multiple
  BY <1>2, <1>4 DEF SendsNulls
<1>6. v >= 0
  BY <1>4, <1>5, States DEF On
<1>7. ASSUME v + h = 0, Has(Rest, "ReceiveNull", n, 0) PROVE FALSE
  <2>1. v = 0 /\ h = 0
    BY <1>3, <1>6, <1>7
  <2>2. Has(calendar, "ReceiveNull", n, 0 + h)
    BY <1>2, <1>7 DEF Elapsed
  <2>3. Has(calendar, "ReceiveNull", n, 0)
    BY <2>1, <2>2
  <2> QED
    BY <1>2, <1>4, <1>5, <2>1, <2>3 DEF AtOnce
<1>8. ASSUME q = "STARTED", w + h > v + h, v + h # 0
      PROVE  Has(Rest, "ReceiveNull", m, LATENCY - (v + h))
  <2>1. w > v
    BY <1>3, <1>8
  <2>2. ~(v = 0 /\ Has(calendar, "SendNull", n, 0))
    <3> SUFFICES ASSUME v = 0, Has(calendar, "SendNull", n, 0) PROVE FALSE
      OBVIOUS
    <3>1. h <= 0
      BY <1>2
    <3> QED
      BY <1>3, <1>8, <3>1
  <2>3. Has(calendar, "ReceiveNull", m, LATENCY - v)
    BY <1>4, <1>5, <1>8, <2>1, <2>2 DEF Behind
  <2>4. Has(Rest, "ReceiveNull", m, (LATENCY - v) - h)
    BY <1>2, <2>3 DEF Left
  <2>5. (LATENCY - v) - h = LATENCY - (v + h)
    BY <1>3
  <2> QED
    BY <2>4, <2>5
<1> QED
  BY <1>5, <1>7, <1>8

LEMMA ReceiveNullNow ==
  ASSUME Timing, LinkTypes, ChainInv, NEW n \in Node, NEW m \in Node, m = Peer(n),
         Runs("ReceiveNull", n), NEW q, NEW v \in Int, NEW w \in Int, NEW half,
         Side(calendar, "STARTED", q, v, w, n, half), Side(calendar, q, "STARTED", w, v, m, half),
         NEW h, h = Head(calendar).in
  PROVE  /\ q \in {"STARTED", "ERROR_RESET"}
         /\ (w + h) - LATENCY \in Multiple /\ (w + h) - LATENCY <= SPW_DELAY
         /\ 0 <= v + h /\ v + h < SPW_DELAY
         /\ \A t : ~Has(Rest, "ReceiveFCT", n, t)
         /\ v + h = 0 => \A t : ~Has(Rest, "ReceiveNull", m, t)
         /\ q = "STARTED" /\ v + h > w + h => w + h <= LATENCY
<1>1. /\ Calendar(calendar) /\ calendar # <<>>
      /\ Head(calendar).dev = n /\ Head(calendar).do = "ReceiveNull" /\ m # n /\ Peer(m) = n
  BY HandlerFinds, PeerOfPeer
<1>2. /\ Elapsed(calendar, Rest, h)
      /\ Has(calendar, "ReceiveNull", n, h)
      /\ \A do, k, t : Has(calendar, do, k, t) => t \in Nat /\ h <= t
      /\ Has(calendar, "ErrorReset", n, h) =>
           Precedes(calendar, "ReceiveNull", "ErrorReset", n, h)
  BY <1>1, RestElapsed
<1>3. h \in Nat /\ LATENCY \in Nat /\ SPW_DELAY \in Nat
  BY <1>2, Scale DEF Elapsed
<1>4. /\ On(calendar, "STARTED", v, n) /\ AtOnce(calendar, "STARTED", v, n)
      /\ InTime(calendar, n)
      /\ NullsOf(calendar, q, w, m) /\ FctsOf(calendar, q, "STARTED", w, m)
      /\ Harmless(calendar, q, "STARTED", v, m) /\ Behind(calendar, q, "STARTED", w, v, m)
  BY DEF Side, Facts
<1>5. v >= 0 /\ Has(calendar, "ErrorReset", n, SPW_DELAY - v)
  BY <1>4, States DEF On
<1>6. 0 <= v + h /\ v + h < SPW_DELAY
  <2>1. h <= SPW_DELAY - v
    BY <1>2, <1>5
  <2>2. h # SPW_DELAY - v
    BY <1>2, <1>4, <1>5 DEF InTime
  <2> QED
    BY <1>3, <1>5, <2>1, <2>2
<1>7. q # "CONNECTING"
  <2> SUFFICES ASSUME q = "CONNECTING" PROVE FALSE
    OBVIOUS
  <2>1. SPW_DELAY - v <= h
    BY <1>1, <1>2, <1>4 DEF Harmless
  <2> QED
    BY <1>3, <1>6, <2>1
<1>8. /\ q \in {"STARTED", "ERROR_RESET"}
      /\ (w + h) - LATENCY \in Multiple /\ (w + h) - LATENCY <= SPW_DELAY
  BY <1>1, <1>2, <1>4, <1>7 DEF NullsOf
<1>9. ASSUME NEW t, Has(Rest, "ReceiveFCT", n, t) PROVE FALSE
  <2>1. Has(calendar, "ReceiveFCT", n, t + h)
    BY <1>2, <1>9 DEF Elapsed
  <2> QED
    BY <1>1, <1>2, <1>4, <1>7, <2>1 DEF FctsOf
<1>10. ASSUME v + h = 0, NEW t, Has(Rest, "ReceiveNull", m, t) PROVE FALSE
  <2>1. v = 0 /\ h = 0
    BY <1>3, <1>5, <1>10
  <2>2. Has(calendar, "ReceiveNull", m, t + h)
    BY <1>2, <1>10 DEF Elapsed
  <2> QED
    BY <1>2, <1>4, <2>1, <2>2 DEF AtOnce
<1>11. ASSUME q = "STARTED", v + h > w + h PROVE w + h <= LATENCY
  <2>1. v > w
    BY <1>3, <1>11
  <2>2. CASE w = 0 /\ Has(calendar, "SendNull", m, 0)
    <3>1. h <= 0
      BY <1>2, <2>2
    <3> QED
      BY <1>3, <2>2, <3>1
  <2>3. CASE Has(calendar, "ReceiveNull", n, LATENCY - w)
    <3>1. h <= LATENCY - w
      BY <1>2, <2>3
    <3> QED
      BY <1>3, <3>1
  <2> QED
    BY <1>1, <1>4, <1>11, <2>1, <2>2, <2>3 DEF Behind
<1> QED
  BY <1>6, <1>8, <1>9, <1>10, <1>11

-----------------------------------------------------------------------------
(***************************************************************************)
(* The handlers of devices between which no packet is on its way.          *)
(***************************************************************************)

StartUp == {"ErrorReset", "ErrorWait", "Ready", "SendNull", "ReceiveNull", "SendFCT",
            "ReceiveFCT"}

OnlyStartUp(c) == \A do, n, t : Has(c, do, n, t) => do \in StartUp

\* The handler do of n leaves it in state s.
Moves(n, do, E, s) ==
  /\ Runs(do, n) /\ machineState' = [machineState EXCEPT ![n] = s] /\ m_queue' = m_queue
  /\ Changes(Rest, calendar', n, E)

Idles(n, do) == /\ Runs(do, n) /\ UNCHANGED <<machineState, m_queue>>
                /\ calendar' = Rest

NewNull(n) == {<<"ReceiveNull", Peer(n), LATENCY>>, <<"SendNull", n, PERIOD>>}
NewFCT(n) == {<<"ReceiveFCT", Peer(n), LATENCY>>, <<"SendFCT", n, PERIOD>>}

Handles(n) ==
  \/ Moves(n, "ErrorReset", {<<"ErrorWait", n, SPW_HALF_DELAY>>}, "ERROR_RESET")
  \/ Moves(n, "ErrorWait", {<<"Ready", n, SPW_DELAY>>}, "ERROR_WAIT")
  \/ Moves(n, "Ready", {<<"ErrorReset", n, SPW_DELAY>>, <<"SendNull", n, 0>>}, "STARTED")
  \/ /\ machineState[n] = "STARTED"
     /\ Moves(n, "ReceiveNull", {<<"ErrorReset", n, SPW_DELAY>>, <<"SendFCT", n, 0>>},
              "CONNECTING")
  \/ /\ machineState[n] = "STARTED" /\ Moves(n, "SendNull", NewNull(n), "STARTED")
     /\ Grows(Rest, calendar', NewNull(n))
  \/ /\ machineState[n] = "CONNECTING" /\ Moves(n, "SendFCT", NewFCT(n), "CONNECTING")
     /\ Grows(Rest, calendar', NewFCT(n))
  \/ machineState[n] # "STARTED" /\ Idles(n, "ReceiveNull")
  \/ machineState[n] # "CONNECTING" /\ Idles(n, "ReceiveFCT")

Opens(n) == /\ Runs("ReceiveFCT", n) /\ machineState[n] = "CONNECTING"
            /\ RunSpWState(n, Rest)

LEMMA RestStartUp ==
  ASSUME Calendar(calendar), calendar # <<>>, OnlyStartUp(calendar)
  PROVE  OnlyStartUp(Rest)
<1>1. Elapsed(calendar, Rest, Head(calendar).in)
  BY RestElapsed
<1> QED
  BY <1>1 DEF Elapsed, OnlyStartUp

LEMMA StepHandles ==
  ASSUME LinkTypes, ChainInv, OnlyStartUp(calendar), NEW n \in Node, Step(n)
  PROVE  /\ ChainInv' /\ offset' = offset
         /\ \/ Handles(n) /\ OnlyStartUp(calendar')
            \/ Opens(n)
<1>1. /\ Calendar(calendar) /\ machineState \in [Node -> MachineState]
      /\ m_queue \in [Node -> Seq(Uid)]
  BY DEF LinkTypes, DeviceInv
<1>2. ASSUME NEW do, Runs(do, n)
      PROVE  /\ do \in StartUp /\ calendar # <<>> /\ Calendar(Rest) /\ Tidy(Rest)
             /\ OnlyStartUp(Rest)
             /\ do \in Own \ {"Start", "ErrorReset"} => do \in Kinds(machineState[n])
  <2>1. /\ Calendar(calendar) /\ calendar # <<>> /\ Calendar(Rest) /\ Tidy(Rest)
        /\ Head(calendar).dev = n /\ Head(calendar).do = do
        /\ Kind(Head(calendar)) \in Own => Kind(Head(calendar)) \in Kinds(machineState[n])
    BY <1>2, HandlerFinds
  <2>2. Has(calendar, do, n, Head(calendar).in)
    BY <2>1, RestElapsed
  <2>3. do \in Own \ {"Start", "ErrorReset"} => Kind(Head(calendar)) = do
    BY <2>1 DEF Kind
  <2> QED
    BY <2>1, <2>2, <2>3, RestStartUp DEF OnlyStartUp
<1>3. ASSUME NEW E, Changes(Rest, calendar', n, E), OnlyStartUp(Rest),
             \A do, k, t : <<do, k, t>> \in E => do \in StartUp
      PROVE  OnlyStartUp(calendar')
  <2>1. \A do, k, t : Has(calendar', do, k, t) => Has(Rest, do, k, t) \/ <<do, k, t>> \in E
    BY <1>3, Changed
  <2> QED
    BY <1>3, <2>1, Zenon DEF OnlyStartUp
<1>4. CASE ErrorResetSpWState(n)
  <2>1. /\ Runs("ErrorReset", n) /\ machineState' = [machineState EXCEPT ![n] = "ERROR_RESET"]
        /\ calendar' = ErrorReset(Rest, n) /\ m_queue' = m_queue /\ offset' = offset
    BY <1>4 DEF ErrorResetSpWState, Enter, calls
  <2>2. Changes(Rest, calendar', n, {<<"ErrorWait", n, SPW_HALF_DELAY>>})
    BY <1>2, <2>1, HandlerChanges
  <2>3. OnlyStartUp(calendar')
    BY <1>2, <1>3, <2>1, <2>2 DEF StartUp
  <2> QED
    BY <1>4, <2>1, <2>2, <2>3, ErrorResetStep DEF Handles, Moves
<1>5. CASE ErrorWaitSpWState(n)
  <2>1. /\ Runs("ErrorWait", n) /\ machineState' = [machineState EXCEPT ![n] = "ERROR_WAIT"]
        /\ calendar' = Schedule(Rest, SPW_DELAY, "Ready", n, NoUid)
        /\ m_queue' = m_queue /\ offset' = offset
    BY <1>5 DEF ErrorWaitSpWState, Enter, calls
  <2>2. Changes(Rest, calendar', n, {<<"Ready", n, SPW_DELAY>>})
    BY <1>2, <2>1, HandlerChanges
  <2>3. OnlyStartUp(calendar')
    BY <1>2, <1>3, <2>1, <2>2 DEF StartUp
  <2> QED
    BY <1>5, <2>1, <2>2, <2>3, ErrorWaitStep DEF Handles, Moves
<1>6. CASE ReadySpWState(n)
  <2>1. /\ Runs("Ready", n) /\ machineState' = [machineState EXCEPT ![n] = "STARTED"]
        /\ calendar' = Started(Rest, n) /\ m_queue' = m_queue /\ offset' = offset
    BY <1>6 DEF ReadySpWState, Enter, calls
  <2>2. Changes(Rest, calendar', n, {<<"ErrorReset", n, SPW_DELAY>>, <<"SendNull", n, 0>>})
    BY <1>2, <2>1, HandlerChanges
  <2>3. OnlyStartUp(calendar')
    BY <1>2, <1>3, <2>1, <2>2 DEF StartUp
  <2> QED
    BY <1>6, <2>1, <2>2, <2>3, ReadyStep DEF Handles, Moves
<1>7. CASE SendNull(n)
  <2>1. Runs("SendNull", n) /\ m_queue' = m_queue /\ machineState' = machineState
        /\ offset' = offset
    BY <1>7 DEF SendNull, calls
  <2>2. "SendNull" \in Kinds(machineState[n])
    BY <1>2, <2>1 DEF Own, Chain
  <2>3. machineState[n] = "STARTED"
    BY <1>1, <2>2 DEF Kinds, MachineState
  <2>4. calendar' = ScheduleAs("sendNull", NullInLink(Rest, n), PERIOD, "SendNull", n, NoUid)
    BY <1>7, <2>3 DEF SendNull
  <2>5. Grows(Rest, calendar', NewNull(n)) /\ Changes(Rest, calendar', n, NewNull(n))
    BY <1>2, <2>1, <2>4, HandlerChanges DEF NewNull
  <2>6. OnlyStartUp(calendar')
    BY <1>2, <1>3, <2>1, <2>5 DEF StartUp, NewNull
  <2>7. machineState' = [machineState EXCEPT ![n] = "STARTED"]
    BY <1>1, <2>1, <2>3
  <2> QED
    BY <1>7, <2>1, <2>3, <2>5, <2>6, <2>7, SendNullStep DEF Handles, Moves
<1>8. CASE SendFCT(n)
  <2>1. Runs("SendFCT", n) /\ m_queue' = m_queue /\ machineState' = machineState
        /\ offset' = offset
    BY <1>8 DEF SendFCT, calls
  <2>2. "SendFCT" \in Kinds(machineState[n])
    BY <1>2, <2>1 DEF Own, Chain
  <2>3. machineState[n] = "CONNECTING"
    BY <1>1, <2>2 DEF Kinds, MachineState
  <2>4. calendar' = ScheduleAs("sendFCT", FCTInLink(Rest, n), PERIOD, "SendFCT", n, NoUid)
    BY <1>8, <2>3 DEF SendFCT
  <2>5. Grows(Rest, calendar', NewFCT(n)) /\ Changes(Rest, calendar', n, NewFCT(n))
    BY <1>2, <2>1, <2>4, HandlerChanges DEF NewFCT
  <2>6. OnlyStartUp(calendar')
    BY <1>2, <1>3, <2>1, <2>5 DEF StartUp, NewFCT
  <2>7. machineState' = [machineState EXCEPT ![n] = "CONNECTING"]
    BY <1>1, <2>1, <2>3
  <2> QED
    BY <1>8, <2>1, <2>3, <2>5, <2>6, <2>7, SendFCTStep DEF Handles, Moves
<1>9. CASE ReceiveNull(n)
  <2>1. Runs("ReceiveNull", n) /\ m_queue' = m_queue /\ offset' = offset
    BY <1>9 DEF ReceiveNull, calls
  <2>2. CASE machineState[n] = "STARTED"
    <3>1. /\ machineState' = [machineState EXCEPT ![n] = "CONNECTING"]
          /\ calendar' = Connecting(Cancel(Rest, n, {"sendNull"}), n)
      BY <1>9, <2>2 DEF ReceiveNull, Enter
    <3>2. Changes(Rest, calendar', n, {<<"ErrorReset", n, SPW_DELAY>>, <<"SendFCT", n, 0>>})
      BY <1>2, <2>1, <3>1, HandlerChanges
    <3>3. OnlyStartUp(calendar')
      BY <1>2, <1>3, <2>1, <3>2 DEF StartUp
    <3> QED
      BY <1>9, <2>1, <2>2, <3>1, <3>2, <3>3, ReceiveNullStep DEF Handles, Moves
  <2>3. CASE machineState[n] # "STARTED"
    <3>1. machineState' = machineState /\ calendar' = Rest
      BY <1>9, <2>3 DEF ReceiveNull
    <3> QED
      BY <1>2, <1>9, <2>1, <2>3, <3>1, ReceiveNullStep DEF Handles, Idles
  <2> QED
    BY <2>2, <2>3
<1>10. CASE ReceiveFCT(n)
  <2>1. Runs("ReceiveFCT", n) /\ offset' = offset
    BY <1>10 DEF ReceiveFCT, calls
  <2>2. CASE machineState[n] = "CONNECTING"
    <3>1. RunSpWState(n, Rest)
      BY <1>10, <2>2 DEF ReceiveFCT
    <3> QED
      BY <1>10, <2>1, <2>2, <3>1, ReceiveFCTStep DEF Opens
  <2>3. CASE machineState[n] # "CONNECTING"
    <3>1. machineState' = machineState /\ m_queue' = m_queue /\ calendar' = Rest
      BY <1>10, <2>3 DEF ReceiveFCT
    <3> QED
      BY <1>2, <1>10, <2>1, <2>3, <3>1, ReceiveFCTStep DEF Handles, Idles
  <2> QED
    BY <2>2, <2>3
<1>11. ASSUME \/ TransmitComplete(n) \/ TransmissionComplete(n) \/ HandlingArrivedComplete(n)
              \/ ReceiveIntact(n) \/ ReceiveCorrupt(n) \/ ApproachLinkDisconnection(n)
       PROVE  FALSE
  <2>1. \E do \in {"TransmitComplete", "TransmissionComplete", "HandlingArrivedComplete",
                   "Receive", "ApproachLinkDisconnection"} : Runs(do, n)
    BY <1>11 DEF TransmitComplete, TransmissionComplete, HandlingArrivedComplete,
                 ReceiveIntact, ReceiveCorrupt, ApproachLinkDisconnection
  <2> QED
    BY <1>2, <2>1 DEF StartUp
<1> QED
  BY <1>4, <1>5, <1>6, <1>7, <1>8, <1>9, <1>10, <1>11 DEF Step

-----------------------------------------------------------------------------
(***************************************************************************)
(* The steps of devices that do not meet.                                  *)
(***************************************************************************)

\* A NULL of n and its first FCT are going to reach the other device together, v
\* after n has entered CONNECTING.
Opening(c, s, n) ==
  /\ s[n] = "CONNECTING" /\ s[Peer(n)] = "STARTED"
  /\ \E v \in 0 .. LATENCY :
       /\ Has(c, "ErrorReset", n, SPW_DELAY - v)
       /\ Has(c, "ErrorReset", Peer(n), (SPW_DELAY - LATENCY) - v)
       /\ \A t : Has(c, "SendNull", Peer(n), t) => t > LATENCY - v
       /\ \A t : Has(c, "ReceiveNull", Peer(n), t) <=> t = LATENCY - v
       /\ \A t : Has(c, "ReceiveFCT", Peer(n), t) => t >= LATENCY - v
       /\ \A t : ~Precedes(c, "ReceiveFCT", "ReceiveNull", Peer(n), t)
       /\ \/ v = 0 /\ Has(c, "SendFCT", n, 0)
          \/ Has(c, "ReceiveFCT", Peer(n), LATENCY - v)
  /\ \A t : ~Has(c, "ReceiveFCT", n, t)

\* The NULL has arrived.
HalfWay(c, s, n) ==
  /\ s[n] = "CONNECTING" /\ s[Peer(n)] = "CONNECTING"
  /\ ~Has(c, "ErrorReset", n, 0) /\ ~Has(c, "ErrorReset", Peer(n), 0)
  /\ Has(c, "ReceiveFCT", Peer(n), 0)
  /\ ~Precedes(c, "SendFCT", "ReceiveFCT", Peer(n), 0)
  /\ \A t : ~Has(c, "ReceiveFCT", n, t)

\* The other device is in RUN and does nothing any more.
OneIsUp(c, s, n) ==
  /\ s[n] \notin {"RUN", "BUSY"} /\ s[Peer(n)] \in {"RUN", "DOWN"}
  /\ \A do, t : Has(c, do, Peer(n), t) => do \in {"ReceiveNull", "ReceiveFCT"}
  /\ \A t : ~Has(c, "ReceiveFCT", n, t)

HalfOpened(c, s) == \E n \in Node : Opening(c, s, n) \/ HalfWay(c, s, n) \/ OneIsUp(c, s, n)

LEMMA ApartOpens ==
  ASSUME LinkTypes, ChainInv, NEW n \in Node, Opens(n), NEW half,
         Apart(calendar, machineState, half)
  PROVE  FALSE
<1>1. /\ Calendar(calendar) /\ calendar # <<>>
      /\ Head(calendar).dev = n /\ Head(calendar).do = "ReceiveFCT"
      /\ Peer(n) \in Node /\ Peer(Peer(n)) = n
  BY HandlerFinds, PeerOfPeer DEF Opens
<1>2. Has(calendar, "ReceiveFCT", n, Head(calendar).in)
  BY <1>1, RestElapsed
<1>3. PICK w : FctsOf(calendar, machineState[Peer(n)], machineState[n], w, Peer(n))
  BY <1>1 DEF Apart, Side, Facts
<1> QED
  BY <1>1, <1>2, <1>3 DEF FctsOf, Opens

LEMMA ApartHandles ==
  ASSUME Timing, LinkTypes, ChainInv, ChainInv', NEW n \in Node, Handles(n), NEW half,
         Apart(calendar, machineState, half)
  PROVE  \/ Apart(calendar', machineState', half)
         \/ half /\ Opening(calendar', machineState', n)
<1> DEFINE m == Peer(n)
           p == machineState[n]
           q == machineState[m]
           h == Head(calendar).in
           r == Rest
           s == calendar'
<1>1. m \in Node /\ m # n /\ Peer(m) = n /\ machineState \in [Node -> MachineState]
  BY PeerOfPeer DEF LinkTypes, DeviceInv
<1>2. PICK clock \in [Node -> Int] :
        \A k \in Node : Side(calendar, machineState[k], machineState[Peer(k)],
                             clock[k], clock[Peer(k)], k, half)
  BY DEF Apart
<1> DEFINE v == clock[n]
           w == clock[m]
           x == v + h
           y == w + h
<1>3. /\ v \in Int /\ w \in Int
      /\ Side(calendar, p, q, v, w, n, half) /\ Side(calendar, q, p, w, v, m, half)
  BY <1>1, <1>2
<1>4. /\ \A k \in Node : Only(calendar, k, Kinds(machineState[k]))
      /\ \A k \in Node : Only(calendar', k, Kinds(machineState'[k]))
  BY DEF ChainInv
<1>5. ASSUME NEW t1, machineState' = [machineState EXCEPT ![n] = t1]
      PROVE  machineState'[n] = t1 /\ machineState'[m] = q
  BY <1>1, <1>5
<1> HIDE DEF m, v, w
<1>6. ASSUME NEW do, Runs(do, n)
      PROVE  /\ x \in Int /\ y \in Int /\ Calendar(r) /\ Tidy(r)
             /\ Facts(r, p, q, x, y, n, half) /\ Facts(r, q, p, y, x, m, half)
             /\ On(r, q, y, m)
             /\ do \notin {"ErrorReset", "ErrorWait", "Ready"} => On(r, p, x, n)
             /\ do \in {"ErrorReset", "ErrorWait", "Ready"} =>
                  p \in Waiting /\ do = NextMove(p) /\ x = EndOf(p)
             /\ do # "SendNull" => Behind(r, p, q, x, y, n)
             /\ do # "ReceiveNull" => Behind(r, q, p, y, x, m)
  BY <1>1, <1>3, <1>6, Now DEF m
<1>7. ASSUME NEW do, Runs(do, n), do = "SendNull"
      PROVE  /\ p = "STARTED" /\ x \in Multiple
             /\ x = 0 => ~Has(r, "ReceiveNull", n, 0)
             /\ q = "STARTED" /\ y > x /\ x # 0 => Has(r, "ReceiveNull", m, LATENCY - x)
  BY <1>1, <1>3, <1>7, SendNullNow DEF m
<1>8. ASSUME NEW do, Runs(do, n), do = "ReceiveNull", p = "STARTED"
      PROVE  /\ q \in {"STARTED", "ERROR_RESET"}
             /\ y - LATENCY \in Multiple /\ y - LATENCY <= SPW_DELAY
             /\ 0 <= x /\ x < SPW_DELAY
             /\ \A t : ~Has(r, "ReceiveFCT", n, t)
             /\ x = 0 => \A t : ~Has(r, "ReceiveNull", m, t)
             /\ q = "STARTED" /\ x > y => y <= LATENCY
  BY <1>1, <1>3, <1>8, ReceiveNullNow DEF m
<1>9. ASSUME NEW p1, NEW x1 \in Int, machineState' = [machineState EXCEPT ![n] = p1],
             NEW do, Runs(do, n),
             Side(s, p1, q, x1, y, n, half), Side(s, q, p1, y, x1, m, half)
      PROVE  Apart(calendar', machineState', half)
  <2>1. y \in Int /\ machineState'[n] = p1 /\ machineState'[m] = q
    BY <1>5, <1>6, <1>9
  <2> HIDE DEF x, y, h, p, q
  <2>2. /\ Side(calendar', machineState'[n], machineState'[Peer(n)], x1, y, n, half)
        /\ Side(calendar', machineState'[Peer(n)], machineState'[n], y, x1, Peer(n), half)
    BY <1>9, <2>1 DEF m
  <2> QED
    BY <2>1, <2>2, ApartBy
<1> HIDE DEF x, y, p, q, h, r, s
<1>10. CASE Moves(n, "ErrorReset", {<<"ErrorWait", n, SPW_HALF_DELAY>>}, "ERROR_RESET")
  <2>1. /\ Runs("ErrorReset", n) /\ machineState' = [machineState EXCEPT ![n] = "ERROR_RESET"]
        /\ Changes(r, s, n, {<<"ErrorWait", n, SPW_HALF_DELAY>>})
    BY <1>10 DEF Moves, r, s
  <2>2. p \in {"DOWN", "STARTED", "CONNECTING"} /\ x = SPW_DELAY
    BY <1>6, <2>1, States DEF Waiting
  <2>3. machineState'[n] = "ERROR_RESET"
    BY <1>5, <2>1
  <2>4. \A t : ~Has(s, "SendNull", n, t)
    <3>1. Only(s, n, Kinds("ERROR_RESET"))
      BY <1>4, <2>3 DEF s
    <3> QED
      BY <3>1, NotPending DEF Kinds, Own, Chain
  <2>5. /\ Side(s, "ERROR_RESET", q, x, y, n, half)
        /\ Side(s, q, "ERROR_RESET", y, x, m, half)
    BY <1>1, <1>6, <2>1, <2>2, <2>4, ErrorResetApart DEF m
  <2> QED
    BY <1>6, <1>9, <2>1, <2>5
<1>11. CASE Moves(n, "ErrorWait", {<<"Ready", n, SPW_DELAY>>}, "ERROR_WAIT")
  <2>1. /\ Runs("ErrorWait", n) /\ machineState' = [machineState EXCEPT ![n] = "ERROR_WAIT"]
        /\ Changes(r, s, n, {<<"Ready", n, SPW_DELAY>>})
    BY <1>11 DEF Moves, r, s
  <2>2. p = "ERROR_RESET" /\ x = SPW_DELAY + SPW_HALF_DELAY
    BY <1>6, <2>1, States DEF Waiting
  <2>3. /\ Side(s, "ERROR_WAIT", q, x, y, n, half)
        /\ Side(s, q, "ERROR_WAIT", y, x, m, half)
    BY <1>1, <1>6, <2>1, <2>2, ErrorWaitApart DEF m
  <2> QED
    BY <1>6, <1>9, <2>1, <2>3
<1>12. CASE Moves(n, "Ready", {<<"ErrorReset", n, SPW_DELAY>>, <<"SendNull", n, 0>>}, "STARTED")
  <2>1. /\ Runs("Ready", n) /\ machineState' = [machineState EXCEPT ![n] = "STARTED"]
        /\ Changes(r, s, n, {<<"ErrorReset", n, SPW_DELAY>>, <<"SendNull", n, 0>>})
    BY <1>12 DEF Moves, r, s
  <2>2. p = "ERROR_WAIT" /\ x = CYCLE
    BY <1>6, <2>1, States DEF Waiting
  <2>3. /\ Side(s, "STARTED", q, 0, y, n, half)
        /\ Side(s, q, "STARTED", y, 0, m, half)
    BY <1>1, <1>6, <2>1, <2>2, ReadyApart DEF m
  <2>4. 0 \in Int
    OBVIOUS
  <2> QED
    BY <1>9, <2>1, <2>3, <2>4
<1>13. CASE /\ machineState[n] = "STARTED"
            /\ Moves(n, "ReceiveNull", {<<"ErrorReset", n, SPW_DELAY>>, <<"SendFCT", n, 0>>},
                     "CONNECTING")
  <2>1. /\ Runs("ReceiveNull", n) /\ machineState' = [machineState EXCEPT ![n] = "CONNECTING"]
        /\ Changes(r, s, n, {<<"ErrorReset", n, SPW_DELAY>>, <<"SendFCT", n, 0>>})
        /\ p = "STARTED"
    BY <1>13 DEF Moves, r, s, p
  <2>2. machineState'[n] = "CONNECTING" /\ machineState'[m] = q
    BY <1>5, <2>1 DEF q
  <2>3. \A t : ~Has(s, "SendNull", n, t)
    <3>1. Only(s, n, Kinds("CONNECTING"))
      BY <1>4, <2>2 DEF s
    <3> QED
      BY <3>1, NotPending DEF Kinds, Own, Chain
  <2>4. /\ x \in Int /\ y \in Int /\ Calendar(r)
        /\ Facts(r, "STARTED", q, x, y, n, half) /\ Facts(r, q, "STARTED", y, x, m, half)
        /\ On(r, q, y, m) /\ Behind(r, "STARTED", q, x, y, n)
    BY <1>6, <2>1
  <2>5. /\ q \in {"STARTED", "ERROR_RESET"}
        /\ y - LATENCY \in Multiple /\ y - LATENCY <= SPW_DELAY
        /\ 0 <= x /\ x < SPW_DELAY
        /\ \A t : ~Has(r, "ReceiveFCT", n, t)
        /\ x = 0 => \A t : ~Has(r, "ReceiveNull", m, t)
        /\ q = "STARTED" /\ x > y => y <= LATENCY
    BY <1>8, <2>1
  <2>6. CASE q = "STARTED" => \A t : Has(r, "ReceiveNull", m, t) => SPW_DELAY - y <= t
    <3>1. /\ Side(s, "CONNECTING", q, 0, y, n, half)
          /\ Side(s, q, "CONNECTING", y, 0, m, half)
      BY <1>1, <2>1, <2>3, <2>4, <2>5, <2>6, ReceiveNullApart DEF m
    <3>2. 0 \in Int
      OBVIOUS
    <3> QED
      BY <1>9, <2>1, <3>1, <3>2
  <2>7. CASE /\ q = "STARTED" /\ half /\ y = LATENCY /\ Has(r, "ReceiveNull", m, LATENCY)
             /\ \A t : Has(r, "ReceiveNull", m, t) => t = LATENCY
    <3> DEFINE E == {<<"ErrorReset", n, SPW_DELAY>>, <<"SendFCT", n, 0>>}
    <3>1. <<"ErrorReset", n, SPW_DELAY>> \in E /\ <<"SendFCT", n, 0>> \in E /\ Changes(r, s, n, E)
      BY <2>1
    <3> HIDE DEF E
    <3>2. /\ \A do, k, t : Has(s, do, k, t) => Has(r, do, k, t) \/ <<do, k, t>> \in E
          /\ \A do, k, t : Has(r, do, k, t) /\ (k # n \/ do \in {"ReceiveNull", "ReceiveFCT"}) =>
               Has(s, do, k, t)
          /\ \A a, b, k, t : Precedes(s, a, b, k, t) =>
               \/ Precedes(r, a, b, k, t)
               \/ <<b, k, t>> \in E /\ (Has(r, a, k, t) \/ <<a, k, t>> \in E)
          /\ Has(s, "ErrorReset", n, SPW_DELAY) /\ Has(s, "SendFCT", n, 0)
      BY <3>1, Changed
    <3>3. /\ \A do, t : Has(s, do, m, t) <=> Has(r, do, m, t)
          /\ \A t : Has(s, "ReceiveFCT", n, t) => Has(r, "ReceiveFCT", n, t)
          /\ \A t : Precedes(s, "ReceiveFCT", "ReceiveNull", m, t) =>
                      Precedes(r, "ReceiveFCT", "ReceiveNull", m, t)
      BY <1>1, <3>2 DEF E
    <3>4. SendsNulls(r, q, y, m) /\ FctsOf(r, "STARTED", q, x, n)
      BY <2>4 DEF Facts
    <3>5. /\ LATENCY \in Nat /\ LATENCY >= 1 /\ SPW_DELAY \in Nat /\ PERIOD \in Nat
          /\ LATENCY + LATENCY < PERIOD
      BY Scale
    <3>6. \A t : ~Has(r, "ReceiveFCT", m, t)
      BY <3>4 DEF FctsOf, m
    <3>7. ASSUME NEW t, Has(r, "SendNull", m, t) PROVE t > LATENCY
      <4>1. t \in Nat /\ LATENCY + t \in Multiple
        BY <2>4, <2>7, <3>4, <3>7, HasTypes DEF SendsNulls
      <4>2. 0 + PERIOD <= LATENCY + t
        BY <3>5, <4>1, Multiples
      <4> QED
        BY <3>5, <4>1, <4>2
    <3>8. Has(r, "ErrorReset", m, SPW_DELAY - LATENCY)
      BY <2>4, <2>7, States DEF On
    <3>9. \A t : ~Precedes(r, "ReceiveFCT", "ReceiveNull", m, t)
      BY <3>6 DEF Precedes, Has
    <3>10. /\ Has(s, "ErrorReset", n, SPW_DELAY - 0)
           /\ Has(s, "ErrorReset", m, (SPW_DELAY - LATENCY) - 0)
           /\ \A t : Has(s, "SendNull", m, t) => t > LATENCY - 0
           /\ \A t : Has(s, "ReceiveNull", m, t) <=> t = LATENCY - 0
           /\ \A t : Has(s, "ReceiveFCT", m, t) => t >= LATENCY - 0
           /\ \A t : ~Precedes(s, "ReceiveFCT", "ReceiveNull", m, t)
           /\ Has(s, "SendFCT", n, 0)
      <4>1. SPW_DELAY - 0 = SPW_DELAY /\ LATENCY - 0 = LATENCY
            /\ (SPW_DELAY - LATENCY) - 0 = SPW_DELAY - LATENCY
        BY <3>5
      <4> QED
        BY <2>7, <3>2, <3>3, <3>6, <3>7, <3>8, <3>9, <4>1
    <3>11. \A t : ~Has(s, "ReceiveFCT", n, t)
      BY <2>5, <3>3
    <3>12. 0 \in 0 .. LATENCY
      BY <3>5
    <3>13. Opening(calendar', machineState', n)
      BY <2>2, <2>7, <3>10, <3>11, <3>12 DEF Opening, m, s
    <3> QED
      BY <2>7, <3>13
  <2>8. q = "STARTED" =>
          \/ \A t : Has(r, "ReceiveNull", m, t) => SPW_DELAY - y <= t
          \/ /\ half /\ y = LATENCY /\ Has(r, "ReceiveNull", m, LATENCY)
             /\ \A t : Has(r, "ReceiveNull", m, t) => t = LATENCY
    BY <1>1, <2>4, <2>5, NullFinds DEF m
  <2> QED
    BY <2>6, <2>7, <2>8
<1>14. CASE /\ machineState[n] = "STARTED" /\ Moves(n, "SendNull", NewNull(n), "STARTED")
            /\ Grows(Rest, calendar', NewNull(n))
  <2>1. /\ Runs("SendNull", n) /\ machineState' = [machineState EXCEPT ![n] = "STARTED"]
        /\ p = "STARTED" /\ Grows(r, s, {<<"ReceiveNull", m, LATENCY>>, <<"SendNull", n, PERIOD>>})
    BY <1>14 DEF Moves, NewNull, r, s, p, m
  <2>2. /\ Side(s, "STARTED", q, x, y, n, half)
        /\ Side(s, q, "STARTED", y, x, m, half)
    <3>1. /\ x \in Int /\ y \in Int /\ Calendar(r) /\ Tidy(r)
          /\ Facts(r, "STARTED", q, x, y, n, half) /\ Facts(r, q, "STARTED", y, x, m, half)
          /\ On(r, q, y, m) /\ On(r, "STARTED", x, n) /\ Behind(r, q, "STARTED", y, x, m)
      BY <1>6, <2>1
    <3>2. /\ x = 0 => ~Has(r, "ReceiveNull", n, 0)
          /\ q = "STARTED" /\ y > x /\ x # 0 => Has(r, "ReceiveNull", m, LATENCY - x)
      BY <1>7, <2>1
    <3>3. x \in Multiple
      BY <1>7, <2>1
    <3> QED
      BY <1>1, <2>1, <3>1, <3>2, <3>3, SendNullApart DEF m
  <2> QED
    BY <1>6, <1>9, <2>1, <2>2
<1>15. CASE /\ machineState[n] = "CONNECTING" /\ Moves(n, "SendFCT", NewFCT(n), "CONNECTING")
            /\ Grows(Rest, calendar', NewFCT(n))
  <2>1. /\ Runs("SendFCT", n) /\ machineState' = [machineState EXCEPT ![n] = "CONNECTING"]
        /\ p = "CONNECTING"
        /\ Grows(r, s, {<<"ReceiveFCT", m, LATENCY>>, <<"SendFCT", n, PERIOD>>})
    BY <1>15 DEF Moves, NewFCT, r, s, p, m
  <2>2. /\ Side(s, "CONNECTING", q, x, y, n, half)
        /\ Side(s, q, "CONNECTING", y, x, m, half)
    <3>1. /\ x \in Int /\ y \in Int /\ Calendar(r) /\ Tidy(r)
          /\ Facts(r, "CONNECTING", q, x, y, n, half) /\ Facts(r, q, "CONNECTING", y, x, m, half)
          /\ On(r, q, y, m) /\ On(r, "CONNECTING", x, n)
      BY <1>6, <2>1
    <3> QED
      BY <1>1, <2>1, <3>1, SendFCTApart DEF m
  <2> QED
    BY <1>6, <1>9, <2>1, <2>2
<1>16. ASSUME NEW do, Runs(do, n), do \in {"ReceiveNull", "ReceiveFCT"},
              do = "ReceiveNull" => p # "STARTED",
              machineState' = machineState, calendar' = Rest
       PROVE  Apart(calendar', machineState', half)
  <2>1. s = r /\ machineState' = [machineState EXCEPT ![n] = p]
    BY <1>1, <1>16 DEF s, r, p
  <2>2. Behind(r, q, p, y, x, m)
    BY <1>6, <1>16 DEF Behind
  <2>3. Side(s, p, q, x, y, n, half) /\ Side(s, q, p, y, x, m, half)
    BY <1>6, <1>16, <2>1, <2>2 DEF Side
  <2> QED
    BY <1>6, <1>9, <1>16, <2>1, <2>3
<1>17. CASE \/ machineState[n] # "STARTED" /\ Idles(n, "ReceiveNull")
            \/ machineState[n] # "CONNECTING" /\ Idles(n, "ReceiveFCT")
  BY <1>16, <1>17 DEF Idles, p
<1> QED
  BY <1>10, <1>11, <1>12, <1>13, <1>14, <1>15, <1>17 DEF Handles

\* What the first event leaves of a calendar.
LEMMA HeadLeaves ==
  ASSUME LinkTypes, ChainInv, NEW k \in Node, NEW do, Runs(do, k), NEW h,
         h = Head(calendar).in
  PROVE  /\ Calendar(calendar) /\ Tidy(calendar) /\ h \in Nat
         /\ Has(calendar, do, k, h)
         /\ \A a, n, t : Has(calendar, a, n, t) => t \in Nat /\ h <= t
         /\ \A a, n, t : (a # do \/ n # k) /\ Has(calendar, a, n, t) => Has(Rest, a, n, t - h)
         /\ \A a, n, t : Has(Rest, a, n, t) => t \in Nat /\ Has(calendar, a, n, t + h)
         /\ \A a, b, n, t : Precedes(Rest, a, b, n, t) => Precedes(calendar, a, b, n, t + h)
         /\ \A a : a # do /\ Has(calendar, a, k, h) => Precedes(calendar, do, a, k, h)
<1>1. /\ Calendar(calendar) /\ calendar # <<>> /\ Tidy(calendar)
      /\ Head(calendar).dev = k /\ Head(calendar).do = do
  BY HandlerFinds
<1>2. /\ Elapsed(calendar, Rest, h)
      /\ \A a, n : a # do \/ n # k => Left(calendar, Rest, h, a, n)
      /\ \A a, n, t : Has(calendar, a, n, t) => t \in Nat /\ h <= t
      /\ Has(calendar, do, k, h)
      /\ \A a : a # do /\ Has(calendar, a, k, h) => Precedes(calendar, do, a, k, h)
  BY <1>1, RestElapsed
<1>3. \A a, n, t : (a # do \/ n # k) /\ Has(calendar, a, n, t) => Has(Rest, a, n, t - h)
  BY <1>2 DEF Left
<1> QED
  BY <1>1, <1>2, <1>3 DEF Elapsed

LEMMA OpeningStep ==
  ASSUME Timing, LATENCY + LATENCY < SPW_DELAY, LinkTypes, ChainInv, ChainInv',
         NEW n \in Node, Opening(calendar, machineState, n), NEW k \in Node,
         Handles(k) \/ Opens(k)
  PROVE  Opening(calendar', machineState', n) \/ HalfWay(calendar', machineState', n)
<1> DEFINE m == Peer(n)
           c == calendar
           r == Rest
           s == calendar'
           h == Head(calendar).in
<1>1. m \in Node /\ m # n /\ Peer(m) = n /\ (k = n \/ k = m)
      /\ machineState \in [Node -> MachineState]
  BY PeerType, PeerOfPeer DEF LinkTypes, DeviceInv
<1>2. /\ LATENCY \in Nat /\ LATENCY >= 1 /\ SPW_DELAY \in Nat
      /\ LATENCY + LATENCY < SPW_DELAY
  BY Scale
<1>3. machineState[n] = "CONNECTING" /\ machineState[m] = "STARTED"
  BY DEF Opening
<1>4. PICK v \in 0 .. LATENCY :
       /\ Has(c, "ErrorReset", n, SPW_DELAY - v)
       /\ Has(c, "ErrorReset", m, (SPW_DELAY - LATENCY) - v)
       /\ \A t : Has(c, "SendNull", m, t) => t > LATENCY - v
       /\ \A t : Has(c, "ReceiveNull", m, t) <=> t = LATENCY - v
       /\ \A t : Has(c, "ReceiveFCT", m, t) => t >= LATENCY - v
       /\ \A t : ~Precedes(c, "ReceiveFCT", "ReceiveNull", m, t)
       /\ \/ v = 0 /\ Has(c, "SendFCT", n, 0)
          \/ Has(c, "ReceiveFCT", m, LATENCY - v)
  BY DEF Opening
<1>5. \A t : ~Has(c, "ReceiveFCT", n, t)
  BY DEF Opening
<1>6. /\ \A i \in Node : Only(c, i, Kinds(machineState[i]))
      /\ \A i \in Node : Only(calendar', i, Kinds(machineState'[i]))
  BY DEF ChainInv
<1> HIDE DEF m, c, r, s, h
<1>7. ASSUME NEW do, Runs(do, k)
      PROVE  /\ Tidy(c) /\ h \in Nat
             /\ Has(c, do, k, h)
             /\ \A a, i, t : Has(c, a, i, t) => t \in Nat /\ h <= t
             /\ \A a, i, t : (a # do \/ i # k) /\ Has(c, a, i, t) => Has(r, a, i, t - h)
             /\ \A a, i, t : Has(r, a, i, t) => t \in Nat /\ Has(c, a, i, t + h)
             /\ \A a, b, i, t : Precedes(r, a, b, i, t) => Precedes(c, a, b, i, t + h)
             /\ \A a : a # do /\ Has(c, a, k, h) => Precedes(c, do, a, k, h)
             /\ h <= LATENCY - v
  <2>1. /\ Tidy(c) /\ h \in Nat
        /\ Has(c, do, k, h)
        /\ \A a, i, t : Has(c, a, i, t) => t \in Nat /\ h <= t
        /\ \A a, i, t : (a # do \/ i # k) /\ Has(c, a, i, t) => Has(r, a, i, t - h)
        /\ \A a, i, t : Has(r, a, i, t) => t \in Nat /\ Has(c, a, i, t + h)
        /\ \A a, b, i, t : Precedes(r, a, b, i, t) => Precedes(c, a, b, i, t + h)
        /\ \A a : a # do /\ Has(c, a, k, h) => Precedes(c, do, a, k, h)
    BY <1>7, HeadLeaves DEF c, r, h
  <2>2. Has(c, "ReceiveNull", m, LATENCY - v)
    BY <1>4
  <2> QED
    BY <2>1, <2>2
<1>8. ASSUME NEW do \in {"ErrorReset", "ErrorWait", "Ready"}, Runs(do, k) PROVE FALSE
  <2>1. do = "ErrorReset" /\ (h = SPW_DELAY - v \/ h = (SPW_DELAY - LATENCY) - v)
    <3>1. Tidy(c) /\ Has(c, do, k, h)
      BY <1>7, <1>8
    <3>2. \E t \in {SPW_DELAY - v, (SPW_DELAY - LATENCY) - v} : Has(c, "ErrorReset", k, t)
      BY <1>1, <1>4
    <3> QED
      BY <1>8, <3>1, <3>2, OneMove
  <2>2. h \in Nat /\ h <= LATENCY - v
    BY <1>7, <1>8
  <2> QED
    BY <1>2, <2>1, <2>2
<1>9. ASSUME Runs("SendNull", k), machineState[k] = "STARTED" PROVE FALSE
  <2>1. h \in Nat /\ h <= LATENCY - v /\ h > LATENCY - v
    BY <1>1, <1>3, <1>4, <1>7, <1>9
  <2> QED
    BY <1>2, <2>1
<1>10. ASSUME Runs("ReceiveFCT", k) PROVE FALSE
  <2>1. h \in Nat /\ h <= LATENCY - v /\ Has(c, "ReceiveFCT", k, h)
    BY <1>7, <1>10
  <2>2. k = m
    BY <1>1, <1>5, <2>1
  <2>3. h = LATENCY - v
    BY <1>2, <1>4, <2>1, <2>2
  <2>4. Precedes(c, "ReceiveFCT", "ReceiveNull", m, h)
    BY <1>4, <1>7, <1>10, <2>2, <2>3
  <2> QED
    BY <1>4, <2>4
<1>11. ASSUME NEW do \in {"SendFCT", "ReceiveNull"}, Runs(do, k), k = n
       PROVE  /\ v + h \in 0 .. LATENCY
              /\ Has(r, "ErrorReset", n, SPW_DELAY - (v + h))
              /\ Has(r, "ErrorReset", m, (SPW_DELAY - LATENCY) - (v + h))
              /\ \A t : Has(r, "SendNull", m, t) => t > LATENCY - (v + h)
              /\ \A t : Has(r, "ReceiveNull", m, t) <=> t = LATENCY - (v + h)
              /\ \A t : Has(r, "ReceiveFCT", m, t) => t >= LATENCY - (v + h)
              /\ \A t : ~Precedes(r, "ReceiveFCT", "ReceiveNull", m, t)
              /\ \/ Has(r, "ReceiveFCT", m, LATENCY - (v + h))
                 \/ v + h = 0 /\ (do = "ReceiveNull" => Has(r, "SendFCT", n, 0))
              /\ \A t : ~Has(r, "ReceiveFCT", n, t)
  <2>1. /\ h \in Nat /\ h <= LATENCY - v
        /\ \A a, i, t : Has(c, a, i, t) => t \in Nat /\ h <= t
        /\ \A a, i, t : (a # do \/ i # n) /\ Has(c, a, i, t) => Has(r, a, i, t - h)
        /\ \A a, i, t : Has(r, a, i, t) => t \in Nat /\ Has(c, a, i, t + h)
        /\ \A a, b, i, t : Precedes(r, a, b, i, t) => Precedes(c, a, b, i, t + h)
    BY <1>7, <1>11
  <2>2. /\ v + h \in 0 .. LATENCY
        /\ (SPW_DELAY - v) - h = SPW_DELAY - (v + h)
        /\ ((SPW_DELAY - LATENCY) - v) - h = (SPW_DELAY - LATENCY) - (v + h)
        /\ (LATENCY - v) - h = LATENCY - (v + h)
    BY <1>2, <2>1
  <2>3. /\ Has(r, "ErrorReset", n, (SPW_DELAY - v) - h)
        /\ Has(r, "ErrorReset", m, ((SPW_DELAY - LATENCY) - v) - h)
        /\ Has(r, "ReceiveNull", m, (LATENCY - v) - h)
    BY <1>1, <1>4, <2>1
  <2>4. ASSUME NEW t, Has(r, "SendNull", m, t) PROVE t > LATENCY - (v + h)
    <3>1. t \in Nat /\ t + h > LATENCY - v
      BY <1>4, <2>1, <2>4
    <3> QED
      BY <1>2, <2>1, <3>1
  <2>5. ASSUME NEW t, Has(r, "ReceiveNull", m, t) PROVE t = LATENCY - (v + h)
    <3>1. t \in Nat /\ t + h = LATENCY - v
      BY <1>4, <2>1, <2>5
    <3> QED
      BY <1>2, <2>1, <3>1
  <2>6. ASSUME NEW t, Has(r, "ReceiveFCT", m, t) PROVE t >= LATENCY - (v + h)
    <3>1. t \in Nat /\ t + h >= LATENCY - v
      BY <1>4, <2>1, <2>6
    <3> QED
      BY <1>2, <2>1, <3>1
  <2>7. \A t : ~Precedes(r, "ReceiveFCT", "ReceiveNull", m, t)
    BY <1>4, <2>1
  <2>8. \A t : ~Has(r, "ReceiveFCT", n, t)
    BY <1>5, <2>1
  <2>9. \/ Has(r, "ReceiveFCT", m, LATENCY - (v + h))
        \/ v + h = 0 /\ (do = "ReceiveNull" => Has(r, "SendFCT", n, 0))
    <3>1. CASE v = 0 /\ Has(c, "SendFCT", n, 0)
      <4>1. h <= 0
        BY <2>1, <3>1
      <4>2. h = 0
        BY <2>1, <4>1
      <4>3. do = "ReceiveNull" => Has(r, "SendFCT", n, 0 - h)
        BY <2>1, <3>1
      <4> QED
        BY <3>1, <4>2, <4>3
    <3>2. CASE Has(c, "ReceiveFCT", m, LATENCY - v)
      <4>1. Has(r, "ReceiveFCT", m, (LATENCY - v) - h)
        BY <1>1, <2>1, <3>2
      <4> QED
        BY <2>2, <4>1
    <3> QED
      BY <1>4, <3>1, <3>2
  <2>10. /\ Has(r, "ErrorReset", n, SPW_DELAY - (v + h))
         /\ Has(r, "ErrorReset", m, (SPW_DELAY - LATENCY) - (v + h))
         /\ Has(r, "ReceiveNull", m, LATENCY - (v + h))
    BY <2>2, <2>3
  <2> QED
    BY <2>2, <2>4, <2>5, <2>6, <2>7, <2>8, <2>9, <2>10
<1>12. ASSUME machineState[k] # "STARTED", Idles(k, "ReceiveNull")
       PROVE  Opening(calendar', machineState', n)
  <2>1. k = n /\ Runs("ReceiveNull", k) /\ machineState' = machineState /\ s = r
    BY <1>1, <1>3, <1>12 DEF Idles, s, r
  <2>2. machineState'[n] = "CONNECTING" /\ machineState'[m] = "STARTED"
    BY <1>3, <2>1
  <2> DEFINE v1 == v + h
  <2>3. /\ v1 \in 0 .. LATENCY
        /\ Has(s, "ErrorReset", n, SPW_DELAY - v1)
        /\ Has(s, "ErrorReset", m, (SPW_DELAY - LATENCY) - v1)
        /\ \A t : Has(s, "SendNull", m, t) => t > LATENCY - v1
        /\ \A t : Has(s, "ReceiveNull", m, t) <=> t = LATENCY - v1
        /\ \A t : Has(s, "ReceiveFCT", m, t) => t >= LATENCY - v1
        /\ \A t : ~Precedes(s, "ReceiveFCT", "ReceiveNull", m, t)
        /\ \/ Has(s, "ReceiveFCT", m, LATENCY - v1)
           \/ v1 = 0 /\ Has(s, "SendFCT", n, 0)
        /\ \A t : ~Has(s, "ReceiveFCT", n, t)
    BY <1>11, <2>1
  <2> HIDE DEF v1
  <2> QED
    BY <2>2, <2>3 DEF Opening, m, s
<1>13. ASSUME machineState[k] = "CONNECTING", Moves(k, "SendFCT", NewFCT(k), "CONNECTING"),
              Grows(Rest, calendar', NewFCT(k))
       PROVE  Opening(calendar', machineState', n)
  <2>1. /\ k = n /\ Runs("SendFCT", k)
        /\ machineState' = [machineState EXCEPT ![n] = "CONNECTING"]
    BY <1>1, <1>3, <1>13 DEF Moves
  <2>2. machineState'[n] = "CONNECTING" /\ machineState'[m] = "STARTED"
    BY <1>1, <1>3, <2>1
  <2> DEFINE E == {<<"ReceiveFCT", m, LATENCY>>, <<"SendFCT", n, PERIOD>>}
  <2>3. Grows(r, s, E)
    BY <1>13, <2>1 DEF NewFCT, m, r, s
  <2> HIDE DEF E
  <2>4. /\ \A do, i, t : Has(s, do, i, t) <=> Has(r, do, i, t) \/ <<do, i, t>> \in E
        /\ \A a, b, i, t : Precedes(s, a, b, i, t) => Precedes(r, a, b, i, t) \/ <<b, i, t>> \in E
    BY <2>3 DEF Grows
  <2>5. /\ \A i, t : Has(s, "ErrorReset", i, t) <=> Has(r, "ErrorReset", i, t)
        /\ \A i, t : Has(s, "SendNull", i, t) <=> Has(r, "SendNull", i, t)
        /\ \A i, t : Has(s, "ReceiveNull", i, t) <=> Has(r, "ReceiveNull", i, t)
        /\ \A t : Has(s, "ReceiveFCT", m, t) <=> Has(r, "ReceiveFCT", m, t) \/ t = LATENCY
        /\ \A t : Has(s, "ReceiveFCT", n, t) <=> Has(r, "ReceiveFCT", n, t)
        /\ \A t : Precedes(s, "ReceiveFCT", "ReceiveNull", m, t) =>
                    Precedes(r, "ReceiveFCT", "ReceiveNull", m, t)
    BY <1>1, <2>4 DEF E
  <2> DEFINE v1 == v + h
  <2>6. /\ v1 \in 0 .. LATENCY
        /\ Has(r, "ErrorReset", n, SPW_DELAY - v1)
        /\ Has(r, "ErrorReset", m, (SPW_DELAY - LATENCY) - v1)
        /\ \A t : Has(r, "SendNull", m, t) => t > LATENCY - v1
        /\ \A t : Has(r, "ReceiveNull", m, t) <=> t = LATENCY - v1
        /\ \A t : Has(r, "ReceiveFCT", m, t) => t >= LATENCY - v1
        /\ \A t : ~Precedes(r, "ReceiveFCT", "ReceiveNull", m, t)
        /\ Has(r, "ReceiveFCT", m, LATENCY - v1) \/ v1 = 0
        /\ \A t : ~Has(r, "ReceiveFCT", n, t)
    BY <1>11, <2>1
  <2> HIDE DEF v1
  <2>7. LATENCY >= LATENCY - v1 /\ LATENCY - 0 = LATENCY
    BY <1>2, <2>6
  <2>8. /\ v1 \in 0 .. LATENCY
        /\ Has(s, "ErrorReset", n, SPW_DELAY - v1)
        /\ Has(s, "ErrorReset", m, (SPW_DELAY - LATENCY) - v1)
        /\ \A t : Has(s, "SendNull", m, t) => t > LATENCY - v1
        /\ \A t : Has(s, "ReceiveNull", m, t) <=> t = LATENCY - v1
        /\ \A t : Has(s, "ReceiveFCT", m, t) => t >= LATENCY - v1
        /\ \A t : ~Precedes(s, "ReceiveFCT", "ReceiveNull", m, t)
        /\ Has(s, "ReceiveFCT", m, LATENCY - v1)
        /\ \A t : ~Has(s, "ReceiveFCT", n, t)
    BY <2>5, <2>6, <2>7
  <2> QED
    BY <2>2, <2>8 DEF Opening, m, s
<1>14. ASSUME machineState[k] = "STARTED",
              Moves(k, "ReceiveNull", {<<"ErrorReset", k, SPW_DELAY>>, <<"SendFCT", k, 0>>},
                    "CONNECTING")
       PROVE  HalfWay(calendar', machineState', n)
  <2>1. /\ k = m /\ Runs("ReceiveNull", k)
        /\ machineState' = [machineState EXCEPT ![m] = "CONNECTING"]
    BY <1>1, <1>3, <1>14 DEF Moves
  <2>2. machineState'[n] = "CONNECTING" /\ machineState'[m] = "CONNECTING"
    BY <1>1, <1>3, <2>1
  <2> DEFINE E == {<<"ErrorReset", m, SPW_DELAY>>, <<"SendFCT", m, 0>>}
  <2>3. /\ Changes(r, s, m, E) /\ <<"ErrorReset", m, SPW_DELAY>> \in E
        /\ \A t : <<"ReceiveFCT", n, t>> \notin E /\ <<"ReceiveFCT", m, t>> \notin E
    BY <1>14, <2>1 DEF Moves, r, s
  <2> HIDE DEF E
  <2>4. /\ \A do, i, t : Has(s, do, i, t) => Has(r, do, i, t) \/ <<do, i, t>> \in E
        /\ \A do, i, t : Has(r, do, i, t) /\ (i # m \/ do \in {"ReceiveNull", "ReceiveFCT"}) =>
             Has(s, do, i, t)
        /\ \A a, b, i, t : Precedes(s, a, b, i, t) =>
             \/ Precedes(r, a, b, i, t)
             \/ <<b, i, t>> \in E /\ (Has(r, a, i, t) \/ <<a, i, t>> \in E)
        /\ Has(s, "ErrorReset", m, SPW_DELAY)
    BY <2>3, Changed
  <2>5. /\ h \in Nat /\ h = LATENCY - v
        /\ \A a, i, t : (a # "ReceiveNull" \/ i # m) /\ Has(c, a, i, t) => Has(r, a, i, t - h)
        /\ \A a, i, t : Has(r, a, i, t) => t \in Nat /\ Has(c, a, i, t + h)
    BY <1>4, <1>7, <2>1
  <2>6. Has(c, "ReceiveFCT", m, LATENCY - v)
    <3>1. ASSUME v = 0, Has(c, "SendFCT", n, 0) PROVE FALSE
      <4>1. h <= 0
        BY <1>7, <2>1, <3>1
      <4> QED
        BY <1>2, <2>5, <3>1, <4>1
    <3> QED
      BY <1>4, <3>1
  <2>7. Has(s, "ReceiveFCT", m, 0)
    <3>1. Has(r, "ReceiveFCT", m, (LATENCY - v) - h)
      BY <2>5, <2>6
    <3>2. (LATENCY - v) - h = 0
      BY <2>5
    <3>3. Has(r, "ReceiveFCT", m, 0)
      BY <3>1, <3>2
    <3> QED
      BY <2>4, <3>3
  <2>8. Has(s, "ErrorReset", n, SPW_DELAY - LATENCY)
    <3>1. Has(r, "ErrorReset", n, (SPW_DELAY - v) - h)
      BY <1>4, <2>5
    <3>2. (SPW_DELAY - v) - h = SPW_DELAY - LATENCY
      BY <1>2, <2>5
    <3>3. Has(r, "ErrorReset", n, SPW_DELAY - LATENCY)
      BY <3>1, <3>2
    <3> QED
      BY <1>1, <2>4, <3>3
  <2>9. ~Has(s, "ErrorReset", n, 0) /\ ~Has(s, "ErrorReset", m, 0)
    <3>1. Tidy(s)
      BY DEF ChainInv, s
    <3>2. SPW_DELAY - LATENCY # 0 /\ SPW_DELAY # 0
      BY <1>2
    <3> QED
      BY <2>4, <2>8, <3>1, <3>2, OneMove
  <2>10. ~Precedes(s, "SendFCT", "ReceiveFCT", m, 0)
    <3>1. \A t : ~Has(c, "SendFCT", m, t)
      <4>1. Only(c, m, Kinds("STARTED"))
        BY <1>1, <1>3, <1>6
      <4> QED
        BY <4>1, NotPending DEF Kinds, Own, Chain
    <3>2. \A t : ~Has(r, "SendFCT", m, t)
      BY <2>5, <3>1
    <3>3. ~Precedes(r, "SendFCT", "ReceiveFCT", m, 0)
      BY <3>2 DEF Precedes, Has
    <3> QED
      BY <2>3, <2>4, <3>3
  <2>11. \A t : ~Has(s, "ReceiveFCT", n, t)
    BY <1>5, <2>3, <2>4, <2>5
  <2> QED
    BY <2>2, <2>7, <2>9, <2>10, <2>11 DEF HalfWay, m, s
<1> QED
  BY <1>8, <1>9, <1>10, <1>12, <1>13, <1>14 DEF Handles, Moves, Idles, Opens

LEMMA HalfWayStep ==
  ASSUME Timing, LinkTypes, ChainInv, ChainInv', OnlyStartUp(calendar),
         \A i \in Node : m_queue[i] = <<>>,
         NEW n \in Node, HalfWay(calendar, machineState, n), NEW k \in Node
  PROVE  /\ Handles(k) => HalfWay(calendar', machineState', n)
         /\ Opens(k) => /\ OneIsUp(calendar', machineState', n) /\ OnlyStartUp(calendar')
                        /\ \A i \in Node : m_queue'[i] = <<>>
<1> DEFINE m == Peer(n)
           c == calendar
           r == Rest
           s == calendar'
           h == Head(calendar).in
<1>1. /\ m \in Node /\ m # n /\ Peer(m) = n /\ (k = n \/ k = m)
      /\ machineState \in [Node -> MachineState] /\ m_queue \in [Node -> Seq(Uid)]
      /\ Calendar(calendar)
  BY PeerType, PeerOfPeer DEF LinkTypes, DeviceInv
<1>2. LATENCY \in Nat /\ LATENCY >= 1
  BY Scale
<1>3. /\ machineState[n] = "CONNECTING" /\ machineState[m] = "CONNECTING"
      /\ machineState[k] = "CONNECTING"
  BY <1>1 DEF HalfWay
<1>4. /\ ~Has(c, "ErrorReset", n, 0) /\ ~Has(c, "ErrorReset", m, 0)
      /\ Has(c, "ReceiveFCT", m, 0) /\ ~Precedes(c, "SendFCT", "ReceiveFCT", m, 0)
      /\ \A t : ~Has(c, "ReceiveFCT", n, t)
  BY DEF HalfWay
<1>5. ASSUME NEW do \in {"ErrorWait", "Ready", "SendNull"}, NEW t, Has(c, do, k, t) PROVE FALSE
  <2>1. Only(c, k, Kinds("CONNECTING"))
    BY <1>3 DEF ChainInv, c
  <2>2. do \in Own \ {"Start", "ErrorReset"} /\ do \notin Kinds("CONNECTING")
    BY <1>5 DEF Kinds, Own, Chain
  <2> QED
    BY <1>5, <2>1, <2>2, NotPending
<1>6. Only(calendar', m, Kinds(machineState'[m]))
  BY <1>1 DEF ChainInv
<1> HIDE DEF m, c, r, s, h
<1>7. ASSUME NEW do, Runs(do, k)
      PROVE  /\ h = 0 /\ Has(c, do, k, 0)
             /\ \A a, i, t : (a # do \/ i # k) /\ Has(c, a, i, t) => Has(r, a, i, t)
             /\ \A a, i, t : Has(r, a, i, t) => Has(c, a, i, t)
             /\ \A a, b, i, t : Precedes(r, a, b, i, t) => t \in Nat /\ Precedes(c, a, b, i, t)
             /\ \A a : a # do /\ Has(c, a, k, 0) => Precedes(c, do, a, k, 0)
  <2>1. /\ h \in Nat /\ Has(c, do, k, h)
        /\ \A a, i, t : Has(c, a, i, t) => t \in Nat /\ h <= t
        /\ \A a, i, t : (a # do \/ i # k) /\ Has(c, a, i, t) => Has(r, a, i, t - h)
        /\ \A a, i, t : Has(r, a, i, t) => t \in Nat /\ Has(c, a, i, t + h)
        /\ \A a, b, i, t : Precedes(r, a, b, i, t) => Precedes(c, a, b, i, t + h)
        /\ \A a : a # do /\ Has(c, a, k, h) => Precedes(c, do, a, k, h)
    BY <1>7, HeadLeaves DEF c, r, h
  <2>2. h = 0
    <3>1. h <= 0
      BY <1>4, <2>1
    <3> QED
      BY <2>1, <3>1
  <2>3. \A a, i, t : (a # do \/ i # k) /\ Has(c, a, i, t) => Has(r, a, i, t)
    <3> SUFFICES ASSUME NEW a, NEW i, NEW t, a # do \/ i # k, Has(c, a, i, t)
                 PROVE  Has(r, a, i, t)
      OBVIOUS
    <3>1. t \in Nat /\ Has(r, a, i, t - 0)
      BY <2>1, <2>2
    <3>2. t - 0 = t
      BY <3>1
    <3> QED
      BY <3>1, <3>2
  <2>4. \A a, i, t : Has(r, a, i, t) => Has(c, a, i, t)
    <3> SUFFICES ASSUME NEW a, NEW i, NEW t, Has(r, a, i, t) PROVE Has(c, a, i, t)
      OBVIOUS
    <3>1. t \in Nat /\ Has(c, a, i, t + 0)
      BY <2>1, <2>2
    <3>2. t + 0 = t
      BY <3>1
    <3> QED
      BY <3>1, <3>2
  <2>5. \A a, b, i, t : Precedes(r, a, b, i, t) => t \in Nat /\ Precedes(c, a, b, i, t)
    <3> SUFFICES ASSUME NEW a, NEW b, NEW i, NEW t, Precedes(r, a, b, i, t)
                 PROVE  t \in Nat /\ Precedes(c, a, b, i, t)
      OBVIOUS
    <3>1. Has(r, a, i, t)
      BY DEF Precedes, Has
    <3>2. t \in Nat
      BY <2>1, <3>1
    <3>3. Precedes(c, a, b, i, t + 0)
      BY <2>1, <2>2
    <3>4. t + 0 = t
      BY <3>2
    <3> QED
      BY <3>2, <3>3, <3>4
  <2> QED
    BY <2>1, <2>2, <2>3, <2>4, <2>5
<1>8. ASSUME NEW do \in {"ErrorReset", "ErrorWait", "Ready", "SendNull"}, Runs(do, k) PROVE FALSE
  <2>1. Has(c, do, k, 0)
    BY <1>7, <1>8
  <2>2. do # "ErrorReset"
    BY <1>1, <1>4, <2>1
  <2> QED
    BY <1>5, <1>8, <2>1, <2>2
<1>9. ASSUME Moves(k, "SendFCT", NewFCT(k), "CONNECTING"), Grows(Rest, calendar', NewFCT(k))
      PROVE  HalfWay(calendar', machineState', n)
  <2>1. /\ k = n /\ Runs("SendFCT", k)
        /\ machineState' = [machineState EXCEPT ![k] = "CONNECTING"]
    BY <1>1, <1>4, <1>7, <1>9 DEF Moves
  <2>2. machineState'[n] = "CONNECTING" /\ machineState'[m] = "CONNECTING"
    BY <1>1, <1>3, <2>1
  <2> DEFINE E == {<<"ReceiveFCT", m, LATENCY>>, <<"SendFCT", n, PERIOD>>}
  <2>3. Grows(r, s, E)
    BY <1>9, <2>1 DEF NewFCT, m, r, s
  <2> HIDE DEF E
  <2>4. /\ \A do, i, t : Has(s, do, i, t) <=> Has(r, do, i, t) \/ <<do, i, t>> \in E
        /\ \A a, b, i, t : Precedes(s, a, b, i, t) => Precedes(r, a, b, i, t) \/ <<b, i, t>> \in E
    BY <2>3 DEF Grows
  <2>5. /\ \A i, t : Has(s, "ErrorReset", i, t) => Has(r, "ErrorReset", i, t)
        /\ Has(r, "ReceiveFCT", m, 0) => Has(s, "ReceiveFCT", m, 0)
        /\ \A t : Has(s, "ReceiveFCT", n, t) => Has(r, "ReceiveFCT", n, t)
        /\ Precedes(s, "SendFCT", "ReceiveFCT", m, 0) => Precedes(r, "SendFCT", "ReceiveFCT", m, 0)
    BY <1>1, <1>2, <2>4 DEF E
  <2>6. /\ \A i, t : Has(r, "ErrorReset", i, t) => Has(c, "ErrorReset", i, t)
        /\ Has(r, "ReceiveFCT", m, 0)
        /\ \A t : ~Has(r, "ReceiveFCT", n, t)
        /\ ~Precedes(r, "SendFCT", "ReceiveFCT", m, 0)
    BY <1>4, <1>7, <2>1
  <2> QED
    BY <1>4, <2>2, <2>5, <2>6 DEF HalfWay, m, s
<1>10. ASSUME Idles(k, "ReceiveNull")
       PROVE  HalfWay(calendar', machineState', n)
  <2>1. Runs("ReceiveNull", k) /\ machineState' = machineState /\ s = r
    BY <1>10 DEF Idles, s, r
  <2>2. /\ \A i, t : Has(r, "ErrorReset", i, t) => Has(c, "ErrorReset", i, t)
        /\ Has(r, "ReceiveFCT", m, 0)
        /\ \A t : ~Has(r, "ReceiveFCT", n, t)
        /\ ~Precedes(r, "SendFCT", "ReceiveFCT", m, 0)
    BY <1>4, <1>7, <2>1
  <2> QED
    BY <1>3, <1>4, <2>1, <2>2 DEF HalfWay, m, s
<1>11. ASSUME Handles(k) PROVE HalfWay(calendar', machineState', n)
  BY <1>3, <1>8, <1>9, <1>10, <1>11 DEF Handles, Moves
<1>12. ASSUME Opens(k)
       PROVE  /\ OneIsUp(calendar', machineState', n) /\ OnlyStartUp(calendar')
              /\ \A i \in Node : m_queue'[i] = <<>>
  <2> DEFINE H == {"stateChangeToErrorReset", "sendNull", "sendFCT"}
  <2>1. Runs("ReceiveFCT", k) /\ RunSpWState(k, r)
    BY <1>12 DEF Opens, r
  <2>2. k = m
    BY <1>1, <1>4, <1>7, <2>1
  <2>3. m_queue[k] = <<>>
    OBVIOUS
  <2>4. /\ machineState' = [machineState EXCEPT ![m] = "RUN"]
        /\ m_queue' = [m_queue EXCEPT ![m] = <<>>]
        /\ s = Cancel(r, m, H)
    BY <2>1, <2>2, <2>3 DEF RunSpWState, Transmit, s
  <2>5. Cuts(r, s, m)
    <3>1. Calendar(r) /\ Tidy(r) /\ H \in SUBSET Handle
      BY <2>1, HandlerFinds DEF Handle, r
    <3> QED
      BY <1>1, <2>4, <3>1, CancelCuts
  <2>6. machineState'[m] = "RUN" /\ machineState'[n] = "CONNECTING"
        /\ \A i \in Node : m_queue'[i] = <<>>
    BY <1>1, <1>3, <2>4
  <2>7. OnlyStartUp(r)
    BY <1>1, <2>1, RestStartUp DEF Runs, r
  <2>8. \A do, i, t : Has(s, do, i, t) => Has(r, do, i, t)
    BY <2>5 DEF Cuts
  <2>9. OnlyStartUp(s)
    BY <2>7, <2>8 DEF OnlyStartUp
  <2>10. \A t : ~Has(s, "ReceiveFCT", n, t)
    BY <1>4, <1>7, <2>1, <2>8
  <2>11. ASSUME NEW do, NEW t, Has(s, do, m, t) PROVE do \in {"ReceiveNull", "ReceiveFCT"}
    <3>1. do \in StartUp
      BY <2>9, <2>11 DEF OnlyStartUp
    <3>2. PICK i \in 1 .. Len(s) : s[i].do = do /\ s[i].dev = m
      BY <2>11 DEF Has
    <3>3. Only(s, m, Kinds("RUN"))
      BY <1>6, <2>6 DEF s
    <3>4. Kind(s[i]) \in {do, "Start"}
      BY <3>2 DEF Kind
    <3>5. Kind(s[i]) \notin Own
      BY <3>1, <3>2, <3>3, <3>4 DEF Only, Kinds, StartUp
    <3> QED
      BY <3>1, <3>4, <3>5 DEF StartUp, Own, Chain
  <2>12. OneIsUp(calendar', machineState', n)
    BY <2>6, <2>10, <2>11 DEF OneIsUp, m, s
  <2> QED
    BY <2>6, <2>9, <2>12 DEF s
<1> QED
  BY <1>11, <1>12

\* Apart from the start of RUN, a handler either does nothing or is one of these.
Alters(k, do, E, p) ==
  /\ Moves(k, do, E, p) /\ Usual(E, k) /\ p \notin {"RUN", "BUSY"} /\ do # "ReceiveFCT"
  /\ do = "ReceiveNull" => machineState[k] = "STARTED"

LEMMA HandlesUsual ==
  ASSUME NEW k \in Node, Handles(k)
  PROVE  \/ Idles(k, "ReceiveNull") \/ Idles(k, "ReceiveFCT")
         \/ \E do, E, p : Alters(k, do, E, p)
<1>1. Usual(NewNull(k), k) /\ Usual(NewFCT(k), k)
  BY UsualEvents DEF NewNull, NewFCT
<1>2. CASE Moves(k, "ErrorReset", {<<"ErrorWait", k, SPW_HALF_DELAY>>}, "ERROR_RESET")
  <2>1. Alters(k, "ErrorReset", {<<"ErrorWait", k, SPW_HALF_DELAY>>}, "ERROR_RESET")
    BY <1>2, UsualEvents DEF Alters
  <2> QED
    BY <2>1
<1>3. CASE Moves(k, "ErrorWait", {<<"Ready", k, SPW_DELAY>>}, "ERROR_WAIT")
  <2>1. Alters(k, "ErrorWait", {<<"Ready", k, SPW_DELAY>>}, "ERROR_WAIT")
    BY <1>3, UsualEvents DEF Alters
  <2> QED
    BY <2>1
<1>4. CASE Moves(k, "Ready", {<<"ErrorReset", k, SPW_DELAY>>, <<"SendNull", k, 0>>}, "STARTED")
  <2>1. Alters(k, "Ready", {<<"ErrorReset", k, SPW_DELAY>>, <<"SendNull", k, 0>>}, "STARTED")
    BY <1>4, UsualEvents DEF Alters
  <2> QED
    BY <2>1
<1>5. CASE /\ machineState[k] = "STARTED"
           /\ Moves(k, "ReceiveNull", {<<"ErrorReset", k, SPW_DELAY>>, <<"SendFCT", k, 0>>},
                    "CONNECTING")
  <2>1. Alters(k, "ReceiveNull", {<<"ErrorReset", k, SPW_DELAY>>, <<"SendFCT", k, 0>>},
               "CONNECTING")
    BY <1>5, UsualEvents DEF Alters
  <2> QED
    BY <2>1
<1>6. CASE Moves(k, "SendNull", NewNull(k), "STARTED")
  <2>1. Alters(k, "SendNull", NewNull(k), "STARTED")
    BY <1>1, <1>6 DEF Alters
  <2> QED
    BY <2>1
<1>7. CASE Moves(k, "SendFCT", NewFCT(k), "CONNECTING")
  <2>1. Alters(k, "SendFCT", NewFCT(k), "CONNECTING")
    BY <1>1, <1>7 DEF Alters
  <2> QED
    BY <2>1
<1> QED
  BY <1>2, <1>3, <1>4, <1>5, <1>6, <1>7 DEF Handles

LEMMA OneIsUpStep ==
  ASSUME LinkTypes, ChainInv, NEW n \in Node, OneIsUp(calendar, machineState, n),
         NEW k \in Node, Handles(k) \/ Opens(k)
  PROVE  OneIsUp(calendar', machineState', n) /\ ~Opens(k)
<1> DEFINE m == Peer(n)
           c == calendar
           r == Rest
           s == calendar'
           h == Head(calendar).in
<1>1. /\ m \in Node /\ m # n /\ Peer(m) = n /\ (k = n \/ k = m)
      /\ machineState \in [Node -> MachineState]
  BY PeerType, PeerOfPeer DEF LinkTypes, DeviceInv
<1>2. /\ machineState[n] \notin {"RUN", "BUSY"} /\ machineState[m] \in {"RUN", "DOWN"}
      /\ \A do, t : Has(c, do, m, t) => do \in {"ReceiveNull", "ReceiveFCT"}
      /\ \A t : ~Has(c, "ReceiveFCT", n, t)
  BY DEF OneIsUp
<1> HIDE DEF m, c, r, s, h
<1>3. ASSUME NEW do, Runs(do, k)
      PROVE  /\ Has(c, do, k, h)
             /\ \A a, t : Has(r, a, m, t) => a \in {"ReceiveNull", "ReceiveFCT"}
             /\ \A t : ~Has(r, "ReceiveFCT", n, t)
  <2>1. /\ Has(c, do, k, h)
        /\ \A a, i, t : Has(r, a, i, t) => Has(c, a, i, t + h)
    BY <1>3, HeadLeaves DEF c, r, h
  <2> QED
    BY <1>2, <2>1
<1>4. ~Opens(k)
  <2> SUFFICES ASSUME Opens(k) PROVE FALSE
    OBVIOUS
  <2>1. Runs("ReceiveFCT", k) /\ machineState[k] = "CONNECTING"
    BY DEF Opens
  <2> QED
    BY <1>1, <1>2, <1>3, <2>1
<1>5. CASE Idles(k, "ReceiveNull") \/ Idles(k, "ReceiveFCT")
  <2>1. PICK do : Runs(do, k) /\ s = r /\ machineState' = machineState
    BY <1>5 DEF Idles, s, r
  <2> QED
    BY <1>2, <1>3, <1>4, <2>1 DEF OneIsUp, m, s
<1>6. ASSUME NEW do, NEW E, NEW p, Alters(k, do, E, p)
      PROVE  OneIsUp(calendar', machineState', n)
  <2>0. /\ Usual(E, k) /\ Moves(k, do, E, p) /\ Runs(do, k) /\ p \notin {"RUN", "BUSY"}
        /\ do = "ReceiveNull" => machineState[k] = "STARTED"
        /\ do # "ReceiveFCT"
    BY <1>6 DEF Alters, Moves
  <2>1. k = n
    BY <1>1, <1>2, <1>3, <2>0
  <2>2. machineState' = [machineState EXCEPT ![n] = p] /\ Changes(r, s, n, E)
    BY <2>0, <2>1 DEF Moves, r, s
  <2>3. \A a, i, t : Has(s, a, i, t) => Has(r, a, i, t) \/ <<a, i, t>> \in E
    BY <2>2, Changed
  <2>4. /\ \A a, t : <<a, m, t>> \in E => a \in {"ReceiveNull", "ReceiveFCT"}
        /\ \A t : <<"ReceiveFCT", n, t>> \notin E
    BY <1>1, <2>0, <2>1 DEF Usual, m
  <2>5. machineState'[n] = p /\ machineState'[m] = machineState[m]
    BY <1>1, <2>2
  <2>6. /\ \A a, t : Has(s, a, m, t) => a \in {"ReceiveNull", "ReceiveFCT"}
        /\ \A t : ~Has(s, "ReceiveFCT", n, t)
    BY <1>3, <2>0, <2>3, <2>4
  <2> QED
    BY <1>2, <2>0, <2>5, <2>6 DEF OneIsUp, m, s
<1> QED
  BY <1>4, <1>5, <1>6, HandlesUsual

LEMMA OpeningOpens ==
  ASSUME LinkTypes, ChainInv, NEW n \in Node, Opening(calendar, machineState, n),
         NEW k \in Node
  PROVE  ~Opens(k)
<1> SUFFICES ASSUME Opens(k) PROVE FALSE
  OBVIOUS
<1>1. Has(calendar, "ReceiveFCT", k, Head(calendar).in) /\ machineState[k] = "CONNECTING"
  BY HeadLeaves DEF Opens
<1>2. k = n \/ k = Peer(n)
  BY PeerType
<1> QED
  BY <1>1, <1>2 DEF Opening

\* A call from outside comes.
LEMMA ApartCall ==
  ASSUME Timing, LinkTypes, NEW d \in Gap, CallAt(d), NEW half,
         Apart(calendar, machineState, half)
  PROVE  Apart(Later(calendar, d), machineState, half)
<1> DEFINE r == Later(calendar, d)
<1>1. /\ Elapsed(calendar, r, d) /\ \A do, n : Left(calendar, r, d, do, n)
  BY CallElapsed DEF LinkTypes
<1>2. d \in Nat
  BY LinkAssumption
<1>3. PICK v \in [Node -> Int] :
        \A n \in Node : Side(calendar, machineState[n], machineState[Peer(n)],
                             v[n], v[Peer(n)], n, half)
  BY DEF Apart
<1> HIDE DEF r
<1>4. PICK n \in Node : TRUE
  BY LinkAssumption
<1>5. ASSUME NEW k \in Node, NEW m \in Node, m = Peer(k)
      PROVE  Side(r, machineState[k], machineState[m], v[k] + d, v[m] + d, k, half)
  <2> DEFINE p == machineState[k]
             q == machineState[m]
  <2>1. /\ v[k] \in Int /\ v[m] \in Int
        /\ On(calendar, p, v[k], k) /\ Facts(calendar, p, q, v[k], v[m], k, half)
        /\ Behind(calendar, p, q, v[k], v[m], k)
    BY <1>3, <1>5 DEF Side
  <2> HIDE DEF p, q
  <2>2. p = "STARTED" => v[k] >= 0
    BY <2>1, States DEF On
  <2>3. On(r, p, v[k] + d, k)
    BY <1>1, <1>2, <2>1, OnLater
  <2>4. Facts(r, p, q, v[k] + d, v[m] + d, k, half)
    BY <1>1, <2>1, <2>2, FactsLater
  <2>5. Behind(r, p, q, v[k] + d, v[m] + d, k)
    BY <1>1, <1>2, <2>1, <2>2, BehindLater
  <2> QED
    BY <2>3, <2>4, <2>5 DEF Side, p, q
<1>6. /\ Peer(n) \in Node /\ Peer(Peer(n)) = n
      /\ v[n] + d \in Int /\ v[Peer(n)] + d \in Int
  BY <1>2, PeerOfPeer
<1>7. Apart(r, machineState, half)
  BY <1>5, <1>6, ApartBy
<1> QED
  BY <1>7 DEF r

\* Devices that have not been started.
LEMMA ApartAtFirst ==
  ASSUME Timing, Init, ~InStep
  PROVE  OnlyStartUp(calendar) /\ Apart(calendar, machineState, HalfOpen)
<1>1. PICK n \in Node : calendar = Schedule(Schedule(<<>>, 0, "ErrorReset", n, NoUid),
                                            offset, "ErrorReset", Peer(n), NoUid)
  BY DEF Init
<1> DEFINE m == Peer(n)
           a == Schedule(<<>>, 0, "ErrorReset", n, NoUid)
           c == calendar
           x == SPW_DELAY
           y == SPW_DELAY - offset
<1>2. /\ offset \in Nat /\ m \in Node /\ m # n /\ Peer(m) = n
      /\ SPW_DELAY \in Nat /\ 0 \in Nat
  BY LinkAssumption, PeerOfPeer DEF Init
<1>3. machineState[n] = "DOWN" /\ machineState[m] = "DOWN"
  BY <1>2 DEF Init
<1>4. FarApart(offset, HalfOpen) /\ FarApart(-offset, HalfOpen)
  BY <1>2, FarAtFirst
<1>5. Calendar(<<>>) /\ "ErrorReset" \in Handler \ Carrying
  BY EmptySeq DEF Calendar, InRunOrder, Handler, Carrying
<1>6. Grows(<<>>, a, {<<"ErrorReset", n, 0>>})
  BY <1>2, <1>5, ScheduleGrows
<1>7. Grows(a, c, {<<"ErrorReset", m, offset>>})
  <2>1. Calendar(a)
    BY <1>6 DEF Grows
  <2> QED
    BY <1>1, <1>2, <1>5, <2>1, ScheduleGrows
<1>8. \A do, k, t : Has(c, do, k, t) <=> \/ <<do, k, t>> = <<"ErrorReset", n, 0>>
                                         \/ <<do, k, t>> = <<"ErrorReset", m, offset>>
  <2>1. \A do, k, t : ~Has(<<>>, do, k, t)
    BY EmptySeq DEF Has
  <2> QED
    BY <1>6, <1>7, <2>1 DEF Grows
<1>9. /\ Has(c, "ErrorReset", n, 0) /\ Has(c, "ErrorReset", m, offset)
      /\ \A do, k, t : Has(c, do, k, t) => do = "ErrorReset"
  BY <1>8
<1>10. x \in Int /\ y \in Int /\ SPW_DELAY - x = 0 /\ SPW_DELAY - y = offset
       /\ x - y = offset /\ y - x = -offset
  BY <1>2
<1> HIDE DEF m, c, x, y
<1>11. On(c, "DOWN", x, n) /\ On(c, "DOWN", y, m)
  BY <1>9, <1>10, States DEF On, Waiting
<1>12. ASSUME NEW k \in Node, NEW u, NEW w, FarApart(u - w, HalfOpen)
       PROVE  Facts(c, "DOWN", "DOWN", u, w, k, HalfOpen) /\ Behind(c, "DOWN", "DOWN", u, w, k)
  <2>1. \A t : ~Precedes(c, "ReceiveNull", "ErrorReset", k, t)
    <3> SUFFICES ASSUME NEW t, Precedes(c, "ReceiveNull", "ErrorReset", k, t) PROVE FALSE
      OBVIOUS
    <3>1. Has(c, "ReceiveNull", k, t)
      BY DEF Precedes, Has
    <3> QED
      BY <1>9, <3>1
  <2>2. \A i, t : /\ ~Has(c, "SendNull", i, t) /\ ~Has(c, "ReceiveNull", i, t)
                  /\ ~Has(c, "ReceiveFCT", i, t)
    BY <1>9
  <2> QED
    BY <1>12, <2>1, <2>2
       DEF Facts, Behind, SendsNulls, NullsOf, FctsOf, Harmless, InTime, AtOnce
<1>13. /\ Side(c, "DOWN", "DOWN", x, y, n, HalfOpen) /\ Side(c, "DOWN", "DOWN", y, x, m, HalfOpen)
  <2>1. FarApart(x - y, HalfOpen) /\ FarApart(y - x, HalfOpen)
    BY <1>4, <1>10
  <2> QED
    BY <1>2, <1>11, <1>12, <2>1 DEF Side
<1>14. Apart(c, machineState, HalfOpen)
  <2>1. /\ Side(c, machineState[n], machineState[Peer(n)], x, y, n, HalfOpen)
        /\ Side(c, machineState[Peer(n)], machineState[n], y, x, Peer(n), HalfOpen)
    BY <1>3, <1>13 DEF m
  <2> QED
    BY <1>10, <2>1, ApartBy
<1>15. OnlyStartUp(c)
  BY <1>9 DEF OnlyStartUp, StartUp
<1> QED
  BY <1>14, <1>15 DEF c

-----------------------------------------------------------------------------
\* What is so of devices that are not in step: no packet is on its way, and they stay
\* apart or the link is half open.
StartUpInv ==
  \/ InStep
  \/ /\ ChainInv /\ OnlyStartUp(calendar)
     /\ HalfOpen => \A n \in Node : m_queue[n] = <<>>
     /\ \/ Apart(calendar, machineState, HalfOpen)
        \/ HalfOpen /\ HalfOpened(calendar, machineState)

LEMMA KeepsOffset ==
  ASSUME [Next]_vars
  PROVE  offset' = offset /\ InStep' = InStep /\ HalfOpen' = HalfOpen
<1>1. offset' = offset
  <2>1. CASE UNCHANGED vars
    BY <2>1 DEF vars
  <2>2. CASE Next
    BY <2>2 DEF Next, Step, ErrorResetSpWState, ErrorWaitSpWState, ReadySpWState, SendNull,
       ReceiveNull, SendFCT, ReceiveFCT, TransmitComplete, TransmissionComplete,
       HandlingArrivedComplete, ReceiveIntact, ReceiveCorrupt, ApproachLinkDisconnection,
       Send, Shutdown, calls
  <2> QED
    BY <2>1, <2>2
<1>2. Lead' = Lead
  BY <1>1 DEF Lead, CYCLE
<1> QED
  BY <1>1, <1>2 DEF InStep, HalfOpen

LEMMA InitStartUp ==
  ASSUME Timing, Init
  PROVE  StartUpInv
<1>1. ChainInv /\ \A n \in Node : m_queue[n] = <<>>
  BY InitChain DEF Init
<1> QED
  BY <1>1, ApartAtFirst DEF StartUpInv

\* Nobody is in RUN or BUSY while they are apart.
LEMMA NobodyUp ==
  ASSUME NEW c, NEW half, Apart(c, machineState, half), NEW n \in Node
  PROVE  machineState[n] \notin {"RUN", "BUSY"}
<1>1. machineState[n] \in Waiting
  BY DEF Apart, Side, On
<1> QED
  BY <1>1 DEF Waiting

LEMMA StepStartUp ==
  ASSUME Timing, ShutdownIn \subseteq {"RUN"}, LinkTypes, StartUpInv, [Next]_vars
  PROVE  StartUpInv'
<1>1. /\ offset' = offset /\ InStep' = InStep /\ HalfOpen' = HalfOpen
  BY KeepsOffset
<1>2. CASE InStep
  BY <1>1, <1>2 DEF StartUpInv
<1>3. CASE UNCHANGED vars
  <2>1. calendar' = calendar /\ machineState' = machineState /\ m_queue' = m_queue
    BY <1>3 DEF vars
  <2>2. ChainInv' = ChainInv
    BY <2>1 DEF ChainInv
  <2> QED
    BY <1>1, <2>1, <2>2 DEF StartUpInv
<1>4. CASE ~InStep /\ Next
  <2>1. /\ ChainInv /\ OnlyStartUp(calendar)
        /\ HalfOpen => \A n \in Node : m_queue[n] = <<>>
        /\ \/ Apart(calendar, machineState, HalfOpen)
           \/ HalfOpen /\ HalfOpened(calendar, machineState)
    BY <1>4 DEF StartUpInv
  <2>2. ASSUME /\ ChainInv' /\ OnlyStartUp(calendar')
               /\ HalfOpen => \A n \in Node : m_queue'[n] = <<>>
               /\ \/ Apart(calendar', machineState', HalfOpen)
                  \/ HalfOpen /\ HalfOpened(calendar', machineState')
        PROVE  StartUpInv'
    BY <1>1, <2>2 DEF StartUpInv
  <2>3. /\ machineState \in [Node -> MachineState] /\ offset \in Nat
    BY LinkAssumption DEF LinkTypes, DeviceInv
  <2>4. PICK k \in Node : Step(k) \/ Send(k) \/ Shutdown(k)
    BY <1>4 DEF Next
  <2>5. CASE Step(k)
    <3>1. /\ ChainInv'
          /\ \/ Handles(k) /\ OnlyStartUp(calendar')
             \/ Opens(k)
      BY <2>1, <2>5, StepHandles
    <3>2. Handles(k) => m_queue' = m_queue
      BY DEF Handles, Moves, Idles
    <3>3. CASE Apart(calendar, machineState, HalfOpen)
      <4>1. Handles(k) /\ OnlyStartUp(calendar')
        BY <2>1, <3>1, <3>3, ApartOpens
      <4>2. \/ Apart(calendar', machineState', HalfOpen)
            \/ HalfOpen /\ Opening(calendar', machineState', k)
        BY <2>1, <3>1, <3>3, <4>1, ApartHandles
      <4>3. \/ Apart(calendar', machineState', HalfOpen)
            \/ HalfOpen /\ HalfOpened(calendar', machineState')
        BY <4>2 DEF HalfOpened
      <4> QED
        BY <2>1, <2>2, <3>1, <3>2, <4>1, <4>3
    <3>4. CASE HalfOpen /\ HalfOpened(calendar, machineState)
      <4>1. LATENCY + LATENCY < SPW_DELAY /\ \A i \in Node : m_queue[i] = <<>>
        BY <2>1, <2>3, <3>4, HalfIsLong
      <4>2. PICK n \in Node : \/ Opening(calendar, machineState, n)
                              \/ HalfWay(calendar, machineState, n)
                              \/ OneIsUp(calendar, machineState, n)
        BY <3>4 DEF HalfOpened
      <4>3. CASE Opening(calendar, machineState, n)
        <5>1. \/ Opening(calendar', machineState', n) \/ HalfWay(calendar', machineState', n)
          BY <2>1, <3>1, <4>1, <4>3, OpeningStep
        <5>2. HalfOpened(calendar', machineState')
          BY <5>1 DEF HalfOpened
        <5>3. ~Opens(k)
          BY <2>1, <4>3, OpeningOpens
        <5>4. Handles(k) /\ OnlyStartUp(calendar')
          BY <3>1, <5>3
        <5> QED
          BY <2>2, <3>1, <3>2, <3>4, <4>1, <5>2, <5>4
      <4>4. CASE HalfWay(calendar, machineState, n)
        <5>1. /\ Handles(k) => HalfWay(calendar', machineState', n)
              /\ Opens(k) => /\ OneIsUp(calendar', machineState', n) /\ OnlyStartUp(calendar')
                             /\ \A i \in Node : m_queue'[i] = <<>>
          BY <2>1, <3>1, <4>1, <4>4, HalfWayStep
        <5>2. HalfOpened(calendar', machineState')
          BY <3>1, <5>1 DEF HalfOpened
        <5> QED
          BY <2>2, <3>1, <3>2, <3>4, <4>1, <5>1, <5>2
      <4>5. CASE OneIsUp(calendar, machineState, n)
        <5>1. OneIsUp(calendar', machineState', n) /\ ~Opens(k)
          BY <2>1, <3>1, <4>5, OneIsUpStep
        <5>2. HalfOpened(calendar', machineState')
          BY <5>1 DEF HalfOpened
        <5>3. Handles(k) /\ OnlyStartUp(calendar')
          BY <3>1, <5>1
        <5> QED
          BY <2>2, <3>1, <3>2, <3>4, <4>1, <5>1, <5>2, <5>3
      <4> QED
        BY <4>2, <4>3, <4>4, <4>5
    <3> QED
      BY <2>1, <3>3, <3>4
  <2>6. CASE Send(k)
    <3>1. PICK d \in Gap :
            /\ CallAt(d) /\ SendPoint(k)
            /\ machineState[k] # "RUN" =>
                 calendar' = Later(calendar, d) /\ UNCHANGED machineState
      BY <2>6 DEF Send
    <3>2. ~HalfOpen
      BY <3>1 DEF SendPoint
    <3>3. Apart(calendar, machineState, HalfOpen)
      BY <2>1, <3>2
    <3>4. calendar' = Later(calendar, d) /\ machineState' = machineState
      BY <3>1, <3>3, NobodyUp
    <3>5. Apart(calendar', machineState', HalfOpen)
      BY <3>1, <3>3, <3>4, ApartCall
    <3>6. OnlyStartUp(calendar')
      <4>1. Elapsed(calendar, Later(calendar, d), d)
        BY <3>1, CallElapsed DEF LinkTypes
      <4> QED
        BY <2>1, <3>4, <4>1 DEF Elapsed, OnlyStartUp
    <3>7. ChainInv'
      BY <2>1, <2>6, SendStep
    <3> QED
      BY <2>2, <3>2, <3>5, <3>6, <3>7
  <2>7. CASE Shutdown(k)
    <3>1. /\ machineState[k] = "RUN" /\ machineState' = [machineState EXCEPT ![k] = "DOWN"]
          /\ m_queue' = m_queue /\ calendar' = calendar
      BY <2>7 DEF Shutdown, Enter
    <3>2. ChainInv'
      BY <2>1, <2>7, ShutdownStep
    <3>3. HalfOpen /\ HalfOpened(calendar, machineState)
      BY <2>1, <3>1, NobodyUp
    <3>4. PICK n \in Node : \/ Opening(calendar, machineState, n)
                            \/ HalfWay(calendar, machineState, n)
                            \/ OneIsUp(calendar, machineState, n)
      BY <3>3 DEF HalfOpened
    <3>5. Peer(n) \in Node /\ Peer(n) # n /\ (k = n \/ k = Peer(n))
      BY PeerType
    <3>6. OneIsUp(calendar, machineState, n) /\ k # n
      BY <3>1, <3>4, <3>5 DEF Opening, HalfWay, OneIsUp
    <3>7. machineState'[n] = machineState[n] /\ machineState'[Peer(n)] = "DOWN"
      BY <2>3, <3>1, <3>5, <3>6
    <3>8. OneIsUp(calendar', machineState', n)
      BY <3>1, <3>6, <3>7 DEF OneIsUp
    <3>9. HalfOpened(calendar', machineState')
      BY <3>8 DEF HalfOpened
    <3>10. OnlyStartUp(calendar') /\ \A i \in Node : m_queue'[i] = <<>>
      BY <2>1, <3>1, <3>3
    <3> QED
      BY <2>2, <3>2, <3>3, <3>9, <3>10
  <2> QED
    BY <2>4, <2>5, <2>6, <2>7
<1> QED
  BY <1>2, <1>3, <1>4

\* With these delays, and if only a device in RUN is shut down, devices that start out
\* of step never connect, however often they try, and none takes itself for connected
\* but for the offsets at which a NULL and an FCT arrive together
\* (SpWDevice::StartedSpWState, ConnectingSpWState, ReceiveNull and ReceiveFCT,
\* spw-device.cc:624-702).
THEOREM MeetOnlyInStep ==
  ASSUME Timing, ShutdownIn \subseteq {"RUN"}
  PROVE  Spec => []MeetsInStep
<1>1. LinkTypes /\ StartUpInv => MeetsInStep
  <2> SUFFICES ASSUME LinkTypes, StartUpInv, ~InStep
               PROVE  ~LinkUp /\ ((\E n \in Node : Up(n)) => HalfOpen)
    BY DEF MeetsInStep
  <2>1. \/ Apart(calendar, machineState, HalfOpen)
        \/ HalfOpen /\ HalfOpened(calendar, machineState)
    BY DEF StartUpInv
  <2>2. PICK k \in Node : TRUE
    BY LinkAssumption
  <2>3. CASE Apart(calendar, machineState, HalfOpen)
    BY <2>2, <2>3, NobodyUp DEF LinkUp, Up
  <2>4. CASE HalfOpen /\ HalfOpened(calendar, machineState)
    <3>1. \E n \in Node : machineState[n] \notin {"RUN", "BUSY"}
      BY <2>4 DEF HalfOpened, Opening, HalfWay, OneIsUp
    <3> QED
      BY <2>4, <3>1 DEF LinkUp, Up
  <2> QED
    BY <2>1, <2>3, <2>4
<1>2. Init => LinkTypes /\ StartUpInv
  BY InitTypes, InitStartUp
<1>3. LinkTypes /\ StartUpInv /\ [Next]_vars => LinkTypes' /\ StartUpInv'
  BY StepTypes, StepStartUp
<1> QED
  BY <1>1, <1>2, <1>3, PTL DEF Spec
=============================================================================
