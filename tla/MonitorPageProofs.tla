------------------------- MODULE MonitorPageProofs -------------------------
(***************************************************************************)
(* Proofs about the parts of MonitorPage: the card of the uptime, the      *)
(* lists of interfaces, the charts of what the page receives, and what its *)
(* panels say of the same thing.                                           *)
(***************************************************************************)
EXTENDS MonitorPage, WellFoundedInduction, FiniteSetTheorems, TLAPS

-----------------------------------------------------------------------------
(* The uptime *)

LEMMA LastSecondNat == LastSecond \in Nat
  BY SMT DEF LastSecond

\* A sample that was formatted is parsed to the same number of seconds.
LEMMA FormatThenParse ==
    ASSUME NEW s \in 0..LastSecond
    PROVE  /\ Format(s) \in Uptimes
           /\ Parse(Format(s)) \in Clocks
           /\ Total(Parse(Format(s))) = s
<1> DEFINE d == s \div 86400
           h == (s % 86400) \div 3600
           m == (s % 3600) \div 60
           c == s % 60
<1>0. s \in Nat
  BY LastSecondNat
<1>1. /\ d \in Nat /\ h \in 0..23 /\ m \in 0..59 /\ c \in 0..59
      /\ ((d * 24 + h) * 60 + m) * 60 + c = s
  BY <1>0, SMT
<1>2. Format(s) = [form |-> IF d > 0 THEN "dhms" ELSE "hms", d |-> d, h |-> h, m |-> m, s |-> c]
  BY DEF Format
<1>3. Format(s) \in Uptimes
  BY <1>1, <1>2 DEF Uptimes
<1> HIDE DEF d, h, m, c
<1>4. Parse(Format(s)) = [days |-> d, hours |-> h, minutes |-> m, seconds |-> c]
  <2>1. CASE d > 0
    BY <2>1, <1>2 DEF Parse
  <2>2. CASE ~(d > 0)
    <3>1. d = 0
      BY <2>2, <1>1
    <3> QED
      BY <2>2, <3>1, <1>2 DEF Parse
  <2> QED
    BY <2>1, <2>2
<1>5. Total(Parse(Format(s))) = ((d * 24 + h) * 60 + m) * 60 + c
  BY <1>4 DEF Total
<1>6. Parse(Format(s)) \in Clocks
  BY <1>1, <1>4 DEF Clocks
<1> QED
  BY <1>1, <1>3, <1>5, <1>6

\* The seconds of a clock are a number.
LEMMA TotalIsNat ==
    ASSUME NEW u \in Clocks
    PROVE  Total(u) \in Nat
<1>1. u.days \in Nat /\ u.hours \in 0..23 /\ u.minutes \in 0..59 /\ u.seconds \in 0..59
  BY DEF Clocks
<1>2. u.days * 24 + u.hours \in Nat
  BY <1>1
<1>3. (u.days * 24 + u.hours) * 60 + u.minutes \in Nat
  BY <1>1, <1>2
<1>4. ((u.days * 24 + u.hours) * 60 + u.minutes) * 60 + u.seconds \in Nat
  BY <1>1, <1>3
<1> QED
  BY <1>4 DEF Total

\* incrementUptime adds a second and keeps the clock a clock.
LEMMA IncrementAddsOne ==
    ASSUME NEW u \in Clocks
    PROVE  /\ Increment(u) \in Clocks
           /\ Total(Increment(u)) = Total(u) + 1
<1>0. u.days \in Nat /\ u.hours \in 0..23 /\ u.minutes \in 0..59 /\ u.seconds \in 0..59
  BY DEF Clocks
<1>1. CASE u.seconds < 59
  <2>1. Increment(u) = [days |-> u.days, hours |-> u.hours, minutes |-> u.minutes,
                        seconds |-> u.seconds + 1]
    BY <1>0, <1>1 DEF Increment
  <2>2. Increment(u) \in Clocks
    BY <1>0, <1>1, <2>1 DEF Clocks
  <2>3. Total(Increment(u)) = ((u.days * 24 + u.hours) * 60 + u.minutes) * 60 + (u.seconds + 1)
    BY <2>1 DEF Total
  <2>4. (u.days * 24 + u.hours) * 60 + u.minutes \in Nat
    <3>1. u.days * 24 + u.hours \in Nat
      BY <1>0
    <3> QED
      BY <1>0, <3>1
  <2>5. Total(u) = ((u.days * 24 + u.hours) * 60 + u.minutes) * 60 + u.seconds
    BY DEF Total
  <2> QED
    BY <1>0, <1>1, <2>2, <2>3, <2>4, <2>5
<1>2. CASE u.seconds = 59 /\ u.minutes < 59
  <2>1. Increment(u) = [days |-> u.days, hours |-> u.hours, minutes |-> u.minutes + 1,
                        seconds |-> 0]
    BY <1>0, <1>2 DEF Increment
  <2>2. Increment(u) \in Clocks
    BY <1>0, <1>2, <2>1 DEF Clocks
  <2>3. Total(Increment(u)) = ((u.days * 24 + u.hours) * 60 + (u.minutes + 1)) * 60 + 0
    BY <2>1 DEF Total
  <2>4. u.days * 24 + u.hours \in Nat
    BY <1>0
  <2>5. Total(u) = ((u.days * 24 + u.hours) * 60 + u.minutes) * 60 + u.seconds
    BY DEF Total
  <2> QED
    BY <1>0, <1>2, <2>2, <2>3, <2>4, <2>5
<1>3. CASE u.seconds = 59 /\ u.minutes = 59 /\ u.hours < 23
  <2>1. Increment(u) = [days |-> u.days, hours |-> u.hours + 1, minutes |-> 0, seconds |-> 0]
    BY <1>0, <1>3 DEF Increment
  <2>2. Increment(u) \in Clocks
    BY <1>0, <1>3, <2>1 DEF Clocks
  <2>3. Total(Increment(u)) = ((u.days * 24 + (u.hours + 1)) * 60 + 0) * 60 + 0
    BY <2>1 DEF Total
  <2> QED
    BY <1>0, <1>3, <2>2, <2>3 DEF Total
<1>4. CASE u.seconds = 59 /\ u.minutes = 59 /\ u.hours = 23
  <2>1. Increment(u) = [days |-> u.days + 1, hours |-> 0, minutes |-> 0, seconds |-> 0]
    BY <1>0, <1>4 DEF Increment
  <2>2. Increment(u) \in Clocks
    BY <1>0, <1>4, <2>1 DEF Clocks
  <2>3. Total(Increment(u)) = (((u.days + 1) * 24 + 0) * 60 + 0) * 60 + 0
    BY <2>1 DEF Total
  <2> QED
    BY <1>0, <1>4, <2>2, <2>3 DEF Total
<1> QED
  BY <1>0, <1>1, <1>2, <1>3, <1>4

\* What is parsed is a clock.
LEMMA ParseClocks ==
    ASSUME NEW u \in Uptimes
    PROVE  Parse(u) \in Clocks
  BY DEF Uptimes, Clocks, Parse

\* The sample the page takes.
LEMMA FirstTypes ==
    ASSUME NEW w \in Seq(Samples)
    PROVE  First(w).value \in Uptimes /\ First(w).boot \in Int
<1>1. CASE w = <<>>
  BY <1>1 DEF First, NoUptime, NoBoot, Uptimes
<1>2. CASE w # <<>>
  <2>1. w[1] \in Samples
    BY <1>2
  <2> QED
    BY <1>2, <2>1 DEF First, Samples
<1> QED
  BY <1>1, <1>2

\* Sliding keeps the samples that were there.
LEMMA SlidKeeps ==
    ASSUME NEW w \in Seq(Samples), Len(w) <= MaxDataPoints, NEW e \in Samples
    PROVE  LET x == Slid(Append(w, e))
           IN  /\ x \in Seq(Samples) /\ Len(x) <= MaxDataPoints /\ x # <<>>
               /\ \A i \in DOMAIN x : x[i] = e \/ \E j \in DOMAIN w : x[i] = w[j]
<1> DEFINE y == Append(w, e)
<1>1. y \in Seq(Samples) /\ Len(y) = Len(w) + 1
  OBVIOUS
<1>2. \A i \in 1..Len(y) : y[i] = e \/ \E j \in DOMAIN w : y[i] = w[j]
  OBVIOUS
<1>3. CASE Len(y) > MaxDataPoints
  <2>1. Slid(y) = Tail(y)
    BY <1>3 DEF Slid
  <2>2. Tail(y) \in Seq(Samples) /\ Len(Tail(y)) = Len(w)
    BY <1>1
  <2>3. \A i \in 1..Len(w) : Tail(y)[i] = y[i + 1]
    BY <1>1
  <2>4. Len(w) >= 1
    BY <1>1, <1>3, ClockAssumption
  <2> QED
    BY <1>1, <1>2, <2>1, <2>2, <2>3, <2>4
<1>4. CASE ~(Len(y) > MaxDataPoints)
  BY <1>1, <1>2, <1>4, ClockAssumption DEF Slid
<1> QED
  BY <1>3, <1>4
-----------------------------------------------------------------------------
\* Type correctness.

LEMMA InitTypes == Init => TypeOK
<1> SUFFICES ASSUME Init PROVE TypeOK
  OBVIOUS
<1>1. NoUptime \in Uptimes /\ ParsedNothing \in Clocks
  BY DEF NoUptime, ParsedNothing, Uptimes, Clocks
<1>2. up \in 0..LastSecond /\ boot \in Nat /\ open \in Nat /\ missed \in Nat
  BY ClockAssumption DEF Init
<1>3. due \in 0..Interval
  BY ClockAssumption DEF Init
<1>4. window \in Seq(Samples) /\ Len(window) <= MaxDataPoints
  BY ClockAssumption DEF Init
<1>5. adopted \in Int /\ lastUptime \in Uptimes /\ current \in Clocks
  BY <1>1 DEF Init, NoBoot
<1> QED
  BY <1>2, <1>3, <1>4, <1>5 DEF TypeOK

\* Every variable holds a value of its kind, whatever the constants are.
THEOREM ClockTypes == Spec => []TypeOK
<1>1. Init => TypeOK
  BY InitTypes
<1>2. TypeOK /\ [Next]_vars => TypeOK'
  <2> SUFFICES ASSUME TypeOK, [Next]_vars PROVE TypeOK'
    OBVIOUS
  <2> USE DEF TypeOK
  <2>0. First(window).value \in Uptimes /\ First(window).boot \in Int
    BY FirstTypes
  <2>1. ASSUME NEW counted \in BOOLEAN, Second(counted) PROVE TypeOK'
    <3>1. Increment(current) \in Clocks
      BY IncrementAddsOne
    <3>2. up' \in 0..LastSecond /\ boot' \in Nat /\ open' \in Nat /\ due' \in 0..Interval
      BY <2>1, ClockAssumption, LastSecondNat, SMT DEF Second
    <3> QED
      BY <2>1, <3>1, <3>2 DEF Second
  <2>2. CASE Sample
    <3> DEFINE e == [value |-> Format(up), boot |-> boot]
    <3>1. e \in Samples
      BY FormatThenParse DEF Samples
    <3>2. window' \in Seq(Samples) /\ Len(window') <= MaxDataPoints /\ window' # <<>>
      BY <2>2, <3>1, SlidKeeps DEF Sample
    <3>3. First(window').value \in Uptimes /\ First(window').boot \in Int
      BY <3>2, FirstTypes
    <3>4. Parse(First(window').value) \in Clocks
      BY <3>3, ParseClocks
    <3> QED
      BY <2>2, <3>2, <3>3, <3>4, ClockAssumption DEF Sample, Adopt
  <2>3. CASE Miss
    BY <2>3, ClockAssumption DEF Miss
  <2>4. CASE Reboot
    BY <2>4, LastSecondNat DEF Reboot
  <2>5. CASE ChangeTab
    <3>1. Parse(First(window).value) \in Clocks
      BY <2>0, ParseClocks
    <3> QED
      BY <2>0, <2>5, <3>1 DEF ChangeTab, Adopt
  <2>6. CASE UNCHANGED vars
    BY <2>6 DEF vars
  <2> QED
    BY <2>1, <2>2, <2>3, <2>4, <2>5, <2>6 DEF Next
<1> QED
  BY <1>1, <1>2, PTL DEF Spec
-----------------------------------------------------------------------------
\* The card between its sample and the device.

\* The samples of the present boot are of the device's past.
SamplesArePast ==
    \A i \in DOMAIN window :
        /\ window[i].boot <= boot
        /\ window[i].boot = boot => Total(Parse(window[i].value)) <= up

\* The card has taken the page's uptime, if the page has one.
CardTookFirst ==
    /\ adopted <= boot
    /\ window = <<>> => adopted = NoBoot
    /\ window # <<>> => lastUptime = First(window).value

\* The clock is between the sample it counts on from and the device.
ClockBetween ==
    adopted = boot => /\ Total(Parse(lastUptime)) <= Total(current)
                      /\ Total(current) <= up

BetweenInv == TypeOK /\ SamplesArePast /\ CardTookFirst /\ ClockBetween

LEMMA BetweenInvImplies == BetweenInv => BetweenSampleAndDevice
<1> SUFFICES ASSUME BetweenInv, adopted = boot
             PROVE  /\ Total(Parse(First(window).value)) <= Total(current)
                    /\ Total(current) <= up
  BY DEF BetweenSampleAndDevice
<1>1. window # <<>>
  BY DEF BetweenInv, CardTookFirst, TypeOK, NoBoot
<1> QED
  BY <1>1 DEF BetweenInv, CardTookFirst, ClockBetween

\* While the card counts on from a sample of the present boot, it is never ahead of the
\* device and never behind the oldest sample, whatever the interval, the window and the
\* faults are.
THEOREM CardBetween == Spec => []BetweenSampleAndDevice
<1>1. Init => BetweenInv
  <2> SUFFICES ASSUME Init PROVE BetweenInv
    OBVIOUS
  <2>1. TypeOK
    BY InitTypes
  <2> QED
    BY <2>1 DEF Init, BetweenInv, SamplesArePast, CardTookFirst, ClockBetween, NoBoot
<1>2. TypeOK' /\ BetweenInv /\ [Next]_vars => BetweenInv'
  <2> SUFFICES ASSUME TypeOK', BetweenInv, [Next]_vars PROVE BetweenInv'
    OBVIOUS
  <2> USE DEF BetweenInv
  <2>1. ASSUME NEW counted \in BOOLEAN, Second(counted) PROVE BetweenInv'
    <3>1. Total(Increment(current)) = Total(current) + 1 /\ Total(current) \in Int
      <4>1. current \in Clocks
        BY DEF TypeOK
      <4>2. Total(current) \in Int
        BY <4>1, TotalIsNat
      <4> QED
        BY <4>1, <4>2, IncrementAddsOne
    <3>2. \A i \in DOMAIN window : window[i].boot \in Nat
                                   /\ Total(Parse(window[i].value)) \in Int
      <4> SUFFICES ASSUME NEW i \in DOMAIN window
                   PROVE  window[i].boot \in Nat /\ Total(Parse(window[i].value)) \in Int
        OBVIOUS
      <4>1. window[i] \in Samples
        BY DEF TypeOK
      <4>2. Parse(window[i].value) \in Clocks
        BY <4>1, ParseClocks DEF Samples
      <4> QED
        BY <4>1, <4>2, TotalIsNat DEF Samples
    <3>3. Total(Parse(lastUptime)) \in Int
      <4>1. Parse(lastUptime) \in Clocks
        BY ParseClocks DEF TypeOK
      <4> QED
        BY <4>1, TotalIsNat
    <3>4. window' = window /\ lastUptime' = lastUptime /\ adopted' = adopted
      BY <2>1 DEF Second
    <3>5. Total(current') = Total(current) \/ Total(current') = Total(current) + 1
      BY <2>1, <3>1 DEF Second
    <3>6. (boot' = boot /\ up' = up + 1) \/ boot' = boot + 1
      BY <2>1 DEF Second
    <3>7. SamplesArePast'
      BY <3>2, <3>4, <3>6 DEF SamplesArePast, TypeOK
    <3>8. CardTookFirst'
      BY <3>4, <3>6 DEF CardTookFirst, TypeOK, First
    <3>9. ClockBetween'
      BY <3>1, <3>3, <3>4, <3>5, <3>6 DEF ClockBetween, CardTookFirst, TypeOK
    <3> QED
      BY <3>7, <3>8, <3>9
  <2>2. CASE Sample
    <3> DEFINE e == [value |-> Format(up), boot |-> boot]
    <3>1. e \in Samples /\ Total(Parse(e.value)) = up
      BY FormatThenParse DEF TypeOK, Samples
    <3>2. up' = up /\ boot' = boot /\ window' = Slid(Append(window, e))
      BY <2>2 DEF Sample
    <3>3. /\ window' \in Seq(Samples) /\ window' # <<>>
          /\ \A i \in DOMAIN window' : window'[i] = e \/ \E j \in DOMAIN window : window'[i] = window[j]
      BY <3>1, <3>2, SlidKeeps DEF TypeOK
    <3>4. SamplesArePast'
      BY <3>1, <3>2, <3>3, SMTT(30) DEF SamplesArePast, TypeOK
    <3>5. First(window') = window'[1] /\ 1 \in DOMAIN window' /\ window'[1] \in Samples
      BY <3>3 DEF First
    <3>6. CASE First(window').value = lastUptime
      <4>1. lastUptime' = lastUptime /\ current' = current /\ adopted' = adopted
        BY <2>2, <3>6 DEF Sample
      <4>2. CardTookFirst'
        <5>1. First(window)' = First(window')
          BY DEF First
        <5> QED
          BY <3>2, <3>3, <3>6, <4>1, <5>1 DEF CardTookFirst
      <4> QED
        BY <3>2, <3>4, <4>1, <4>2 DEF ClockBetween
    <3>7. CASE First(window').value # lastUptime
      <4>1. Adopt(First(window'))
        BY <2>2, <3>7 DEF Sample
      <4>2. /\ lastUptime' = window'[1].value /\ current' = Parse(window'[1].value)
            /\ adopted' = window'[1].boot
        BY <3>5, <4>1 DEF Adopt
      <4>3. window'[1].boot <= boot
            /\ (window'[1].boot = boot => Total(Parse(window'[1].value)) <= up)
        BY <3>2, <3>4, <3>5 DEF SamplesArePast
      <4>4. Total(Parse(window'[1].value)) \in Int
        <5>1. Parse(window'[1].value) \in Clocks
          BY <3>5, ParseClocks DEF Samples
        <5> QED
          BY <5>1, TotalIsNat
      <4>5. CardTookFirst'
        <5>1. First(window)' = First(window')
          BY DEF First
        <5> QED
          BY <3>2, <3>3, <3>5, <4>2, <4>3, <5>1 DEF CardTookFirst
      <4>6. ClockBetween'
        BY <3>2, <4>2, <4>3, <4>4 DEF ClockBetween
      <4> QED
        BY <3>4, <4>5, <4>6
    <3> QED
      BY <3>6, <3>7
  <2>3. CASE Miss
    BY <2>3 DEF Miss, SamplesArePast, CardTookFirst, ClockBetween, First
  <2>4. CASE Reboot
    <3>1. boot' = boot + 1 /\ window' = window /\ lastUptime' = lastUptime /\ adopted' = adopted
      BY <2>4 DEF Reboot
    <3>2. \A i \in DOMAIN window : window[i].boot \in Nat
      <4>1. \A i \in DOMAIN window : window[i] \in Samples
        BY DEF TypeOK
      <4> QED
        BY <4>1 DEF Samples
    <3>3. SamplesArePast'
      BY <3>1, <3>2 DEF SamplesArePast, TypeOK
    <3>4. CardTookFirst' /\ ClockBetween'
      BY <3>1 DEF CardTookFirst, ClockBetween, TypeOK, First
    <3> QED
      BY <3>3, <3>4
  <2>5. CASE ChangeTab
    <3>1. /\ window' = window /\ up' = up /\ boot' = boot
          /\ lastUptime' = First(window).value /\ current' = Parse(First(window).value)
          /\ adopted' = First(window).boot
      BY <2>5 DEF ChangeTab, Adopt
    <3>2. SamplesArePast'
      BY <3>1 DEF SamplesArePast
    <3>3. First(window)' = First(window)
      BY <3>1 DEF First
    <3>4. CASE window = <<>>
      <4>1. First(window).boot = NoBoot
        BY <3>4 DEF First
      <4> QED
        BY <3>1, <3>2, <3>3, <3>4, <4>1 DEF CardTookFirst, ClockBetween, NoBoot, TypeOK
    <3>5. CASE window # <<>>
      <4>1. First(window) = window[1] /\ 1 \in DOMAIN window /\ window[1] \in Samples
        BY <3>5 DEF First, TypeOK
      <4>2. /\ window[1].boot <= boot
            /\ window[1].boot = boot => Total(Parse(window[1].value)) <= up
        BY <4>1 DEF SamplesArePast
      <4>3. Total(Parse(window[1].value)) \in Int
        <5>1. Parse(window[1].value) \in Clocks
          BY <4>1, ParseClocks DEF Samples
        <5> QED
          BY <5>1, TotalIsNat
      <4> QED
        BY <3>1, <3>2, <3>3, <3>5, <4>1, <4>2, <4>3 DEF CardTookFirst, ClockBetween
    <3> QED
      BY <3>4, <3>5
  <2>6. CASE UNCHANGED vars
    BY <2>6 DEF vars, SamplesArePast, CardTookFirst, ClockBetween, First
  <2> QED
    BY <2>1, <2>2, <2>3, <2>4, <2>5, <2>6 DEF Next
<1> QED
  BY <1>1, <1>2, ClockTypes, BetweenInvImplies, PTL DEF Spec

LEMMA ClockBehaves == PageSpec => Spec
<1>1. PageInit => Init
  BY DEF PageInit
<1>2. [PageNext]_pageVars => [Next]_vars
  BY DEF PageNext, pageVars
<1>3. QED BY <1>1, <1>2, PTL DEF PageSpec, Spec

\* The same of the page: what else it does leaves the card alone.
THEOREM CardBetweenOnPage == PageSpec => []BetweenSampleAndDevice
BY ClockBehaves, CardBetween, PTL

-----------------------------------------------------------------------------
(* The lists of interfaces *)

LEMMA ListsBehave == PageSpec => Lists!Spec
<1>1. PageInit => Lists!Init
  BY DEF PageInit
<1>2. [PageNext]_pageVars => [Lists!Next]_Lists!vars
  BY DEF PageNext, pageVars, listsVars, Lists!vars, Lists!component
<1>3. QED BY <1>1, <1>2, PTL DEF PageSpec, Lists!Spec

\* A collection under way: at the statuses it has read one of each row.
Walking == [at |-> walk.at, tab |-> walk.tab, rows |-> walk.rows, changes |-> walk.changes,
            seen |-> walk.seen]
WalkingOn == [at |-> walk.at, tab |-> walk.tab, rows |-> walk.rows, changes |-> walk.changes,
              seen |-> walk.seen, admin |-> walk.admin]

\* What a collection has read of a row is among what the row was while it ran.
WalkInv ==
  /\ router = [i \in Interfaces |-> router[i]]
  /\ list = [t \in Lists!Tabs |-> list[t]]
  /\ \/ walk = Lists!Idle
     \/ walk.at \in {"names", "types"} /\ walk = Walking
     \/ walk.at = "admin" /\ walk = WalkingOn
  /\ walk.at # "idle" =>
       /\ walk.rows \subseteq Interfaces
       /\ walk.seen = [i \in Interfaces |-> walk.seen[i]]
       /\ \A i \in Interfaces : router[i] \in walk.seen[i]
  /\ walk.at = "admin" =>
       \A i \in walk.rows : \E s \in walk.seen[i] : s.admin = walk.admin[i]

\* A row changes while a collection runs: what it was stays seen.
ChangeSeen(w, i, status) == [w.seen EXCEPT ![i] = @ \cup {status}]

LEMMA ChangesAreSeen ==
  ASSUME WalkInv, NEW i \in Interfaces, NEW status, Lists!Change(i, status), walk.at # "idle"
  PROVE  /\ walk'.at = walk.at /\ walk'.rows = walk.rows
         /\ walk'.seen = ChangeSeen(walk, i, status)
         /\ walk.at = "admin" => walk'.admin = walk.admin /\ walk' = WalkingOn'
         /\ walk.at \in {"names", "types"} => walk' = Walking'
<1> DEFINE seen == ChangeSeen(walk, i, status)
           changes == walk.changes + 1
<1>1. walk' = [[walk EXCEPT !.seen = seen] EXCEPT !.changes = changes]
  BY DEF Lists!Change, ChangeSeen
<1> HIDE DEF seen, changes
<1>2. CASE walk.at \in {"names", "types"}
  <2>1. walk = Walking
    BY <1>2 DEF WalkInv, Lists!Idle
  <2>2. walk' = [at |-> walk.at, tab |-> walk.tab, rows |-> walk.rows, changes |-> changes, seen |-> seen]
    BY <1>1, <2>1 DEF Walking
  <2>3. QED BY <1>2, <2>2 DEF Walking, seen
<1>3. CASE walk.at = "admin"
  <2>1. walk = WalkingOn
    BY <1>3 DEF WalkInv, Lists!Idle
  <2>2. walk' = [at |-> walk.at, tab |-> walk.tab, rows |-> walk.rows, changes |-> changes,
                 seen |-> seen, admin |-> walk.admin]
    BY <1>1, <2>1 DEF WalkingOn
  <2>3. QED BY <1>3, <2>2 DEF WalkingOn, seen
<1>4. walk.at \in {"names", "types", "admin"}
  BY DEF WalkInv, Lists!Idle
<1>5. QED BY <1>2, <1>3, <1>4

LEMMA WalkBegins == Lists!Init => WalkInv
BY DEF Lists!Init, WalkInv, Lists!Idle

LEMMA WalkKept == WalkInv /\ [Lists!Next]_Lists!vars => WalkInv'
<1> SUFFICES ASSUME WalkInv, [Lists!Next]_Lists!vars PROVE WalkInv'
  OBVIOUS
<1>1. ASSUME NEW i \in Interfaces, NEW s, Lists!Change(i, s) PROVE WalkInv'
  <2>1. /\ router' = [router EXCEPT ![i] = s] /\ list' = list
        /\ walk.at = "idle" => walk' = walk
    BY <1>1 DEF Lists!Change
  <2>2. /\ router' = [j \in Interfaces |-> router'[j]]
        /\ \A j \in Interfaces : router'[j] = IF j = i THEN s ELSE router[j]
    BY <2>1 DEF WalkInv
  <2>3. CASE walk.at = "idle"
    BY <2>1, <2>2, <2>3 DEF WalkInv, Lists!Idle
  <2>4. CASE walk.at # "idle"
    <3>1. /\ walk'.at = walk.at /\ walk'.rows = walk.rows
          /\ walk'.seen = ChangeSeen(walk, i, s)
          /\ walk.at = "admin" => walk'.admin = walk.admin /\ walk' = WalkingOn'
          /\ walk.at \in {"names", "types"} => walk' = Walking'
      BY <1>1, <2>4, ChangesAreSeen
    <3>2. /\ walk'.seen = [j \in Interfaces |-> walk'.seen[j]]
          /\ \A j \in Interfaces :
               walk'.seen[j] = IF j = i THEN walk.seen[i] \cup {s} ELSE walk.seen[j]
      BY <2>4, <3>1 DEF WalkInv, ChangeSeen
    <3>3. walk.at \in {"names", "types", "admin"}
      BY <2>4 DEF WalkInv, Lists!Idle
    <3>4. \A j \in Interfaces : router'[j] \in walk'.seen[j]
      BY <2>2, <2>4, <3>2 DEF WalkInv
    <3>5. walk'.at = "admin" =>
            \A j \in walk'.rows : \E x \in walk'.seen[j] : x.admin = walk'.admin[j]
      BY <2>4, <3>1, <3>2 DEF WalkInv
    <3>6. walk'.rows \subseteq Interfaces /\ list' = [t \in Lists!Tabs |-> list'[t]]
      BY <2>1, <2>4, <3>1 DEF WalkInv
    <3>7. QED BY <2>2, <3>1, <3>2, <3>3, <3>4, <3>5, <3>6 DEF WalkInv
  <2>5. QED BY <2>3, <2>4
<1>2. ASSUME NEW t, Lists!WalkNames(t) PROVE WalkInv'
  BY <1>2 DEF Lists!WalkNames, WalkInv, Walking, Lists!Present
<1>3. CASE Lists!WalkTypes
  <2> DEFINE left == {i \in walk.rows \cap Lists!Present : TypeOf[i] \in Lists!Types(walk.tab)}
  <2>1. /\ walk.at = "names" /\ walk' = [[walk EXCEPT !.at = "types"] EXCEPT !.rows = left]
        /\ UNCHANGED <<router, list>>
    BY <1>3 DEF Lists!WalkTypes, Lists!component
  <2>2. walk = Walking /\ left \subseteq walk.rows
    BY <2>1 DEF WalkInv, Lists!Idle
  <2> HIDE DEF left
  <2>3. walk' = [at |-> "types", tab |-> walk.tab, rows |-> left, changes |-> walk.changes,
                 seen |-> walk.seen]
    BY <2>1, <2>2 DEF Walking
  <2>4. QED BY <2>1, <2>2, <2>3 DEF WalkInv, Walking
<1>4. CASE Lists!WalkAdmin
  BY <1>4 DEF Lists!WalkAdmin, WalkInv, WalkingOn, Lists!Idle
<1>5. ASSUME NEW order, Lists!Collected(order) PROVE WalkInv'
  BY <1>5 DEF Lists!Collected, WalkInv, Lists!Idle
<1>6. CASE Lists!WalkFails
  BY <1>6 DEF Lists!WalkFails, WalkInv, Lists!Idle
<1>7. ASSUME UNCHANGED <<router, walk, list>> PROVE WalkInv'
  BY <1>7 DEF WalkInv, Walking, WalkingOn
<1>8. QED
  BY <1>1, <1>2, <1>3, <1>4, <1>5, <1>6, <1>7
     DEF Lists!Next, Lists!vars, Lists!Search, Lists!SetStatusFilter, Lists!ToggleExpand, Lists!ChangeTab

\* The statuses of a list that arrives.
LEMMA ReadWhileCollected ==
  ASSUME WalkInv, NEW order \in Lists!SetToSeqs(walk.rows), Lists!Collected(order),
         NEW t \in Lists!Tabs, list'[t] # list[t], NEW k \in DOMAIN list'[t]
  PROVE  LET entry == list'[t][k]
         IN  /\ \E s \in walk.seen[entry.index] : s.admin = entry.admin
             /\ \E s \in walk.seen[entry.index] : s.oper = entry.oper
<1>1. list' = [list EXCEPT ![walk.tab] = Lists!Listed(order)] /\ walk.at = "admin"
  BY DEF Lists!Collected
<1>2. list'[t] = Lists!Listed(order)
  BY <1>1 DEF WalkInv
<1>3. k \in DOMAIN order
  BY <1>2 DEF Lists!Listed
<1>4. order[k] \in walk.rows
  BY <1>3 DEF Lists!SetToSeqs
<1>5. /\ list'[t][k].index = order[k] /\ list'[t][k].admin = walk.admin[order[k]]
      /\ list'[t][k].oper = router[order[k]].oper
  BY <1>2, <1>3 DEF Lists!Listed
<1>6. \E s \in walk.seen[order[k]] : s.admin = walk.admin[order[k]]
  BY <1>1, <1>4 DEF WalkInv
<1>7. router[order[k]] \in walk.seen[order[k]]
  BY <1>1, <1>4 DEF WalkInv
<1>8. QED BY <1>5, <1>6, <1>7

LEMMA StatusesSeen == Lists!Spec => Lists!StatusesWereSo
<1> DEFINE Seen ==
      \A t \in Lists!Tabs : list'[t] # list[t] =>
        \A k \in DOMAIN list'[t] :
          LET entry == list'[t][k]
          IN  /\ \E s \in walk.seen[entry.index] : s.admin = entry.admin
              /\ \E s \in walk.seen[entry.index] : s.oper = entry.oper
<1>1. WalkInv /\ [Lists!Next]_Lists!vars => [Seen]_Lists!vars
  <2> SUFFICES ASSUME WalkInv, Lists!Next PROVE Seen
    BY DEF Lists!vars
  <2>1. ASSUME NEW order \in Lists!SetToSeqs(walk.rows), Lists!Collected(order) PROVE Seen
    BY <2>1, ReadWhileCollected
  <2>2. (\E order \in Lists!SetToSeqs(walk.rows) : Lists!Collected(order)) \/ list' = list
    BY DEF Lists!Next, Lists!Change, Lists!WalkNames, Lists!WalkTypes, Lists!WalkAdmin,
       Lists!WalkFails, Lists!Search, Lists!SetStatusFilter, Lists!ToggleExpand, Lists!ChangeTab
  <2>3. QED BY <2>1, <2>2
<1>2. Lists!Spec => []WalkInv
  BY WalkBegins, WalkKept, PTL DEF Lists!Spec
<1>3. QED BY <1>1, <1>2, PTL DEF Lists!Spec, Lists!StatusesWereSo

\* Whatever is searched and filtered, a card is open if it is the one that was opened.
OpenAsExpanded == \A card \in Lists!CardsShown : card.open = (expanded = card.index)

LEMMA OpenIsExpanded == OpenAsExpanded
<1>1. ASSUME NEW entries, NEW card \in Lists!ToSet(Lists!CardsOf(entries))
      PROVE  card.open = (expanded = card.index)
  BY <1>1 DEF Lists!ToSet, Lists!CardsOf, Lists!Card
<1>2. QED
  BY <1>1 DEF OpenAsExpanded, Lists!CardsShown

LEMMA OpenStays == Lists!Spec => Lists!OpenCardsStay
<1>1. [Lists!Next]_Lists!vars =>
        [UNCHANGED <<tab, expanded>> /\ <<list, search, filter>>' # <<list, search, filter>> =>
           \A before \in Lists!CardsShown, after \in Lists!CardsShown' :
             before.index = after.index => before.open = after.open]_Lists!vars
  <2>1. OpenAsExpanded'
    BY OpenIsExpanded, PTL
  <2>2. QED BY <2>1, OpenIsExpanded DEF OpenAsExpanded
<1>2. QED BY <1>1, PTL DEF Lists!Spec, Lists!OpenCardsStay

\* Lists that arrive in another order, with rows that came or went, leave an open card open
\* and the others closed, and each status was the interface's while it was collected:
\* RouterInterfaceList.tsx, VlanList.tsx and the collectors of interfaces.
THEOREM ListsKept == PageSpec => ListsKeep
BY ListsBehave, StatusesSeen, OpenStays DEF ListsKeep

-----------------------------------------------------------------------------
(* The charts *)

\* Induction over the numbers, by the least of those that are left.
LEMMA LeastNatural ==
  ASSUME NEW T, T \subseteq Nat, T # {}
  PROVE  \E n \in T : \A m \in T : n <= m
<1> DEFINE R == OpToRel(<, Nat)
<1>1. IsWellFoundedOn(R, Nat)
  BY NatLessThanWellFounded
<1>2. \A x, y \in Nat : x < y => <<x, y>> \in R
  BY DEF OpToRel
<1> HIDE DEF R
<1>3. \E n \in T : \A m \in T : ~ (<<m, n>> \in R)
  BY <1>1, WFMin, Zenon
<1>4. PICK n \in T : \A m \in T : ~ (<<m, n>> \in R)
  BY <1>3
<1>5. ASSUME NEW m \in T PROVE n <= m
  <2>1. m \in Nat /\ n \in Nat /\ ~ (<<m, n>> \in R)
    BY <1>4
  <2>2. QED BY <1>2, <2>1
<1>6. QED BY <1>5

LEMMA Induction ==
  ASSUME NEW S, 0 \in S, \A n \in Nat : n \in S => n + 1 \in S
  PROVE  \A n \in Nat : n \in S
<1> SUFFICES ASSUME ~(\A n \in Nat : n \in S) PROVE FALSE
  OBVIOUS
<1> DEFINE T == Nat \ S
<1>1. T \subseteq Nat /\ T # {}
  OBVIOUS
<1> HIDE DEF T
<1>2. PICK n \in T : \A m \in T : n <= m
  BY <1>1, LeastNatural
<1>3. n \in Nat /\ n # 0 /\ n \notin S
  BY <1>2 DEF T
<1>4. n - 1 \in Nat /\ n - 1 \notin T
  BY <1>2, <1>3
<1>5. QED BY <1>3, <1>4 DEF T

\* A chart, unfolded: the point that a sample adds, and the points of the samples so far.
AddPoint(points, s) ==
  IF \E i \in DOMAIN points : points[i].at = s.at THEN points ELSE Append(points, s)
Greatest(s) == CHOOSE x \in s : \A y \in s : x >= y
ArePoints(g, h, S) ==
  g = [s \in SUBSET S |-> IF s = {} THEN <<>> ELSE AddPoint(g[s \ {Greatest(s)}], h[Greatest(s)])]

LEMMA ChartUnfolds ==
  ASSUME NEW h, \E g : ArePoints(g, h, DOMAIN h)
  PROVE  \E g : ArePoints(g, h, DOMAIN h) /\ Charts!Chart(h) = g[DOMAIN h]
<1> DEFINE g == CHOOSE g : ArePoints(g, h, DOMAIN h)
<1>1. Charts!Chart(h) = g[DOMAIN h]
  BY DEF Charts!Chart, Charts!FoldLeft, Charts!MapThenFoldSet, Charts!Max, ArePoints, AddPoint, Greatest
<1>2. ArePoints(g, h, DOMAIN h)
  BY Zenon
<1>3. QED BY <1>1, <1>2

LEMMA GreatestOf ==
  ASSUME NEW k \in Nat, NEW s \in SUBSET (1..(k + 1)), k + 1 \in s
  PROVE  Greatest(s) = k + 1
<1>1. \A y \in s : k + 1 >= y
  OBVIOUS
<1>2. \A x \in s : (\A y \in s : x >= y) => x = k + 1
  OBVIOUS
<1>3. QED BY <1>1, <1>2 DEF Greatest

LEMMA PointsExist ==
  ASSUME NEW h
  PROVE  \A k \in Nat : \E g : ArePoints(g, h, 1..k)
<1> DEFINE S == {k \in Nat : \E g : ArePoints(g, h, 1..k)}
<1>1. 0 \in S
  <2>1. 1..0 = {}
    OBVIOUS
  <2>2. \A s \in SUBSET {} : s = {}
    OBVIOUS
  <2>3. ArePoints([s \in SUBSET {} |-> <<>>], h, {})
    BY <2>2 DEF ArePoints
  <2>4. QED BY <2>1, <2>3
<1>2. ASSUME NEW k \in Nat, k \in S PROVE k + 1 \in S
  <2>1. PICK g : ArePoints(g, h, 1..k)
    BY <1>2
  <2> DEFINE f == [s \in SUBSET (1..(k + 1)) |->
                     IF k + 1 \in s THEN AddPoint(g[s \ {k + 1}], h[k + 1]) ELSE g[s]]
             e(s) == IF s = {} THEN <<>> ELSE AddPoint(f[s \ {Greatest(s)}], h[Greatest(s)])
  <2>2. ASSUME NEW s \in SUBSET (1..(k + 1)) PROVE f[s] = e(s)
    <3>1. CASE k + 1 \in s
      <4>1. Greatest(s) = k + 1 /\ s # {} /\ s \ {k + 1} \in SUBSET (1..k) /\ k + 1 \notin s \ {k + 1}
        BY <3>1, GreatestOf
      <4>2. s \ {k + 1} \in SUBSET (1..(k + 1))
        OBVIOUS
      <4>3. f[s \ {k + 1}] = g[s \ {k + 1}]
        BY <4>1, <4>2
      <4>4. f[s] = AddPoint(g[s \ {k + 1}], h[k + 1])
        BY <3>1
      <4> HIDE DEF f
      <4>5. QED BY <4>1, <4>3, <4>4
    <3>2. CASE k + 1 \notin s /\ s # {}
      <4>1. s \in SUBSET (1..k)
        BY <3>2
      <4>2. g[s] = AddPoint(g[s \ {Greatest(s)}], h[Greatest(s)])
        BY <2>1, <3>2, <4>1 DEF ArePoints
      <4>3. s \ {Greatest(s)} \in SUBSET (1..(k + 1)) /\ k + 1 \notin s \ {Greatest(s)}
        BY <3>2
      <4>4. f[s \ {Greatest(s)}] = g[s \ {Greatest(s)}] /\ f[s] = g[s]
        BY <3>2, <4>3
      <4> HIDE DEF f
      <4>5. QED BY <3>2, <4>2, <4>4
    <3>3. CASE s = {}
      <4>1. g[s] = <<>>
        BY <2>1, <3>3 DEF ArePoints
      <4>2. f[s] = g[s]
        BY <3>3
      <4> HIDE DEF f
      <4>3. QED BY <3>3, <4>1, <4>2
    <3>4. QED BY <3>1, <3>2, <3>3
  <2>3. f = [s \in SUBSET (1..(k + 1)) |-> f[s]]
    OBVIOUS
  <2> HIDE DEF f
  <2>4. ArePoints(f, h, 1..(k + 1))
    BY <2>2, <2>3 DEF ArePoints
  <2>5. QED BY <2>4
<1> HIDE DEF S
<1>3. \A k \in Nat : k \in S
  BY <1>1, <1>2, Induction
<1>4. QED BY <1>3 DEF S

\* Of samples with different times every one is a point.
LEMMA ChartIsHistory ==
  ASSUME NEW T, NEW h \in Seq(T), \A i, j \in DOMAIN h : h[i].at = h[j].at => i = j
  PROVE  Charts!Chart(h) = h
<1>1. Len(h) \in Nat /\ DOMAIN h = 1..Len(h)
  OBVIOUS
<1>2. PICK g : ArePoints(g, h, 1..Len(h)) /\ Charts!Chart(h) = g[1..Len(h)]
  <2>1. \E g : ArePoints(g, h, DOMAIN h)
    BY <1>1, PointsExist
  <2>2. \E g : ArePoints(g, h, DOMAIN h) /\ Charts!Chart(h) = g[DOMAIN h]
    BY <2>1, ChartUnfolds
  <2>3. QED BY <1>1, <2>2
<1> DEFINE S == {k \in Nat : k <= Len(h) => g[1..k] = SubSeq(h, 1, k)}
<1>3. 0 \in S
  <2>1. 1..0 = {} /\ {} \in SUBSET (1..Len(h))
    OBVIOUS
  <2>2. g[{}] = <<>>
    BY <1>2, <2>1 DEF ArePoints
  <2>3. SubSeq(h, 1, 0) = <<>>
    OBVIOUS
  <2>4. QED BY <2>1, <2>2, <2>3
<1>4. ASSUME NEW k \in Nat, k \in S PROVE k + 1 \in S
  <2> SUFFICES ASSUME k + 1 <= Len(h) PROVE g[1..(k + 1)] = SubSeq(h, 1, k + 1)
    OBVIOUS
  <2> DEFINE s == 1..(k + 1)
             points == SubSeq(h, 1, k)
  <2>1. s \in SUBSET (1..Len(h)) /\ s # {} /\ k + 1 \in s /\ s \ {k + 1} = 1..k
    BY <1>1
  <2>2. Greatest(s) = k + 1
    BY <2>1, GreatestOf
  <2> HIDE DEF s
  <2>3. g[s] = AddPoint(g[1..k], h[k + 1])
    BY <1>2, <2>1, <2>2 DEF ArePoints
  <2>4. g[1..k] = points
    BY <1>1, <1>4
  <2>5. DOMAIN points = 1..k /\ \A i \in 1..k : points[i] = h[i]
    BY <1>1
  <2>6. \A i \in 1..k : h[i].at # h[k + 1].at
    BY <1>1
  <2>7. Append(points, h[k + 1]) = SubSeq(h, 1, k + 1)
    BY <1>1
  <2> HIDE DEF points
  <2>8. AddPoint(points, h[k + 1]) = Append(points, h[k + 1])
    BY <2>5, <2>6 DEF AddPoint
  <2>9. QED BY <2>3, <2>4, <2>7, <2>8 DEF s
<1> HIDE DEF S
<1>5. \A k \in Nat : k \in S
  BY <1>3, <1>4, Induction
<1>6. g[1..Len(h)] = SubSeq(h, 1, Len(h))
  BY <1>1, <1>5 DEF S
<1>7. QED BY <1>1, <1>2, <1>6

LEMMA ChartsBehave == PageSpec => Charts!Spec
<1>1. PageInit => Charts!Init
  BY DEF PageInit
<1>2. [PageNext]_pageVars => [Charts!Next]_Charts!vars
  BY DEF PageNext, pageVars, chartsVars, Charts!vars
<1>3. QED BY <1>1, <1>2, PTL DEF PageSpec, Charts!Spec

Histories == [Devices -> [Watched -> Seq(Charts!Samples)]]
IsData(r) == r = [of |-> r.of, version |-> r.version] /\ r.of \in Histories /\ r.version \in Nat
Sending == [device : Devices, metric : Watched, value : Values \cup {None}, at : 1..chartsClock,
            collection : Nat]

FeedTypes ==
  /\ chartsKind \in Pages /\ chartsStrict \in BOOLEAN
  /\ chartsPage \in Devices \cup {None} /\ chartsClock \in Nat
  /\ collection \in [Devices -> Nat \ {0}] /\ sending \subseteq Sending
  /\ arrived \in Histories /\ IsData(routerData)

\* A sample is the only one of its time, on its way or arrived.
OwnTimes ==
  /\ \A s, t \in sending : s.at = t.at => s = t
  /\ \A d \in Devices, m \in Watched : \A i \in DOMAIN arrived[d][m] :
       /\ arrived[d][m][i].device = d /\ arrived[d][m][i].metric = m
       /\ arrived[d][m][i].at <= chartsClock
       /\ \A s \in sending : arrived[d][m][i].at # s.at
       /\ \A j \in DOMAIN arrived[d][m] : arrived[d][m][i].at = arrived[d][m][j].at => i = j

\* Of the first collection of a device one sample of a metric at most is on its way.
FirstInOrder ==
  \A d \in Devices : collection[d] = 1 =>
    /\ \A s \in sending : s.device = d => s.collection = 1
    /\ \A s, t \in sending : s.device = d /\ t.device = d /\ s.metric = t.metric => s = t
    /\ \A m \in Watched : \A i \in DOMAIN arrived[d][m] :
         /\ \A s \in sending : s.device = d /\ s.metric = m => arrived[d][m][i].at < s.at
         /\ \A j \in DOMAIN arrived[d][m] : i < j => arrived[d][m][i].at < arrived[d][m][j].at

\* What is kept of all that came.
Window(all, kept) ==
  /\ Len(kept) = IF Len(all) < MaxDataPoints THEN Len(all) ELSE MaxDataPoints
  /\ \A i \in DOMAIN kept : kept[i] = all[Len(all) - Len(kept) + i]

Windows == \A d \in Devices, m \in Watched : Window(arrived[d][m], routerData.of[d][m])

\* The memos are of the data there are.
MemoOf(r, d) == [page |-> d, version |-> r.version, charts |-> Charts!Charts(r, d)]
MemosFresh ==
  IF chartsPage = None THEN routerData = Charts!NoData /\ memo = Charts!NoMemo
  ELSE memo = MemoOf(routerData, chartsPage)

FeedInv == FeedTypes /\ OwnTimes /\ FirstInOrder /\ Windows /\ MemosFresh

\* A sample that is new joins the window; run again, the updater finds it there.
LEMMA KeptKeeps ==
  ASSUME NEW T, NEW all \in Seq(T), NEW kept \in Seq(T), Window(all, kept), NEW s \in T,
         s.value # None, \A i \in DOMAIN all : all[i].at # s.at
  PROVE  /\ Charts!Kept(kept, s) \in Seq(T)
         /\ Window(Append(all, s), Charts!Kept(kept, s))
         /\ Charts!Kept(Charts!Kept(kept, s), s) = Charts!Kept(kept, s)
<1> DEFINE a == Append(kept, s)
           b == Append(all, s)
           k == Charts!Kept(kept, s)
<1>1. /\ Len(all) \in Nat /\ Len(kept) \in Nat /\ Len(kept) <= Len(all)
      /\ DOMAIN all = 1..Len(all) /\ DOMAIN kept = 1..Len(kept)
      /\ MaxDataPoints \in Nat \ {0} /\ Len(kept) <= MaxDataPoints
  BY PartsAssumption DEF Window, Charts!FeedAssumption
<1>w. Len(kept) = IF Len(all) < MaxDataPoints THEN Len(all) ELSE MaxDataPoints
  BY DEF Window
<1>2. ~ \E i \in DOMAIN kept : kept[i].at = s.at /\ kept[i].value = s.value
  BY <1>1 DEF Window
<1>3. k = Charts!Newest(a)
  BY <1>2 DEF Charts!Kept
<1>4. /\ a \in Seq(T) /\ Len(a) = Len(kept) + 1 /\ a[Len(kept) + 1] = s
      /\ \A i \in 1..Len(kept) : a[i] = kept[i]
  BY <1>1
<1>5. /\ b \in Seq(T) /\ Len(b) = Len(all) + 1 /\ b[Len(all) + 1] = s
      /\ \A i \in 1..Len(all) : b[i] = all[i]
  BY <1>1
<1> HIDE DEF a, b, k
<1>6. CASE Len(kept) = MaxDataPoints
  <2>1. k = SubSeq(a, 2, Len(kept) + 1)
    BY <1>1, <1>3, <1>4, <1>6 DEF Charts!Newest
  <2>2. k \in Seq(T) /\ Len(k) = Len(kept) /\ \A i \in 1..Len(kept) : k[i] = a[i + 1]
    BY <1>1, <1>4, <2>1
  <2>3. Len(k) = IF Len(b) < MaxDataPoints THEN Len(b) ELSE MaxDataPoints
    BY <1>1, <1>5, <1>6, <2>2
  <2>4. ASSUME NEW i \in 1..Len(kept) PROVE k[i] = b[Len(b) - Len(k) + i]
    <3>1. CASE i < Len(kept)
      <4>1. k[i] = kept[i + 1] /\ i + 1 \in 1..Len(kept)
        BY <1>1, <1>4, <2>2, <3>1
      <4>2. kept[i + 1] = all[Len(all) - Len(kept) + (i + 1)]
        BY <1>1, <4>1 DEF Window
      <4>3. Len(all) - Len(kept) + (i + 1) \in 1..Len(all)
        BY <1>1, <3>1
      <4>4. Len(b) - Len(k) + i = Len(all) - Len(kept) + (i + 1)
        BY <1>1, <1>5, <2>2
      <4>5. QED BY <1>5, <4>1, <4>2, <4>3, <4>4
    <3>2. CASE i = Len(kept)
      BY <1>1, <1>4, <1>5, <2>2, <3>2
    <3>3. i < Len(kept) \/ i = Len(kept)
      <4>1. Len(kept) \in Nat
        BY <1>1
      <4>2. QED BY <4>1
    <3>4. QED BY <3>1, <3>2, <3>3
  <2>5. DOMAIN k = 1..Len(kept) /\ k[Len(kept)] = s /\ Len(kept) \in 1..Len(kept)
    BY <1>1, <1>4, <1>6, <2>2
  <2>6. Charts!Kept(k, s) = k
    BY <2>5 DEF Charts!Kept
  <2>7. Window(b, k)
    BY <2>3, <2>4, <2>5 DEF Window
  <2>8. QED BY <2>2, <2>6, <2>7 DEF k, b
<1>7. CASE Len(kept) < MaxDataPoints
  <2>1. Len(all) = Len(kept)
    <3>1. Len(all) \in Nat /\ MaxDataPoints \in Nat /\ Len(kept) \in Nat
      BY <1>1
    <3>2. Len(kept) # MaxDataPoints
      BY <1>7, <3>1
    <3>3. QED BY <1>w, <3>2
  <2>a. ~(Len(a) > MaxDataPoints)
    BY <1>1, <1>4, <1>7
  <2>2. k = SubSeq(a, 1, Len(a))
    BY <1>3, <2>a DEF Charts!Newest
  <2>3. k \in Seq(T) /\ Len(k) = Len(a) /\ \A i \in 1..Len(a) : k[i] = a[i]
    BY <1>1, <1>4, <2>2
  <2>4. DOMAIN k = 1..Len(a) /\ k[Len(a)] = s /\ Len(a) \in 1..Len(a)
    BY <1>1, <1>4, <2>3
  <2>5. Charts!Kept(k, s) = k
    BY <2>4 DEF Charts!Kept
  <2>6. \A i \in 1..Len(kept) : kept[i] = all[i]
    <3>1. \A i \in 1..Len(kept) : kept[i] = all[Len(all) - Len(kept) + i]
      BY <1>1 DEF Window
    <3>2. \A i \in 1..Len(kept) : Len(all) - Len(kept) + i = i
      BY <1>1, <2>1
    <3>3. QED BY <3>1, <3>2
  <2>7. \A i \in 1..Len(a) : k[i] = b[i]
    BY <1>1, <1>4, <1>5, <2>1, <2>3, <2>6
  <2>8. Len(b) = Len(k) /\ Len(k) <= MaxDataPoints
    BY <1>1, <1>4, <1>5, <1>7, <2>1, <2>3
  <2>9. Window(b, k)
    BY <1>1, <1>4, <2>4, <2>7, <2>8 DEF Window
  <2>10. QED BY <2>3, <2>5, <2>9 DEF k, b
<1>8. Len(kept) = MaxDataPoints \/ Len(kept) < MaxDataPoints
  BY <1>1
<1>9. QED BY <1>6, <1>7, <1>8

\* The updater changes one history and the identity of the outer Map.
LEMMA UpdatedKeeps ==
  ASSUME NEW r, IsData(r), NEW s, s.device \in Devices, s.metric \in Watched,
         Charts!Kept(r.of[s.device][s.metric], s) \in Seq(Charts!Samples)
  PROVE  /\ IsData(Charts!Updated(r, s)) /\ Charts!Updated(r, s).version = r.version + 1
         /\ \A d \in Devices, m \in Watched :
              Charts!Updated(r, s).of[d][m] =
                IF d = s.device /\ m = s.metric THEN Charts!Kept(r.of[d][m], s) ELSE r.of[d][m]
<1> DEFINE k == Charts!Kept(r.of[s.device][s.metric], s)
           o == [r.of EXCEPT ![s.device] = [r.of[s.device] EXCEPT ![s.metric] = k]]
           v == r.version + 1
<1>1. Charts!Updated(r, s) = [[r EXCEPT !.of = o] EXCEPT !.version = v]
  BY DEF Charts!Updated, IsData, Histories
<1>2. /\ o \in Histories
      /\ \A d \in Devices, m \in Watched :
           o[d][m] = IF d = s.device /\ m = s.metric THEN k ELSE r.of[d][m]
  BY DEF IsData, Histories
<1>3. v \in Nat
  BY DEF IsData
<1> HIDE DEF o, v
<1>4. Charts!Updated(r, s) = [of |-> o, version |-> v]
  BY <1>1 DEF IsData
<1>5. QED BY <1>2, <1>3, <1>4 DEF IsData, v

\* However the updater is run, once or twice, the page keeps the newest of what came.
LEMMA ArrivedKeeps ==
  ASSUME FeedTypes, OwnTimes, Windows, NEW s \in sending, s.value # None, s.value \in Values,
         NEW r, r = Charts!Updated(routerData, s) \/ r = Charts!Updated(Charts!Updated(routerData, s), s),
         NEW came, \A d \in Devices, m \in Watched :
                     came[d][m] = IF d = s.device /\ m = s.metric THEN Append(arrived[d][m], s)
                                  ELSE arrived[d][m]
  PROVE  /\ IsData(r) /\ r.version > routerData.version
         /\ \A d \in Devices, m \in Watched : Window(came[d][m], r.of[d][m])
<1> DEFINE all == arrived[s.device][s.metric]
           kept == routerData.of[s.device][s.metric]
           one == Charts!Updated(routerData, s)
           two == Charts!Updated(one, s)
<1>1. /\ s \in Sending /\ s.device \in Devices /\ s.metric \in Watched /\ s \in Charts!Samples
      /\ all \in Seq(Charts!Samples) /\ kept \in Seq(Charts!Samples)
      /\ IsData(routerData) /\ routerData.version \in Nat
  <2>1. s \in Sending /\ chartsClock \in Nat
    BY DEF FeedTypes
  <2>2. s.device \in Devices /\ s.metric \in Watched /\ s \in Charts!Samples
    BY <2>1 DEF Sending, Charts!Samples
  <2>3. QED BY <2>1, <2>2 DEF FeedTypes, IsData, Histories
<1>2. Window(all, kept) /\ \A i \in DOMAIN all : all[i].at # s.at
  BY <1>1 DEF Windows, OwnTimes
<1>3. /\ Charts!Kept(kept, s) \in Seq(Charts!Samples)
      /\ Window(Append(all, s), Charts!Kept(kept, s))
      /\ Charts!Kept(Charts!Kept(kept, s), s) = Charts!Kept(kept, s)
  BY <1>1, <1>2, KeptKeeps
<1>4. /\ IsData(one) /\ one.version = routerData.version + 1
      /\ \A d \in Devices, m \in Watched :
           one.of[d][m] = IF d = s.device /\ m = s.metric THEN Charts!Kept(kept, s)
                          ELSE routerData.of[d][m]
  BY <1>1, <1>3, UpdatedKeeps
<1> HIDE DEF one
<1>5. /\ IsData(two) /\ two.version = one.version + 1
      /\ \A d \in Devices, m \in Watched :
           two.of[d][m] = IF d = s.device /\ m = s.metric THEN Charts!Kept(kept, s)
                          ELSE routerData.of[d][m]
  <2>1. one.of[s.device][s.metric] = Charts!Kept(kept, s)
    BY <1>1, <1>4
  <2>2. Charts!Kept(one.of[s.device][s.metric], s) \in Seq(Charts!Samples)
    BY <1>3, <2>1
  <2>3. /\ IsData(two) /\ two.version = one.version + 1
        /\ \A d \in Devices, m \in Watched :
             two.of[d][m] = IF d = s.device /\ m = s.metric THEN Charts!Kept(one.of[d][m], s)
                            ELSE one.of[d][m]
    BY <1>1, <1>4, <2>2, UpdatedKeeps
  <2>4. QED BY <1>3, <1>4, <2>1, <2>3
<1> HIDE DEF two
<1>6. /\ IsData(r) /\ r.version > routerData.version
      /\ \A d \in Devices, m \in Watched :
           r.of[d][m] = IF d = s.device /\ m = s.metric THEN Charts!Kept(kept, s)
                        ELSE routerData.of[d][m]
  <2>1. r = one \/ r = two
    BY DEF one, two
  <2>2. CASE r = one
    BY <1>1, <1>4, <2>2
  <2>3. CASE r = two
    BY <1>1, <1>4, <1>5, <2>3
  <2>4. QED BY <2>1, <2>2, <2>3
<1>7. \A d \in Devices, m \in Watched :
        came[d][m] = IF d = s.device /\ m = s.metric THEN Append(all, s) ELSE arrived[d][m]
  OBVIOUS
<1>8. \A d \in Devices, m \in Watched : Window(came[d][m], r.of[d][m])
  <2> SUFFICES ASSUME NEW d \in Devices, NEW m \in Watched PROVE Window(came[d][m], r.of[d][m])
    OBVIOUS
  <2>1. CASE d = s.device /\ m = s.metric
    BY <1>3, <1>6, <1>7, <2>1
  <2>2. CASE ~(d = s.device /\ m = s.metric)
    BY <1>6, <1>7, <2>2 DEF Windows
  <2>3. QED BY <2>1, <2>2
<1>9. QED BY <1>6, <1>8

LEMMA AppendedIsLast ==
  ASSUME NEW T, NEW q \in Seq(T), NEW e \in T
  PROVE  /\ Len(q) \in Nat /\ DOMAIN q = 1..Len(q) /\ DOMAIN Append(q, e) = 1..(Len(q) + 1)
         /\ Append(q, e)[Len(q) + 1] = e /\ \A i \in 1..Len(q) : Append(q, e)[i] = q[i]
  OBVIOUS

\* A sample that arrives, or is missed, keeps the times apart and in order.
LEMMA TimesKept ==
  ASSUME FeedTypes, OwnTimes, FirstInOrder, NEW s \in sending, sending' = sending \ {s},
         UNCHANGED <<chartsClock, collection>>,
         \/ UNCHANGED arrived
         \/ s \in Charts!Samples /\ \A d \in Devices, m \in Watched :
              arrived'[d][m] = IF d = s.device /\ m = s.metric THEN Append(arrived[d][m], s)
                               ELSE arrived[d][m]
  PROVE  OwnTimes' /\ FirstInOrder'
<1>1. CASE UNCHANGED arrived
  BY <1>1 DEF OwnTimes, FirstInOrder
<1>2. CASE s \in Charts!Samples /\ \A d \in Devices, m \in Watched :
             arrived'[d][m] = IF d = s.device /\ m = s.metric THEN Append(arrived[d][m], s)
                              ELSE arrived[d][m]
  <2> DEFINE all == arrived[s.device][s.metric]
             a == Append(all, s)
  <2>1. s.device \in Devices /\ s.metric \in Watched /\ all \in Seq(Charts!Samples)
        /\ s.at \in Nat /\ s.at <= chartsClock
    <3>1. s \in Sending /\ chartsClock \in Nat /\ arrived \in Histories
      BY DEF FeedTypes
    <3>2. QED BY <3>1 DEF Sending, Histories
  <2>s. s \in Charts!Samples
    BY <1>2
  <2> HIDE DEF all
  <2>2. /\ Len(all) \in Nat /\ DOMAIN all = 1..Len(all) /\ DOMAIN a = 1..(Len(all) + 1)
        /\ a[Len(all) + 1] = s /\ \A i \in 1..Len(all) : a[i] = all[i]
    BY <2>s, <2>1, AppendedIsLast
  <2> HIDE DEF a
  <2>3. /\ arrived'[s.device][s.metric] = a
        /\ \A d \in Devices, m \in Watched : d # s.device \/ m # s.metric => arrived'[d][m] = arrived[d][m]
    BY <1>2, <2>1 DEF a, all
  <2>4. OwnTimes'
    <3> SUFFICES ASSUME NEW d \in Devices, NEW m \in Watched, NEW i \in DOMAIN arrived'[d][m]
                 PROVE  /\ arrived'[d][m][i].device = d /\ arrived'[d][m][i].metric = m
                        /\ arrived'[d][m][i].at <= chartsClock
                        /\ \A t \in sending' : arrived'[d][m][i].at # t.at
                        /\ \A j \in DOMAIN arrived'[d][m] :
                             arrived'[d][m][i].at = arrived'[d][m][j].at => i = j
      BY DEF OwnTimes
    <3>1. CASE d = s.device /\ m = s.metric
      <4>1. \A j \in 1..Len(all) : all[j].at # s.at
        BY <2>1, <2>2 DEF OwnTimes, all
      <4>2. i \in 1..Len(all) \/ i = Len(all) + 1
        BY <2>2, <2>3, <3>1
      <4>3. CASE i \in 1..Len(all)
        <5>1. /\ all[i].device = d /\ all[i].metric = m /\ all[i].at <= chartsClock
              /\ \A t \in sending : all[i].at # t.at
              /\ \A j \in 1..Len(all) : all[i].at = all[j].at => i = j
          BY <2>1, <2>2, <3>1, <4>3 DEF OwnTimes, all
        <5>2. arrived'[d][m] = a /\ a[i] = all[i]
          BY <2>2, <2>3, <3>1, <4>3
        <5>3. \A j \in 1..(Len(all) + 1) : a[i].at = a[j].at => i = j
          BY <2>2, <4>1, <4>3, <5>1, <5>2
        <5>4. QED BY <2>2, <5>1, <5>2, <5>3
      <4>4. CASE i = Len(all) + 1
        BY <2>1, <2>2, <2>3, <3>1, <4>1, <4>4 DEF OwnTimes
      <4>5. QED BY <4>2, <4>3, <4>4
    <3>2. CASE d # s.device \/ m # s.metric
      BY <2>3, <3>2 DEF OwnTimes
    <3>3. QED BY <3>1, <3>2
  <2>5. FirstInOrder'
    <3> SUFFICES ASSUME NEW d \in Devices, collection[d] = 1, NEW m \in Watched,
                        NEW i \in DOMAIN arrived'[d][m]
                 PROVE  /\ \A t \in sending' : t.device = d /\ t.metric = m => arrived'[d][m][i].at < t.at
                        /\ \A j \in DOMAIN arrived'[d][m] :
                             i < j => arrived'[d][m][i].at < arrived'[d][m][j].at
      BY DEF FirstInOrder
    <3>1. CASE d = s.device /\ m = s.metric
      <4>1. \A t \in sending' : ~(t.device = d /\ t.metric = m)
        BY <3>1 DEF FirstInOrder
      <4>2. \A j \in 1..Len(all) : all[j].at < s.at
        BY <2>1, <2>2, <3>1 DEF FirstInOrder, all
      <4>3. \A j \in 1..Len(all), k \in 1..Len(all) : j < k => all[j].at < all[k].at
        BY <2>1, <2>2, <3>1 DEF FirstInOrder, all
      <4>4. \A j \in 1..(Len(all) + 1), k \in 1..(Len(all) + 1) : j < k => a[j].at < a[k].at
        BY <2>2, <4>2, <4>3
      <4>5. QED BY <2>2, <2>3, <3>1, <4>1, <4>4
    <3>2. CASE d # s.device \/ m # s.metric
      BY <2>3, <3>2 DEF FirstInOrder
    <3>3. QED BY <3>1, <3>2
  <2>6. QED BY <2>4, <2>5
<1>3. QED BY <1>1, <1>2

\* A failed collection changes nothing but the identity of the outer Map.
LEMMA FailureKeeps ==
  ASSUME FeedTypes, NEW s \in sending, s.value = None,
         NEW r, r = Charts!Updated(routerData, s) \/ r = Charts!Updated(Charts!Updated(routerData, s), s)
  PROVE  /\ IsData(r) /\ r.version > routerData.version
         /\ \A d \in Devices, m \in Watched : r.of[d][m] = routerData.of[d][m]
<1> DEFINE one == Charts!Updated(routerData, s)
           two == Charts!Updated(one, s)
<1>1. /\ s.device \in Devices /\ s.metric \in Watched
      /\ IsData(routerData) /\ routerData.version \in Nat /\ routerData.of \in Histories
  <2>1. s \in Sending /\ chartsClock \in Nat
    BY DEF FeedTypes
  <2>2. s.device \in Devices /\ s.metric \in Watched
    BY <2>1 DEF Sending
  <2>3. QED BY <2>2 DEF FeedTypes, IsData
<1>2. \A h : Charts!Kept(h, s) = h
  BY DEF Charts!Kept
<1>3. /\ IsData(one) /\ one.version = routerData.version + 1
      /\ \A d \in Devices, m \in Watched : one.of[d][m] = routerData.of[d][m]
  <2>1. Charts!Kept(routerData.of[s.device][s.metric], s) \in Seq(Charts!Samples)
    BY <1>1, <1>2 DEF Histories
  <2>2. /\ IsData(one) /\ one.version = routerData.version + 1
        /\ \A d \in Devices, m \in Watched :
             one.of[d][m] = IF d = s.device /\ m = s.metric THEN Charts!Kept(routerData.of[d][m], s)
                            ELSE routerData.of[d][m]
    BY <1>1, <2>1, UpdatedKeeps
  <2> HIDE DEF one
  <2>3. QED BY <1>2, <2>2
<1> HIDE DEF one
<1>4. /\ IsData(two) /\ two.version = one.version + 1
      /\ \A d \in Devices, m \in Watched : two.of[d][m] = routerData.of[d][m]
  <2>1. Charts!Kept(one.of[s.device][s.metric], s) \in Seq(Charts!Samples)
    BY <1>1, <1>2, <1>3 DEF Histories
  <2>2. /\ IsData(two) /\ two.version = one.version + 1
        /\ \A d \in Devices, m \in Watched :
             two.of[d][m] = IF d = s.device /\ m = s.metric THEN Charts!Kept(one.of[d][m], s)
                            ELSE one.of[d][m]
    BY <1>1, <1>3, <2>1, UpdatedKeeps
  <2> HIDE DEF two
  <2>3. QED BY <1>2, <1>3, <2>2
<1> HIDE DEF two
<1>5. r = one \/ r = two
  BY DEF one, two
<1>6. CASE r = one
  BY <1>1, <1>3, <1>6
<1>7. CASE r = two
  BY <1>1, <1>3, <1>4, <1>7
<1>8. QED BY <1>5, <1>6, <1>7

LEMMA NothingCame ==
  /\ Charts!NoHistories \in Histories /\ IsData(Charts!NoData)
  /\ \A d \in Devices, m \in Watched :
       Charts!NoHistories[d][m] = <<>> /\ Charts!NoData.of[d][m] = <<>>
<1>1. <<>> \in Seq(Charts!Samples)
  OBVIOUS
<1>2. Charts!NoHistories \in Histories
  BY <1>1 DEF Charts!NoHistories, Histories
<1>3. \A d \in Devices, m \in Watched : Charts!NoHistories[d][m] = <<>>
  BY DEF Charts!NoHistories
<1>4. Charts!NoData = [of |-> Charts!NoHistories, version |-> 0]
  BY DEF Charts!NoData
<1>5. QED BY <1>2, <1>3, <1>4 DEF IsData

LEMMA FeedBegins == Charts!Init => FeedInv
<1> SUFFICES ASSUME Charts!Init PROVE FeedInv
  OBVIOUS
<1>1. /\ chartsKind \in Pages /\ chartsStrict \in BOOLEAN /\ chartsPage = None /\ chartsClock = 0
      /\ collection = [d \in Devices |-> 1] /\ sending = {} /\ routerData = Charts!NoData
      /\ memo = Charts!NoMemo /\ arrived = Charts!NoHistories
  BY DEF Charts!Init
<1>2. FeedTypes
  BY <1>1, NothingCame DEF FeedTypes
<1>3. OwnTimes /\ FirstInOrder
  BY <1>1, NothingCame DEF OwnTimes, FirstInOrder
<1>4. Windows
  <2>1. MaxDataPoints \in Nat \ {0}
    BY PartsAssumption DEF Charts!FeedAssumption
  <2>2. Window(<<>>, <<>>)
    BY <2>1 DEF Window
  <2>3. QED BY <1>1, <2>2, NothingCame DEF Windows
<1>5. MemosFresh
  BY <1>1 DEF MemosFresh
<1>6. QED BY <1>2, <1>3, <1>4, <1>5 DEF FeedInv

\* Rendered again, the page's charts are of the data there are.
LEMMA RenderedIsFresh ==
  ASSUME NEW r, NEW d, memo.page # d \/ memo.version # r.version
  PROVE  Charts!Rendered(r, d) = MemoOf(r, d)
BY DEF Charts!Rendered, MemoOf

\* The charts depend on the kind of the page, which does not change.
LEMMA MemoOpens ==
  ASSUME chartsKind' = chartsKind, chartsPage' # None, memo' = MemoOf(routerData', chartsPage')
  PROVE  MemosFresh'
BY DEF MemosFresh, MemoOf, Charts!Charts, Charts!Charted, Charts!Layout

LEMMA MemoStays ==
  ASSUME MemosFresh, UNCHANGED <<chartsKind, chartsPage, routerData, memo>>
  PROVE  MemosFresh'
BY DEF MemosFresh, MemoOf, Charts!Charts, Charts!Charted, Charts!Layout, Charts!NoMemo,
       Charts!NoData, Charts!NoHistories

LEMMA OpenKeepsFeed ==
  ASSUME FeedInv, NEW d \in Devices, Charts!Open(d) \/ Charts!Turn(d)
  PROVE  FeedInv'
<1>1. /\ chartsPage' = d /\ d # None /\ chartsPage # d
      /\ UNCHANGED <<chartsKind, chartsStrict, chartsClock, collection, sending, routerData, arrived>>
  BY PartsAssumption DEF Charts!Open, Charts!Turn, Charts!FeedAssumption
<1>2. FeedTypes'
  BY <1>1 DEF FeedInv, FeedTypes, Sending, IsData
<1>3. OwnTimes' /\ FirstInOrder' /\ Windows'
  BY <1>1 DEF FeedInv, OwnTimes, FirstInOrder, Windows, Window
<1>4. memo' = Charts!Rendered(routerData, d) /\ memo.page # d
  <2>1. CASE Charts!Open(d)
    <3>1. chartsPage = None /\ memo' = Charts!Rendered(Charts!NoData, d)
      BY <2>1 DEF Charts!Open
    <3>2. memo = Charts!NoMemo /\ routerData = Charts!NoData
      BY <3>1 DEF FeedInv, MemosFresh
    <3>3. memo.page = None
      BY <3>2 DEF Charts!NoMemo
    <3>4. QED BY <1>1, <3>1, <3>2, <3>3
  <2>2. CASE Charts!Turn(d)
    <3>1. chartsPage # None /\ memo' = Charts!Rendered(routerData, d)
      BY <2>2 DEF Charts!Turn
    <3>2. memo = MemoOf(routerData, chartsPage)
      BY <3>1 DEF FeedInv, MemosFresh
    <3>3. memo.page = chartsPage
      BY <3>2 DEF MemoOf
    <3>4. QED BY <1>1, <3>1, <3>3
  <2>3. QED BY <2>1, <2>2
<1>5. memo' = MemoOf(routerData', chartsPage')
  BY <1>1, <1>4, RenderedIsFresh
<1>6. MemosFresh'
  BY <1>1, <1>5, MemoOpens
<1>7. QED BY <1>2, <1>3, <1>6 DEF FeedInv

LEMMA RestartKeepsFeed ==
  ASSUME FeedInv, NEW d \in Devices, Charts!Restart(d)
  PROVE  FeedInv'
<1>1. /\ collection' = [collection EXCEPT ![d] = @ + 1]
      /\ UNCHANGED <<chartsKind, chartsStrict, chartsPage, chartsClock, sending, routerData, memo, arrived>>
  BY DEF Charts!Restart
<1>2. collection \in [Devices -> Nat \ {0}]
  BY DEF FeedInv, FeedTypes
<1>3. /\ collection' \in [Devices -> Nat \ {0}]
      /\ \A e \in Devices : collection'[e] = 1 => collection[e] = 1
  BY <1>1, <1>2
<1>4. FeedTypes'
  BY <1>1, <1>3 DEF FeedInv, FeedTypes, Sending, IsData
<1>5. OwnTimes' /\ Windows'
  BY <1>1 DEF FeedInv, OwnTimes, Windows, Window
<1>6. FirstInOrder'
  BY <1>1, <1>3 DEF FeedInv, FirstInOrder
<1>7. MemosFresh'
  BY <1>1, MemoStays DEF FeedInv
<1>8. QED BY <1>4, <1>5, <1>6, <1>7 DEF FeedInv

LEMMA CollectKeepsFeed ==
  ASSUME FeedInv, NEW d \in Devices, NEW m \in Watched, NEW v \in Values \cup {None},
         Charts!Collect(d, m, v)
  PROVE  FeedInv'
<1> DEFINE new == [device |-> d, metric |-> m, value |-> v, at |-> chartsClock + 1,
                   collection |-> collection[d]]
<1>1. /\ \A s \in sending : <<s.device, s.metric, s.collection>> # <<d, m, collection[d]>>
      /\ chartsClock' = chartsClock + 1 /\ sending' = sending \cup {new}
      /\ UNCHANGED <<chartsKind, chartsStrict, chartsPage, collection, routerData, memo, arrived>>
  BY DEF Charts!Collect
<1>2. /\ chartsClock \in Nat /\ collection[d] \in Nat /\ sending \subseteq Sending /\ arrived \in Histories
  BY DEF FeedInv, FeedTypes
<1>3. /\ new.device = d /\ new.metric = m /\ new.at = chartsClock + 1 /\ new.collection = collection[d]
      /\ \A s \in sending : s.at \in Nat /\ s.at < new.at
  BY <1>2 DEF Sending
<1>4. FeedTypes'
  <2>1. new \in Sending'
    BY <1>1, <1>2 DEF Sending
  <2>2. sending \subseteq Sending'
    BY <1>1, <1>2 DEF Sending
  <2> HIDE DEF new
  <2>3. QED BY <1>1, <1>2, <2>1, <2>2 DEF FeedInv, FeedTypes, IsData
<1> HIDE DEF new
<1>5. \A e \in Devices, n \in Watched : \A i \in DOMAIN arrived[e][n] :
        arrived[e][n][i].at \in Nat /\ arrived[e][n][i].at <= chartsClock
  <2> SUFFICES ASSUME NEW e \in Devices, NEW n \in Watched, NEW i \in DOMAIN arrived[e][n]
               PROVE  arrived[e][n][i].at \in Nat /\ arrived[e][n][i].at <= chartsClock
    OBVIOUS
  <2>1. arrived[e][n] \in Seq(Charts!Samples)
    BY <1>2 DEF Histories
  <2>2. arrived[e][n][i] \in Charts!Samples
    BY <2>1
  <2>3. QED BY <2>2 DEF Charts!Samples, FeedInv, OwnTimes
<1>6. OwnTimes'
  <2>1. \A s, t \in sending' : s.at = t.at => s = t
    BY <1>1, <1>2, <1>3 DEF FeedInv, OwnTimes
  <2>2. ASSUME NEW e \in Devices, NEW n \in Watched, NEW i \in DOMAIN arrived[e][n]
        PROVE  /\ arrived[e][n][i].device = e /\ arrived[e][n][i].metric = n
               /\ arrived[e][n][i].at <= chartsClock'
               /\ \A s \in sending' : arrived[e][n][i].at # s.at
               /\ \A j \in DOMAIN arrived[e][n] : arrived[e][n][i].at = arrived[e][n][j].at => i = j
    <3>1. /\ arrived[e][n][i].device = e /\ arrived[e][n][i].metric = n
          /\ \A s \in sending : arrived[e][n][i].at # s.at
          /\ \A j \in DOMAIN arrived[e][n] : arrived[e][n][i].at = arrived[e][n][j].at => i = j
      BY DEF FeedInv, OwnTimes
    <3>2. arrived[e][n][i].at <= chartsClock' /\ arrived[e][n][i].at # new.at
      BY <1>1, <1>2, <1>3, <1>5
    <3>3. QED BY <1>1, <3>1, <3>2
  <2>3. QED BY <1>1, <2>1, <2>2 DEF OwnTimes
<1>7. FirstInOrder'
  <2> SUFFICES ASSUME NEW e \in Devices, collection[e] = 1
               PROVE  /\ \A s \in sending' : s.device = e => s.collection = 1
                      /\ \A s, t \in sending' : s.device = e /\ t.device = e /\ s.metric = t.metric => s = t
                      /\ \A n \in Watched : \A i \in DOMAIN arrived[e][n] :
                           /\ \A s \in sending' : s.device = e /\ s.metric = n => arrived[e][n][i].at < s.at
                           /\ \A j \in DOMAIN arrived[e][n] : i < j => arrived[e][n][i].at < arrived[e][n][j].at
    BY <1>1 DEF FirstInOrder
  <2>1. \A s \in sending' : s.device = e => s.collection = 1
    BY <1>1, <1>3 DEF FeedInv, FirstInOrder
  <2>2. \A s \in sending : ~(s.device = e /\ d = e /\ s.metric = m)
    BY <1>1 DEF FeedInv, FirstInOrder
  <2>3. \A s, t \in sending' : s.device = e /\ t.device = e /\ s.metric = t.metric => s = t
    BY <1>1, <1>3, <2>2 DEF FeedInv, FirstInOrder
  <2>4. ASSUME NEW n \in Watched, NEW i \in DOMAIN arrived[e][n]
        PROVE  /\ \A s \in sending' : s.device = e /\ s.metric = n => arrived[e][n][i].at < s.at
               /\ \A j \in DOMAIN arrived[e][n] : i < j => arrived[e][n][i].at < arrived[e][n][j].at
    <3>1. /\ \A s \in sending : s.device = e /\ s.metric = n => arrived[e][n][i].at < s.at
          /\ \A j \in DOMAIN arrived[e][n] : i < j => arrived[e][n][i].at < arrived[e][n][j].at
      BY DEF FeedInv, FirstInOrder
    <3>2. arrived[e][n][i].at < new.at
      BY <1>2, <1>3, <1>5
    <3>3. QED BY <1>1, <3>1, <3>2
  <2>5. QED BY <2>1, <2>3, <2>4
<1>8. Windows' /\ MemosFresh'
  BY <1>1, MemoStays DEF FeedInv, Windows, Window
<1>9. QED BY <1>4, <1>6, <1>7, <1>8 DEF FeedInv

LEMMA MissKeepsFeed ==
  ASSUME FeedInv, NEW s \in sending, sending' = sending \ {s},
         UNCHANGED <<chartsKind, chartsStrict, chartsPage, chartsClock, collection, routerData,
                     memo, arrived>>
  PROVE  FeedInv'
<1>1. OwnTimes' /\ FirstInOrder'
  BY TimesKept DEF FeedInv
<1>2. FeedTypes'
  BY DEF FeedInv, FeedTypes, Sending, IsData
<1>3. Windows' /\ MemosFresh'
  BY MemoStays DEF FeedInv, Windows, Window
<1>4. QED BY <1>1, <1>2, <1>3 DEF FeedInv

LEMMA ReceiveKeepsFeed ==
  ASSUME FeedInv, NEW s \in sending, Charts!Receive(s)
  PROVE  FeedInv'
<1>1. /\ sending' = sending \ {s}
      /\ UNCHANGED <<chartsKind, chartsStrict, chartsPage, chartsClock, collection>>
  BY DEF Charts!Receive
<1>2. CASE chartsPage = None
  <2>1. UNCHANGED <<routerData, memo, arrived>>
    BY <1>2 DEF Charts!Receive
  <2>2. QED BY <1>1, <2>1, MissKeepsFeed
<1>3. CASE chartsPage # None
  <2> DEFINE r == routerData'
             came == [arrived EXCEPT ![s.device][s.metric] = IF s.value = None THEN @ ELSE Append(@, s)]
  <2>1. /\ r = Charts!Updated(routerData, s) \/ r = Charts!Updated(Charts!Updated(routerData, s), s)
        /\ memo' = Charts!Rendered(r, chartsPage) /\ arrived' = came
    BY <1>3 DEF Charts!Receive
  <2>2. FeedTypes /\ OwnTimes /\ FirstInOrder /\ Windows /\ memo = MemoOf(routerData, chartsPage)
    BY <1>3 DEF FeedInv, MemosFresh
  <2>3. /\ s \in Sending /\ s.device \in Devices /\ s.metric \in Watched /\ arrived \in Histories
        /\ routerData.version \in Nat
    BY <2>2 DEF FeedTypes, Sending, IsData
  <2>4. /\ IsData(r) /\ r.version > routerData.version /\ arrived' \in Histories
        /\ Windows' /\ OwnTimes' /\ FirstInOrder'
    <3>1. CASE s.value = None
      <4>1. /\ IsData(r) /\ r.version > routerData.version
            /\ \A d \in Devices, m \in Watched : r.of[d][m] = routerData.of[d][m]
        <5> HIDE DEF r
        <5>1. QED BY <2>1, <2>2, <3>1, FailureKeeps
      <4>2. arrived' = arrived
        BY <2>1, <2>3, <3>1 DEF Histories
      <4>3. Windows'
        <5>1. \A d \in Devices, m \in Watched : Window(arrived'[d][m], routerData'.of[d][m])
          BY <2>2, <4>1, <4>2 DEF Windows
        <5>2. QED BY <5>1 DEF Windows, Window
      <4>4. OwnTimes' /\ FirstInOrder'
        BY <1>1, <2>2, <4>2, TimesKept
      <4>5. QED BY <2>3, <4>1, <4>2, <4>3, <4>4
    <3>2. CASE s.value # None
      <4>1. s.value \in Values /\ s \in Charts!Samples
        BY <2>2, <2>3, <3>2 DEF Sending, Charts!Samples, FeedTypes
      <4>2. came = [arrived EXCEPT ![s.device][s.metric] = Append(@, s)]
        BY <3>2
      <4>3. /\ IsData(r) /\ came \in Histories /\ r.version > routerData.version
            /\ \A d \in Devices, m \in Watched : Window(came[d][m], r.of[d][m])
            /\ \A d \in Devices, m \in Watched :
                 came[d][m] = IF d = s.device /\ m = s.metric THEN Append(arrived[d][m], s)
                              ELSE arrived[d][m]
        <5> DEFINE all == arrived[s.device][s.metric]
        <5>1. Append(all, s) \in Seq(Charts!Samples)
          BY <2>3, <4>1 DEF Histories
        <5>2. came \in Histories /\ \A d \in Devices, m \in Watched :
                came[d][m] = IF d = s.device /\ m = s.metric THEN Append(arrived[d][m], s)
                             ELSE arrived[d][m]
          BY <2>3, <4>2, <5>1 DEF Histories
        <5> HIDE DEF r, came
        <5>3. QED BY <2>1, <2>2, <3>2, <4>1, <5>2, ArrivedKeeps
      <4> HIDE DEF came
      <4>4. Windows'
        BY <2>1, <4>3 DEF Windows, Window
      <4>5. \A d \in Devices, m \in Watched :
              arrived'[d][m] = IF d = s.device /\ m = s.metric THEN Append(arrived[d][m], s)
                               ELSE arrived[d][m]
        BY <2>1, <4>3
      <4>6. OwnTimes' /\ FirstInOrder'
        BY <1>1, <2>2, <4>1, <4>5, TimesKept
      <4>7. QED BY <2>1, <4>3, <4>4, <4>6
    <3>3. QED BY <3>1, <3>2
  <2>5. FeedTypes'
    BY <1>1, <2>2, <2>4 DEF FeedTypes, Sending, IsData
  <2>6. memo' = MemoOf(routerData', chartsPage')
    <3>1. memo.version = routerData.version
      BY <2>2 DEF MemoOf
    <3>2. memo.version # r.version
      BY <2>2, <2>3, <2>4, <3>1 DEF IsData
    <3>3. QED BY <1>1, <2>1, <3>2, RenderedIsFresh
  <2>7. MemosFresh'
    BY <1>1, <1>3, <2>6, MemoOpens
  <2>8. QED BY <2>4, <2>5, <2>7 DEF FeedInv
<1>4. QED BY <1>2, <1>3

LEMMA CloseKeepsFeed == ASSUME FeedInv, Charts!Close PROVE FeedInv'
<1>1. /\ chartsPage' = None /\ routerData' = Charts!NoData /\ memo' = Charts!NoMemo
      /\ arrived' = Charts!NoHistories
      /\ UNCHANGED <<chartsKind, chartsStrict, chartsClock, collection, sending>>
  BY DEF Charts!Close
<1>2. FeedTypes'
  BY <1>1, NothingCame DEF FeedInv, FeedTypes, Sending, IsData
<1>3. OwnTimes' /\ FirstInOrder'
  <2>1. \A d \in Devices, m \in Watched : DOMAIN arrived'[d][m] = {}
    BY <1>1, NothingCame
  <2>2. QED BY <1>1, <2>1 DEF FeedInv, OwnTimes, FirstInOrder
<1>4. Windows'
  <2>1. MaxDataPoints \in Nat \ {0}
    BY PartsAssumption DEF Charts!FeedAssumption
  <2>2. Window(<<>>, <<>>)
    BY <2>1 DEF Window
  <2>3. \A d \in Devices, m \in Watched : Window(arrived'[d][m], routerData'.of[d][m])
    BY <1>1, <2>2, NothingCame
  <2>4. QED BY <2>3 DEF Windows, Window
<1>5. MemosFresh'
  BY <1>1 DEF MemosFresh, Charts!NoMemo, Charts!NoData, Charts!NoHistories, Charts!Charted,
     Charts!Layout
<1>6. QED BY <1>2, <1>3, <1>4, <1>5 DEF FeedInv

LEMMA FeedIsInvariant == PageSpec => []FeedInv
<1>1. FeedInv /\ [Charts!Next]_Charts!vars => FeedInv'
  <2> SUFFICES ASSUME FeedInv, [Charts!Next]_Charts!vars PROVE FeedInv'
    OBVIOUS
  <2>1. ASSUME NEW d \in Devices, Charts!Open(d) \/ Charts!Turn(d) PROVE FeedInv'
    BY <2>1, OpenKeepsFeed
  <2>2. ASSUME NEW d \in Devices, Charts!Restart(d) PROVE FeedInv'
    BY <2>2, RestartKeepsFeed
  <2>3. ASSUME NEW d \in Devices, NEW m \in Watched, NEW v \in Values \cup {None},
               Charts!Collect(d, m, v)
        PROVE  FeedInv'
    BY <2>3, CollectKeepsFeed
  <2>4. ASSUME NEW s \in sending, Charts!Receive(s) PROVE FeedInv'
    BY <2>4, ReceiveKeepsFeed
  <2>5. ASSUME NEW s \in sending, Charts!Miss(s) PROVE FeedInv'
    BY <2>5, MissKeepsFeed DEF Charts!Miss
  <2>6. CASE Charts!Close
    BY <2>6, CloseKeepsFeed
  <2>7. CASE UNCHANGED Charts!vars
    <3>1. UNCHANGED <<chartsKind, chartsStrict, chartsPage, chartsClock, collection, sending,
                      routerData, memo, arrived>>
      BY <2>7 DEF Charts!vars
    <3>2. FeedTypes' /\ OwnTimes' /\ FirstInOrder' /\ Windows'
      BY <3>1 DEF FeedInv, FeedTypes, Sending, IsData, OwnTimes, FirstInOrder, Windows, Window
    <3>3. QED BY <3>1, <3>2, MemoStays DEF FeedInv
  <2>8. QED BY <2>1, <2>2, <2>3, <2>4, <2>5, <2>6, <2>7 DEF Charts!Next
<1>2. QED BY <1>1, FeedBegins, ChartsBehave, PTL DEF Charts!Spec

\* On an open page the charts are the histories that are kept, in order while the
\* collection is the device's first, and what is shown is its own, and the last.
LEMMA FeedIsRight ==
  ASSUME FeedInv
  PROVE  /\ Charts!WindowsAreNewest /\ Charts!ShownIsOwn /\ Charts!ChartsAreFresh
         /\ Charts!ChartsGoForward /\ Charts!CurrentIsLast
<1>1. Charts!WindowsAreNewest
  BY DEF FeedInv, Windows, Window, Charts!WindowsAreNewest
<1>2. Charts!ChartsAreFresh
  BY DEF FeedInv, MemosFresh, MemoOf, Charts!ChartsAreFresh
<1>3. ASSUME chartsPage # None
      PROVE  Charts!ShownIsOwn /\ Charts!ChartsGoForward /\ Charts!CurrentIsLast
  <2> DEFINE d == chartsPage
             all(m) == arrived[d][m]
             kept(m) == routerData.of[d][m]
             from(m) == Len(all(m)) - Len(kept(m))
  <2>1. d \in Devices /\ memo = MemoOf(routerData, d)
    BY <1>3 DEF FeedInv, FeedTypes, MemosFresh
  <2>2. ASSUME NEW m \in Watched
        PROVE  /\ all(m) \in Seq(Charts!Samples) /\ kept(m) \in Seq(Charts!Samples)
               /\ Len(all(m)) \in Nat /\ DOMAIN all(m) = 1..Len(all(m))
               /\ Len(kept(m)) \in Nat /\ DOMAIN kept(m) = 1..Len(kept(m))
               /\ Window(all(m), kept(m))
    <3>1. all(m) \in Seq(Charts!Samples) /\ kept(m) \in Seq(Charts!Samples)
      BY <2>1 DEF FeedInv, FeedTypes, IsData, Histories
    <3>2. Window(all(m), kept(m))
      BY <2>1 DEF FeedInv, Windows
    <3> HIDE DEF all, kept
    <3>3. QED BY <3>1, <3>2
  <2>3. \A m \in Watched : \A i \in DOMAIN all(m) :
          /\ all(m)[i].device = d /\ all(m)[i].metric = m
          /\ \A j \in DOMAIN all(m) : all(m)[i].at = all(m)[j].at => i = j
    BY <2>1 DEF FeedInv, OwnTimes
  <2>4. collection[d] = 1 => \A m \in Watched : \A i, j \in DOMAIN all(m) :
          i < j => all(m)[i].at < all(m)[j].at
    BY <2>1 DEF FeedInv, FirstInOrder
  <2> HIDE DEF d, all, kept
  <2>5. MaxDataPoints \in Nat \ {0}
    BY PartsAssumption DEF Charts!FeedAssumption
  <2>6. ASSUME NEW m \in Watched
        PROVE  /\ from(m) \in Nat
               /\ \A i \in DOMAIN kept(m) : from(m) + i \in DOMAIN all(m) /\ kept(m)[i] = all(m)[from(m) + i]
               /\ Len(kept(m)) = 0 <=> Len(all(m)) = 0
    <3>1. Len(kept(m)) = IF Len(all(m)) < MaxDataPoints THEN Len(all(m)) ELSE MaxDataPoints
      BY <2>2 DEF Window
    <3>2. \A i \in DOMAIN kept(m) : kept(m)[i] = all(m)[from(m) + i]
      BY <2>2 DEF Window
    <3>3. QED BY <2>2, <2>5, <3>1, <3>2
  <2> HIDE DEF from
  <2>7. ASSUME NEW m \in Watched
        PROVE  \A i \in DOMAIN kept(m) :
                 /\ kept(m)[i].device = d /\ kept(m)[i].metric = m
                 /\ \A j \in DOMAIN kept(m) : kept(m)[i].at = kept(m)[j].at => i = j
                 /\ collection[d] = 1 => \A j \in DOMAIN kept(m) : i < j => kept(m)[i].at < kept(m)[j].at
    <3> SUFFICES ASSUME NEW i \in DOMAIN kept(m)
                 PROVE  /\ kept(m)[i].device = d /\ kept(m)[i].metric = m
                        /\ \A j \in DOMAIN kept(m) : kept(m)[i].at = kept(m)[j].at => i = j
                        /\ collection[d] = 1 =>
                             \A j \in DOMAIN kept(m) : i < j => kept(m)[i].at < kept(m)[j].at
      OBVIOUS
    <3>1. kept(m)[i].device = d /\ kept(m)[i].metric = m
      BY <2>3, <2>6
    <3>2. ASSUME NEW j \in DOMAIN kept(m)
          PROVE  /\ kept(m)[i].at = kept(m)[j].at => i = j
                 /\ collection[d] = 1 /\ i < j => kept(m)[i].at < kept(m)[j].at
      <4>1. /\ kept(m)[i] = all(m)[from(m) + i] /\ kept(m)[j] = all(m)[from(m) + j]
            /\ from(m) + i \in DOMAIN all(m) /\ from(m) + j \in DOMAIN all(m)
        BY <2>6
      <4>2. i \in Nat /\ j \in Nat /\ from(m) \in Nat
        BY <2>2, <2>6
      <4>3. (from(m) + i = from(m) + j => i = j) /\ (i < j => from(m) + i < from(m) + j)
        BY <4>2
      <4>4. QED BY <2>3, <2>4, <4>1, <4>3
    <3>3. QED BY <3>1, <3>2
  <2>8. ASSUME NEW m \in Charts!Charted PROVE m \in Watched /\ memo.charts[m] = kept(m)
    <3>1. m \in Watched
      BY DEF Charts!Charted
    <3>2. memo.charts[m] = Charts!Chart(kept(m))
      BY <2>1 DEF MemoOf, Charts!Charts, kept, d
    <3>3. \A i, j \in DOMAIN kept(m) : kept(m)[i].at = kept(m)[j].at => i = j
      BY <2>7, <3>1
    <3>4. kept(m) \in Seq(Charts!Samples)
      BY <2>2, <3>1
    <3>5. QED BY <3>1, <3>2, <3>3, <3>4, ChartIsHistory
  <2>9. Charts!ShownIsOwn
    <3>1. \A m \in Charts!Charted : \A i \in DOMAIN memo.charts[m] :
            memo.charts[m][i].device = d /\ memo.charts[m][i].metric = m
      BY <2>7, <2>8
    <3>2. ASSUME NEW m \in Charts!Held, Charts!HeldSample(m) # None PROVE Charts!HeldSample(m).device = d
      <4>1. m \in Watched
        BY DEF Charts!Held
      <4>2. kept(m) # <<>> /\ Charts!HeldSample(m) = kept(m)[1]
        BY <3>2 DEF Charts!HeldSample, kept, d
      <4>3. 1 \in DOMAIN kept(m)
        BY <2>2, <4>1, <4>2
      <4>4. QED BY <2>7, <4>1, <4>2, <4>3
    <3>3. QED BY <3>1, <3>2 DEF Charts!ShownIsOwn, d
  <2>10. Charts!ChartsGoForward
    BY <2>7, <2>8 DEF Charts!ChartsGoForward, d
  <2>11. Charts!CurrentIsLast
    <3> SUFFICES ASSUME NEW m \in Charts!Charted, Charts!Layout.at[m] = m PROVE Charts!IsCurrent(m)
      BY DEF Charts!CurrentIsLast
    <3> DEFINE n == Len(kept(m))
    <3>1. m \in Watched /\ memo.charts[m] = kept(m)
      BY <2>8
    <3>2. Charts!Current(m) = IF n \in DOMAIN kept(m) THEN kept(m)[n].value ELSE 0
      BY <3>1 DEF Charts!Current
    <3>3. CASE n = 0
      <4>1. n \notin DOMAIN kept(m) /\ all(m) = <<>>
        BY <2>2, <2>6, <3>1, <3>3
      <4>2. QED BY <3>2, <4>1 DEF Charts!IsCurrent, all, d
    <3>4. CASE n # 0
      <4>1. n \in DOMAIN kept(m) /\ all(m) # <<>>
        BY <2>2, <2>6, <3>1, <3>4
      <4>2. kept(m)[n] = all(m)[Len(all(m))]
        <5>1. from(m) + n = Len(all(m))
          BY <2>2, <3>1 DEF from
        <5>2. QED BY <2>6, <3>1, <4>1, <5>1
      <4>3. Charts!Last(all(m)) = all(m)[Len(all(m))]
        BY DEF Charts!Last
      <4>4. QED BY <3>2, <4>1, <4>2, <4>3 DEF Charts!IsCurrent, all, d
    <3>5. QED BY <3>3, <3>4
  <2>12. QED BY <2>9, <2>10, <2>11
<1>4. QED BY <1>1, <1>2, <1>3 DEF Charts!ShownIsOwn, Charts!ChartsGoForward, Charts!CurrentIsLast

\* Whatever is sent for other devices, missed, restarted or run twice, the charts of a
\* monitoring page are made of the newest samples that came to it, each once, of its own
\* device, as of now: onmessage of useSnmpMonitor.ts and the memos of the two pages.
THEOREM ChartsFollowTheFeed == PageSpec => []ChartsAreRight
<1>1. FeedInv => ChartsAreRight
  BY FeedIsRight DEF ChartsAreRight
<1>2. QED BY <1>1, FeedIsInvariant, PTL

-----------------------------------------------------------------------------
(* Sums over a finite set *)

\* The sums that MapThenSumSet folds: an element is taken, whatever its value.
One(s) == CHOOSE x \in s : TRUE
AreSums(g, f, D) ==
  g = [s \in D |-> IF s = {} THEN 0 ELSE f[One(s)] + g[s \ {One(s)}]]

LEMMA OneLess ==
  ASSUME NEW s, IsFiniteSet(s), s # {}
  PROVE  /\ One(s) \in s /\ IsFiniteSet(s \ {One(s)}) /\ Cardinality(s) \in Nat \ {0}
         /\ Cardinality(s \ {One(s)}) = Cardinality(s) - 1
<1>1. One(s) \in s
  BY DEF One
<1>2. QED BY <1>1, FS_RemoveElement, FS_CardinalityType, FS_EmptySet

LEMMA SumsExist ==
  ASSUME NEW S, IsFiniteSet(S), NEW f
  PROVE  \E g : AreSums(g, f, SUBSET S)
<1> DEFINE Upto(k) == {s \in SUBSET S : Cardinality(s) <= k}
           K == {k \in Nat : \E g : AreSums(g, f, Upto(k))}
<1>1. \A s \in SUBSET S : IsFiniteSet(s) /\ Cardinality(s) \in Nat /\ Cardinality(s) <= Cardinality(S)
  BY FS_Subset, FS_CardinalityType
<1>2. 0 \in K
  <2>1. \A s \in Upto(0) : s = {}
    BY <1>1, FS_EmptySet
  <2>2. AreSums([s \in Upto(0) |-> 0], f, Upto(0))
    BY <2>1 DEF AreSums
  <2>3. QED BY <2>2
<1>3. ASSUME NEW k \in Nat, k \in K PROVE k + 1 \in K
  <2>1. PICK g : AreSums(g, f, Upto(k))
    BY <1>3
  <2> DEFINE h == [s \in Upto(k + 1) |->
                     IF s \in Upto(k) THEN g[s] ELSE f[One(s)] + g[s \ {One(s)}]]
             e(s) == IF s = {} THEN 0 ELSE f[One(s)] + h[s \ {One(s)}]
  <2>2. \A s \in Upto(k) : s \in Upto(k + 1) /\ h[s] = g[s]
    BY <1>1
  <2>3. \A s \in Upto(k + 1) : s # {} => s \ {One(s)} \in Upto(k)
    <3> SUFFICES ASSUME NEW s \in Upto(k + 1), s # {} PROVE s \ {One(s)} \in Upto(k)
      OBVIOUS
    <3>1. s \in SUBSET S /\ IsFiniteSet(s) /\ Cardinality(s) <= k + 1
      BY <1>1
    <3>2. Cardinality(s \ {One(s)}) = Cardinality(s) - 1 /\ Cardinality(s) \in Nat
      BY <3>1, OneLess
    <3>3. QED BY <3>1, <3>2
  <2>4. h = [s \in Upto(k + 1) |-> h[s]]
    OBVIOUS
  <2>5. \A s \in Upto(k + 1) : s \notin Upto(k) => h[s] = f[One(s)] + g[s \ {One(s)}]
    OBVIOUS
  <2>6. \A s \in Upto(k) : g[s] = IF s = {} THEN 0 ELSE f[One(s)] + g[s \ {One(s)}]
    BY <2>1 DEF AreSums
  <2>7. {} \in Upto(k)
    BY FS_EmptySet
  <2> HIDE DEF h, Upto
  <2>8. \A s \in Upto(k + 1) : h[s] = e(s)
    BY <2>2, <2>3, <2>5, <2>6, <2>7
  <2>9. AreSums(h, f, Upto(k + 1))
    BY <2>4, <2>8 DEF AreSums
  <2>10. QED BY <2>9
<1> HIDE DEF K
<1>4. Cardinality(S) \in K
  BY <1>2, <1>3, Induction, FS_CardinalityType
<1>5. Upto(Cardinality(S)) = SUBSET S
  BY <1>1
<1>6. QED BY <1>4, <1>5 DEF K

-----------------------------------------------------------------------------
(* The types *)

LEMMA ChartTypes == FeedInv => Charts!TypeOK
<1> SUFFICES ASSUME FeedInv PROVE Charts!TypeOK
  OBVIOUS
<1>1. chartsKind \in Pages /\ chartsStrict \in BOOLEAN /\ chartsPage \in Devices \cup {None}
      /\ routerData.of \in Histories /\ arrived \in Histories /\ MaxDataPoints \in Nat
  BY ClockAssumption DEF FeedInv, FeedTypes, IsData
<1>2. ASSUME NEW d \in Devices, NEW m \in Watched
      PROVE  routerData.of[d][m] \in Seq(Charts!Samples) /\ Len(routerData.of[d][m]) <= MaxDataPoints
  <2>1. routerData.of[d][m] \in Seq(Charts!Samples) /\ arrived[d][m] \in Seq(Charts!Samples)
    BY <1>1 DEF Histories
  <2>2. Len(arrived[d][m]) \in Nat
    BY <2>1
  <2>3. Len(routerData.of[d][m]) <= MaxDataPoints
    BY <1>1, <2>2 DEF FeedInv, Windows, Window
  <2>4. QED BY <2>1, <2>3
<1>3. QED BY <1>1, <1>2 DEF Charts!TypeOK

-----------------------------------------------------------------------------
(* The dashboard *)

LEMMA DashboardBehaves == PageSpec => Dashboard!Spec
<1>1. PageInit => Dashboard!Init
  BY DEF PageInit
<1>2. [PageNext]_pageVars => [Dashboard!Next]_Dashboard!vars
  BY DEF PageNext, pageVars, cardsVars, Dashboard!vars
<1>3. QED BY <1>1, <1>2, PTL DEF PageSpec, Dashboard!Spec

\* The types, with what TypeOK leaves open: used and total are of the two rings.
CardTypes ==
  /\ Dashboard!TypeOK
  /\ used = [r \in Dashboard!Rings |-> used[r]] /\ total = [r \in Dashboard!Rings |-> total[r]]

LEMMA CardTypesInvariant == PageSpec => []CardTypes
<1>1. MaxDays \in Nat /\ Averages \subseteq Nat /\ Totals \in [Dashboard!Rings -> Nat \ {0}]
  BY PartsAssumption DEF Dashboard!ValuesAssumption
<1>2. Dashboard!Init => CardTypes
  <2> SUFFICES ASSUME Dashboard!Init PROVE CardTypes
    OBVIOUS
  <2>1. <<>> \in Seq(Averages) /\ Len(<<>>) = 0
    OBVIOUS
  <2>2. document \in [Cards -> Seq(Averages)] /\ data \in [Cards -> Seq(Averages)]
        /\ \A c \in Cards : Len(document[c]) <= MaxDays
    BY <1>1, <2>1 DEF Dashboard!Init
  <2>3. \A r \in Dashboard!Rings : used[r] \in 0..Totals[r] /\ total[r] \in {0, Totals[r]}
    BY <1>1 DEF Dashboard!Init
  <2>4. QED BY <2>2, <2>3 DEF CardTypes, Dashboard!TypeOK, Dashboard!Init
<1>3. CardTypes /\ [Dashboard!Next]_Dashboard!vars => CardTypes'
  <2> SUFFICES ASSUME CardTypes, [Dashboard!Next]_Dashboard!vars PROVE CardTypes'
    OBVIOUS
  <2> USE DEF CardTypes, Dashboard!TypeOK
  <2>1. ASSUME NEW c \in Cards, NEW v \in Averages, Dashboard!Midnight(c, v) PROVE CardTypes'
    <3>1. /\ document' = [document EXCEPT ![c] = Append(@, v)] /\ Len(document[c]) < MaxDays
          /\ UNCHANGED <<query, data, used, total>>
      BY <2>1 DEF Dashboard!Midnight
    <3>2. document[c] \in Seq(Averages) /\ Append(document[c], v) \in Seq(Averages)
          /\ Len(Append(document[c], v)) = Len(document[c]) + 1 /\ Len(document[c]) \in Nat
      OBVIOUS
    <3>3. document' \in [Cards -> Seq(Averages)] /\ \A d \in Cards : Len(document'[d]) <= MaxDays
      BY <1>1, <3>1, <3>2
    <3>4. QED BY <3>1, <3>3
  <2>2. CASE Dashboard!Answered
    BY <2>2 DEF Dashboard!Answered
  <2>3. CASE Dashboard!Failed
    BY <2>3 DEF Dashboard!Failed
  <2>4. ASSUME NEW r \in Dashboard!Rings, Dashboard!HearTotal(r) PROVE CardTypes'
    <3>1. total' = [total EXCEPT ![r] = Totals[r]] /\ UNCHANGED <<document, query, data, used>>
      BY <2>4 DEF Dashboard!HearTotal
    <3>2. total' = [s \in Dashboard!Rings |-> IF s = r THEN Totals[r] ELSE total[s]]
      BY <3>1
    <3>3. QED BY <3>1, <3>2
  <2>5. ASSUME NEW r \in Dashboard!Rings, NEW u \in 0..Totals[r], Dashboard!HearUsed(r, u)
        PROVE  CardTypes'
    <3>1. used' = [used EXCEPT ![r] = u] /\ UNCHANGED <<document, query, data, total>>
      BY <2>5 DEF Dashboard!HearUsed
    <3>2. used' = [s \in Dashboard!Rings |-> IF s = r THEN u ELSE used[s]]
      BY <3>1
    <3>3. QED BY <3>1, <3>2
  <2>6. CASE UNCHANGED Dashboard!vars
    BY <2>6 DEF Dashboard!vars
  <2>7. QED BY <2>1, <2>2, <2>3, <2>4, <2>5, <2>6 DEF Dashboard!Next
<1>4. QED BY <1>2, <1>3, DashboardBehaves, PTL DEF Dashboard!Spec

-----------------------------------------------------------------------------
(* The types of the lists *)

\* The rows of a collection are the router's, and at the end a status was read of each.
ListTypes ==
  /\ Lists!TypeOK
  /\ walk.at # "idle" => walk.tab \in Lists!Tabs /\ walk.rows \subseteq Interfaces
  /\ walk.at = "admin" => \A i \in walk.rows : walk.admin[i] \in 0..3

LEMMA StatusTypes ==
  ASSUME NEW s \in Statuses \cup {Lists!Gone}
  PROVE  s.admin \in 0..3 /\ s.oper \in 0..7
<1>1. Statuses \subseteq [admin : 1..3, oper : 1..7]
  BY PartsAssumption DEF Lists!TablesAssumption
<1>2. CASE s \in Statuses
  <2>1. s \in [admin : 1..3, oper : 1..7]
    BY <1>1, <1>2
  <2>2. QED BY <2>1
<1>3. CASE s = Lists!Gone
  BY <1>3 DEF Lists!Gone
<1>4. QED BY <1>2, <1>3

\* The orders of a list are sequences of its rows.
LEMMA OrdersAreLists ==
  ASSUME NEW S \in SUBSET Interfaces, NEW order \in Lists!SetToSeqs(S)
  PROVE  order \in Seq(S)
<1>1. IsFiniteSet(S)
  <2>1. IsFiniteSet(Interfaces)
    BY PartsAssumption DEF Lists!TablesAssumption, Lists!IsFiniteSet, IsFiniteSet
  <2>2. QED BY <2>1, FS_Subset
<1>2. Cardinality(S) \in Nat /\ Lists!Cardinality(S) = Cardinality(S)
  <2>1. Cardinality(S) \in Nat
    BY <1>1, FS_CardinalityType
  <2>2. QED BY <2>1 DEF Lists!Cardinality, Cardinality
<1>3. order \in [1..Cardinality(S) -> S]
  BY <1>2 DEF Lists!SetToSeqs
<1>4. QED BY <1>2, <1>3

LEMMA ListTypesInvariant == PageSpec => []ListTypes
<1>1. Lists!Init => ListTypes
  <2> SUFFICES ASSUME Lists!Init PROVE ListTypes
    OBVIOUS
  <2>1. list \in [Lists!Tabs -> Seq(Lists!Entries)]
    BY DEF Lists!Init
  <2>2. QED BY <2>1 DEF Lists!Init, ListTypes, Lists!TypeOK, Lists!Idle, Lists!Tabs
<1>2. ListTypes /\ [Lists!Next]_Lists!vars => ListTypes'
  <2> SUFFICES ASSUME ListTypes, [Lists!Next]_Lists!vars PROVE ListTypes'
    OBVIOUS
  <2>t. Lists!TypeOK
    BY DEF ListTypes
  <2>1. ASSUME NEW i \in Interfaces, NEW s \in Statuses \cup {Lists!Gone}, Lists!Change(i, s)
        PROVE  ListTypes'
    <3>1. router' = [router EXCEPT ![i] = s] /\ UNCHANGED <<list, tab, search, filter, expanded>>
      BY <2>1 DEF Lists!Change, Lists!component
    <3>2. router' \in [Interfaces -> Statuses \cup {Lists!Gone}]
      BY <2>t, <3>1 DEF Lists!TypeOK
    <3>3. /\ walk'.at = walk.at
          /\ walk.at # "idle" => walk'.tab = walk.tab /\ walk'.rows = walk.rows
          /\ walk.at = "admin" => walk'.admin = walk.admin
      BY <2>1 DEF Lists!Change
    <3>4. QED BY <2>t, <3>1, <3>2, <3>3 DEF ListTypes, Lists!TypeOK
  <2>2. ASSUME NEW t \in Lists!Tabs, Lists!WalkNames(t) PROVE ListTypes'
    BY <2>t, <2>2 DEF Lists!WalkNames, Lists!component, ListTypes, Lists!TypeOK, Lists!Present
  <2>3. CASE Lists!WalkTypes
    <3>1. walk'.at = "types" /\ walk'.tab = walk.tab /\ walk'.rows \subseteq walk.rows
          /\ UNCHANGED <<router, list, tab, search, filter, expanded>> /\ walk.at = "names"
      BY <2>3 DEF Lists!WalkTypes, Lists!component
    <3>2. QED BY <2>t, <3>1 DEF ListTypes, Lists!TypeOK
  <2>4. CASE Lists!WalkAdmin
    <3>1. /\ walk'.at = "admin" /\ walk'.tab = walk.tab /\ walk'.rows = walk.rows
          /\ walk'.admin = [i \in walk.rows |-> router[i].admin]
          /\ UNCHANGED <<router, list, tab, search, filter, expanded>> /\ walk.at = "types"
      BY <2>4 DEF Lists!WalkAdmin, Lists!component
    <3>2. ASSUME NEW i \in walk'.rows PROVE walk'.admin[i] \in 0..3
      <4>1. i \in Interfaces /\ walk'.admin[i] = router[i].admin
        BY <3>1, <3>2 DEF ListTypes
      <4>2. router[i] \in Statuses \cup {Lists!Gone}
        BY <2>t, <4>1 DEF Lists!TypeOK
      <4>3. QED BY <4>1, <4>2, StatusTypes
    <3>3. QED BY <2>t, <3>1, <3>2 DEF ListTypes, Lists!TypeOK
  <2>5. CASE Lists!WalkFails
    BY <2>t, <2>5 DEF Lists!WalkFails, Lists!component, Lists!Idle, ListTypes, Lists!TypeOK
  <2>6. ASSUME walk.at = "admin", NEW order \in Lists!SetToSeqs(walk.rows), Lists!Collected(order)
        PROVE  ListTypes'
    <3>1. /\ list' = [list EXCEPT ![walk.tab] = Lists!Listed(order)] /\ walk' = Lists!Idle
          /\ UNCHANGED <<router, tab, search, filter, expanded>>
      BY <2>6 DEF Lists!Collected, Lists!component
    <3>2. walk.tab \in Lists!Tabs /\ walk.rows \subseteq Interfaces
          /\ \A i \in walk.rows : walk.admin[i] \in 0..3
      BY <2>6 DEF ListTypes
    <3>3. order \in Seq(walk.rows)
      BY <3>2, <2>6, OrdersAreLists
    <3>4. ASSUME NEW k \in DOMAIN order
          PROVE  [index |-> order[k], admin |-> walk.admin[order[k]], oper |-> router[order[k]].oper]
                   \in Lists!Entries
      <4>1. order[k] \in walk.rows /\ order[k] \in Interfaces
        BY <3>2, <3>3, <3>4
      <4>2. router[order[k]] \in Statuses \cup {Lists!Gone}
        BY <2>t, <4>1 DEF Lists!TypeOK
      <4>3. QED BY <3>2, <4>1, <4>2, StatusTypes DEF Lists!Entries
    <3>5. Lists!Listed(order) \in Seq(Lists!Entries)
      <4>1. Len(order) \in Nat /\ DOMAIN order = 1..Len(order)
        BY <3>3
      <4>2. Lists!Listed(order) \in [1..Len(order) -> Lists!Entries]
        BY <3>4, <4>1 DEF Lists!Listed
      <4>3. QED BY <4>1, <4>2
    <3>6. list' \in [Lists!Tabs -> Seq(Lists!Entries)]
      BY <2>t, <3>1, <3>2, <3>5 DEF Lists!TypeOK
    <3>7. QED BY <2>t, <3>1, <3>6 DEF ListTypes, Lists!TypeOK, Lists!Idle
  <2>7. ASSUME NEW term \in Terms \cup {Lists!Empty}, Lists!Search(term) PROVE ListTypes'
    BY <2>t, <2>7 DEF Lists!Search, ListTypes, Lists!TypeOK
  <2>8. ASSUME NEW f \in {"all", "up", "down"}, Lists!SetStatusFilter(f) PROVE ListTypes'
    BY <2>t, <2>8 DEF Lists!SetStatusFilter, ListTypes, Lists!TypeOK
  <2>9. ASSUME NEW i \in Interfaces, Lists!ToggleExpand(i) PROVE ListTypes'
    BY <2>t, <2>9 DEF Lists!ToggleExpand, ListTypes, Lists!TypeOK
  <2>10. CASE Lists!ChangeTab
    BY <2>t, <2>10 DEF Lists!ChangeTab, ListTypes, Lists!TypeOK
  <2>11. CASE UNCHANGED Lists!vars
    BY <2>t, <2>11 DEF Lists!vars, Lists!component, ListTypes, Lists!TypeOK
  <2>12. QED
    BY <2>1, <2>2, <2>3, <2>4, <2>5, <2>6, <2>7, <2>8, <2>9, <2>10, <2>11 DEF Lists!Next
<1>3. QED BY <1>1, <1>2, ListsBehave, PTL DEF Lists!Spec

\* Every variable of every part of the page keeps its type, whichever part runs.
THEOREM PageTypesHold == PageSpec => []PageTypeOK
<1>1. PageSpec => [](part \in Parts)
  <2>1. PageInit => part \in Parts
    BY DEF PageInit
  <2>2. part \in Parts /\ [PageNext]_pageVars => (part \in Parts)'
    BY DEF PageNext, pageVars
  <2>3. QED BY <2>1, <2>2, PTL DEF PageSpec
<1>2. PageSpec => []TypeOK
  BY ClockBehaves, ClockTypes, PTL
<1>3. part \in Parts /\ TypeOK /\ FeedInv /\ CardTypes /\ ListTypes => PageTypeOK
  BY ChartTypes DEF CardTypes, ListTypes, PageTypeOK, Parts
<1>4. QED
  BY <1>1, <1>2, <1>3, FeedIsInvariant, CardTypesInvariant, ListTypesInvariant, PTL

-----------------------------------------------------------------------------
(* What the panels say *)

\* A quotient of naturals, and the least and the most that toFixed makes of one.
LEMMA Quotient ==
  ASSUME NEW a \in Nat, NEW b \in Nat \ {0}
  PROVE  a \div b \in Nat /\ b * (a \div b) <= a /\ a < b * (a \div b) + b
<1>1. a \div b \in Nat
  BY SMT
<1>2. b * (a \div b) <= a
  BY SMT
<1>3. a < b * (a \div b) + b
  BY SMT
<1>4. QED BY <1>1, <1>2, <1>3

LEMMA RoundedBetween ==
  ASSUME NEW n \in Nat, NEW d \in Nat \ {0}
  PROVE  /\ Dashboard!Rounded(n, d) \in Nat
         /\ \A k \in Nat : k * d <= n => k <= Dashboard!Rounded(n, d)
         /\ \A k \in Nat : n <= k * d => Dashboard!Rounded(n, d) <= k
<1> DEFINE a == 2 * n + d
           b == 2 * d
           q == a \div b
<1>1. a \in Nat /\ b \in Nat \ {0} /\ Dashboard!Rounded(n, d) = q
  BY DEF Dashboard!Rounded
<1> HIDE DEF a, b
<1>2. q \in Nat /\ b * q <= a /\ a < b * q + b
  BY <1>1, Quotient
<1> HIDE DEF q
<1>3. 2 * (d * q) <= 2 * n + d /\ 2 * n + d < 2 * (d * q) + 2 * d
  BY <1>2 DEF a, b
<1>4. ASSUME NEW k \in Nat, k * d <= n PROVE k <= q
  <2>1. d * k < d * (q + 1)
    <3>1. d * k = k * d /\ d * (q + 1) = d * q + d /\ d * q \in Nat /\ d * k \in Nat
      BY <1>2
    <3>2. QED BY <1>3, <1>4, <3>1
  <2>2. k < q + 1
    BY <1>2, <2>1
  <2>3. QED BY <1>2, <2>2
<1>5. ASSUME NEW k \in Nat, n <= k * d PROVE q <= k
  <2>1. d * q < d * (k + 1)
    <3>1. d * k = k * d /\ d * (k + 1) = d * k + d /\ d * q \in Nat /\ d * k \in Nat
      BY <1>2
    <3>2. QED BY <1>3, <1>5, <3>1
  <2>2. q < k + 1
    BY <1>2, <2>1
  <2>3. QED BY <1>2, <2>2
<1>6. QED BY <1>1, <1>2, <1>4, <1>5

\* Sums of numbers that are all at least, or at most, a number.
LEMMA SumBetween ==
  ASSUME NEW S, IsFiniteSet(S), NEW f \in [S -> Nat], NEW g, AreSums(g, f, SUBSET S), NEW m \in Nat
  PROVE  /\ g[S] \in Nat
         /\ (\A x \in S : m <= f[x]) => m * Cardinality(S) <= g[S]
         /\ (\A x \in S : f[x] <= m) => g[S] <= m * Cardinality(S)
<1> DEFINE Least == \A x \in S : m <= f[x]
           Most == \A x \in S : f[x] <= m
           Right(s) == /\ g[s] \in Nat
                       /\ (Least => m * Cardinality(s) <= g[s])
                       /\ (Most => g[s] <= m * Cardinality(s))
           K == {k \in Nat : \A s \in SUBSET S : Cardinality(s) = k => Right(s)}
<1>1. \A s \in SUBSET S : IsFiniteSet(s) /\ Cardinality(s) \in Nat
  BY FS_Subset, FS_CardinalityType
<1>2. 0 \in K
  <2>1. \A s \in SUBSET S : Cardinality(s) = 0 => s = {}
    BY <1>1, FS_EmptySet
  <2>2. g[{}] = 0 /\ Cardinality({}) = 0
    BY FS_EmptySet DEF AreSums
  <2>3. Right({})
    BY <2>2
  <2> HIDE DEF Right
  <2>4. QED BY <2>1, <2>3
<1>3. ASSUME NEW k \in Nat, k \in K PROVE k + 1 \in K
  <2> SUFFICES ASSUME NEW s \in SUBSET S, Cardinality(s) = k + 1 PROVE Right(s)
    OBVIOUS
  <2> DEFINE y == One(s)
             r == s \ {y}
  <2>1. s # {} /\ IsFiniteSet(s)
    BY <1>1, FS_EmptySet
  <2>2. y \in S /\ Cardinality(r) = k /\ r \in SUBSET S
    <3>1. y \in s /\ Cardinality(r) = Cardinality(s) - 1
      BY <2>1, OneLess
    <3>2. QED BY <3>1
  <2>3. Right(r)
    BY <1>3, <2>2
  <2>4. g[s] = f[y] + g[r]
    BY <2>1 DEF AreSums
  <2>5. f[y] \in Nat /\ (Least => m <= f[y]) /\ (Most => f[y] <= m)
    BY <2>2
  <2>6. m * (k + 1) = m * k + m /\ m * k \in Nat
    OBVIOUS
  <2>7. g[r] \in Nat /\ (Least => m * k <= g[r]) /\ (Most => g[r] <= m * k)
    BY <2>2, <2>3
  <2> HIDE DEF y, r, Least, Most
  <2>8. QED BY <2>4, <2>5, <2>6, <2>7
<1> HIDE DEF K
<1>4. Cardinality(S) \in K
  BY <1>1, <1>2, <1>3, Induction
<1>5. QED BY <1>4 DEF K

LEMMA CardSums ==
  ASSUME NEW values \in Seq(Nat)
  PROVE  \E g : AreSums(g, values, SUBSET DOMAIN values)
                /\ Dashboard!Sum(values) = g[DOMAIN values]
<1> DEFINE D == SUBSET DOMAIN values
           e(g) == [s \in D |-> IF s = {} THEN 0 ELSE values[One(s)] + g[s \ {One(s)}]]
           g0 == CHOOSE g : g = e(g)
<1>1. Dashboard!Sum(values) = g0[DOMAIN values]
  BY DEF Dashboard!Sum, Dashboard!FoldSeq, Dashboard!FoldFunction, Dashboard!FoldFunctionOnSet,
         Dashboard!MapThenFoldSet, One
<1>2. IsFiniteSet(DOMAIN values)
  <2>1. Len(values) \in Nat /\ DOMAIN values = 1..Len(values)
    OBVIOUS
  <2>2. QED BY <2>1, FS_Interval
<1>3. PICK g : AreSums(g, values, D)
  BY <1>2, SumsExist
<1>5. \A h : AreSums(h, values, D) <=> h = e(h)
  BY DEF AreSums
<1>6. g0 = e(g0)
  BY <1>3, <1>5, Zenon
<1>7. QED BY <1>1, <1>5, <1>6

\* The mean of a card's days, rounded, is between the least and the highest of them.
LEMMA MeanIsWithin ==
  ASSUME NEW values \in Seq(Nat), values # <<>>
  PROVE  LET sum == Dashboard!Sum(values)
             mean == IF sum > 0 THEN Dashboard!Rounded(sum, Len(values)) ELSE 0
         IN  /\ \E i \in DOMAIN values : values[i] <= mean
             /\ \E i \in DOMAIN values : mean <= values[i]
<1> DEFINE n == Len(values)
           sum == Dashboard!Sum(values)
           mean == IF sum > 0 THEN Dashboard!Rounded(sum, n) ELSE 0
<1>1. n \in Nat \ {0} /\ DOMAIN values = 1..n /\ values \in [1..n -> Nat]
  OBVIOUS
<1> HIDE DEF n
<1>2. IsFiniteSet(1..n) /\ Cardinality(1..n) = n
  BY <1>1, FS_Interval
<1>3. PICK g : AreSums(g, values, SUBSET (1..n)) /\ sum = g[1..n]
  BY <1>1, CardSums
<1> HIDE DEF sum
<1>4. \A m \in Nat : /\ sum \in Nat
                     /\ (\A i \in 1..n : m <= values[i]) => m * n <= sum
                     /\ (\A i \in 1..n : values[i] <= m) => sum <= m * n
  BY <1>1, <1>2, <1>3, SumBetween
<1>5. sum \in Nat
  BY <1>4
<1>6. /\ Dashboard!Rounded(sum, n) \in Nat
      /\ \A k \in Nat : k * n <= sum => k <= Dashboard!Rounded(sum, n)
      /\ \A k \in Nat : sum <= k * n => Dashboard!Rounded(sum, n) <= k
  BY <1>1, <1>5, RoundedBetween
<1>7. mean \in Nat /\ mean = IF sum > 0 THEN Dashboard!Rounded(sum, n) ELSE 0
  BY <1>6
<1> HIDE DEF mean
<1>8. \E i \in 1..n : values[i] <= mean
  <2> SUFFICES ASSUME \A i \in 1..n : ~(values[i] <= mean) PROVE FALSE
    OBVIOUS
  <2>1. \A i \in 1..n : mean + 1 <= values[i]
    BY <1>1, <1>7
  <2>2. (mean + 1) * n <= sum
    <3> DEFINE m == mean + 1
    <3>1. m \in Nat /\ \A i \in 1..n : m <= values[i]
      BY <1>7, <2>1
    <3> HIDE DEF m
    <3>2. m * n <= sum
      BY <1>4, <3>1
    <3>3. QED BY <3>2 DEF m
  <2>3. sum > 0
    <3>1. mean + 1 \in Nat /\ mean + 1 > 0 /\ n > 0
      BY <1>1, <1>7
    <3>2. (mean + 1) * n > 0
      BY <1>1, <3>1
    <3>3. (mean + 1) * n \in Nat
      BY <1>1, <3>1
    <3>4. QED BY <1>5, <2>2, <3>2, <3>3
  <2>4. mean = Dashboard!Rounded(sum, n)
    BY <1>7, <2>3
  <2>5. mean + 1 <= mean
    BY <1>6, <1>7, <2>2, <2>4
  <2>6. QED BY <1>7, <2>5
<1>9. \E i \in 1..n : mean <= values[i]
  <2> SUFFICES ASSUME \A i \in 1..n : ~(mean <= values[i]) PROVE FALSE
    OBVIOUS
  <2>1. mean # 0 /\ mean - 1 \in Nat
    <3>1. 1 \in 1..n /\ values[1] \in Nat /\ ~(mean <= values[1])
      BY <1>1
    <3>2. QED BY <1>7, <3>1
  <2>2. \A i \in 1..n : values[i] <= mean - 1
    BY <1>1, <1>7
  <2>3. sum <= (mean - 1) * n
    BY <1>4, <2>1, <2>2
  <2>4. mean = Dashboard!Rounded(sum, n)
    BY <1>7, <2>1
  <2>5. mean <= mean - 1
    BY <1>6, <2>1, <2>3, <2>4
  <2>6. QED BY <1>7, <2>5
<1>10. QED BY <1>1, <1>8, <1>9 DEF mean, sum, n

\* What a card is made of.
DaysOf(averages) == [i \in DOMAIN averages |-> Dashboard!Rounded(averages[i], 10)]

LEMMA DaysAreNumbers ==
  ASSUME NEW averages \in Seq(Averages)
  PROVE  DaysOf(averages) \in Seq(Nat) /\ Len(DaysOf(averages)) \in Nat
<1>1. Averages \subseteq Nat
  BY PartsAssumption DEF Dashboard!ValuesAssumption
<1>2. Len(averages) \in Nat /\ DOMAIN averages = 1..Len(averages)
  OBVIOUS
<1>3. ASSUME NEW i \in DOMAIN averages PROVE Dashboard!Rounded(averages[i], 10) \in Nat
  <2>1. averages[i] \in Nat
    <3>1. averages[i] \in Averages
      BY <1>3
    <3>2. QED BY <1>1, <3>1
  <2>2. 10 \in Nat \ {0}
    OBVIOUS
  <2>3. QED BY <2>1, <2>2, RoundedBetween
<1>4. DaysOf(averages) \in [1..Len(averages) -> Nat]
  BY <1>2, <1>3 DEF DaysOf
<1>5. QED BY <1>2, <1>4

\* The badge of a card whose days are numbers.
LEMMA BadgePoints ==
  ASSUME NEW values \in Seq(Nat), values # <<>>
  PROVE  Dashboard!Points(Dashboard!Badge(values), Head(values), Dashboard!Last(values))
<1> DEFINE badge == Dashboard!Badge(values)
           first == Head(values)
           last == Dashboard!Last(values)
           change == last - first
           trend == Dashboard!Trend(values)
           rise == Dashboard!Rounded(1000 * change, first)
           fall == Dashboard!Rounded(-1000 * change, first)
           rising == Dashboard!Percent("number", "+", rise)
           falling == Dashboard!Percent("number", "-", fall)
           level == Dashboard!Percent("number", "", 0)
           nan == Dashboard!Percent("NaN", "", 0)
           infinity == Dashboard!Percent("Infinity", "+", 0)
           raised == Dashboard!Percent("number", "+", 0)
           none == Dashboard!Percent("none", "", 0)
<1> SUFFICES Dashboard!Points(badge, first, last)
  OBVIOUS
<1>1. first \in Nat /\ last \in Nat /\ change = last - first
  BY DEF Dashboard!Last
<1>2. badge = IF trend = raised \/ trend = level THEN none ELSE trend
  BY DEF Dashboard!Badge, Dashboard!NoBadge
<1>3. trend = CASE first = 0 /\ change = 0 -> nan
                [] first = 0 /\ change > 0 -> infinity
                [] first > 0 /\ change < 0 -> falling
                [] first > 0 /\ change = 0 -> level
                [] first > 0 /\ change > 0 -> rising
  BY DEF Dashboard!Trend
<1>k. /\ nan.sign = "" /\ nan.kind = "NaN" /\ infinity.sign = "+" /\ infinity.kind = "Infinity"
      /\ falling.sign = "-" /\ rising.sign = "+" /\ rising.kind = "number" /\ falling.kind = "number"
      /\ rising.tenths = rise /\ none.sign = "" /\ none.kind = "none"
      /\ level.sign = "" /\ level.kind = "number"
      /\ raised.sign = "+" /\ raised.kind = "number" /\ raised.tenths = 0
      /\ (rise = 0 => rising = raised)
  BY DEF Dashboard!Percent
<1>r. 2 * (1000 * change) + first \in Nat /\ first > 0 /\ rise = 0 => 2000 * change < first
  <2> SUFFICES ASSUME 2 * (1000 * change) + first \in Nat, first > 0, rise = 0
               PROVE  2000 * change < first
    OBVIOUS
  <2> HIDE DEF change, first
  <2> DEFINE a == 2 * (1000 * change) + first
             b == 2 * first
  <2>1. a \div b = 0
    BY DEF Dashboard!Rounded
  <2>2. a \in Nat /\ b \in Nat \ {0}
    BY <1>1
  <2> HIDE DEF a, b
  <2>3. a < b * 0 + b
    BY <2>1, <2>2, Quotient
  <2>4. a < b
    BY <2>2, <2>3
  <2>5. first \in Nat /\ change \in Int
    BY <1>1
  <2>6. QED BY <2>4, <2>5 DEF a, b
<1> HIDE DEF badge, first, last, change, trend, rise, fall, rising, falling, level, nan, infinity, raised, none
<1>t. /\ first = 0 /\ change = 0 => trend = nan
      /\ first = 0 /\ change > 0 => trend = infinity
      /\ first > 0 /\ change < 0 => trend = falling
      /\ first > 0 /\ change = 0 => trend = level
      /\ first > 0 /\ change > 0 => trend = rising
  BY <1>1, <1>3
<1>5. CASE first = 0 /\ change = 0
  <2>1. badge = nan
    BY <1>2, <1>5, <1>t, <1>k
  <2>2. badge.sign = "" /\ badge.kind # "none"
    BY <1>k, <2>1
  <2>3. last = first
    BY <1>1, <1>5
  <2>4. QED BY <2>2, <2>3, Zenon DEF Dashboard!Points
<1>6. CASE first = 0 /\ change > 0
  <2>1. badge = infinity
    BY <1>2, <1>6, <1>t, <1>k
  <2>2. badge.sign = "+"
    BY <1>k, <2>1
  <2>3. last > first
    BY <1>1, <1>6
  <2>4. QED BY <2>2, <2>3, Zenon DEF Dashboard!Points
<1>7. CASE first > 0 /\ change < 0
  <2>1. badge = falling
    BY <1>2, <1>7, <1>t, <1>k
  <2>2. badge.sign = "-"
    BY <1>k, <2>1
  <2>3. last < first
    BY <1>1, <1>7
  <2>4. QED BY <2>2, <2>3, Zenon DEF Dashboard!Points
<1>8. CASE first > 0 /\ change = 0
  <2>1. badge = none
    BY <1>2, <1>8, <1>t
  <2>2. badge.sign = "" /\ badge.kind = "none"
    BY <1>k, <2>1
  <2>3. Dashboard!Little(first, last)
    BY <1>1, <1>8 DEF Dashboard!Little
  <2>4. QED BY <2>2, <2>3, Zenon DEF Dashboard!Points
<1>9. CASE first > 0 /\ change > 0 /\ rise = 0
  <2>1. badge = none
    BY <1>2, <1>9, <1>t, <1>k
  <2>2. badge.sign = "" /\ badge.kind = "none"
    BY <1>k, <2>1
  <2>3. 2 * (1000 * change) + first \in Nat
    BY <1>1, <1>9
  <2>4. Dashboard!Little(first, last)
    BY <1>1, <1>9, <1>r, <2>3 DEF Dashboard!Little
  <2>5. QED BY <2>2, <2>4, Zenon DEF Dashboard!Points
<1>10. CASE first > 0 /\ change > 0 /\ rise # 0
  <2>1. badge = rising
    BY <1>2, <1>10, <1>t, <1>k
  <2>2. badge.sign = "+"
    BY <1>k, <2>1
  <2>3. last > first
    BY <1>1, <1>10
  <2>4. QED BY <2>2, <2>3, Zenon DEF Dashboard!Points
<1>11. \/ first = 0 /\ change = 0
       \/ first = 0 /\ change > 0
       \/ first > 0 /\ change < 0
       \/ first > 0 /\ change = 0
       \/ first > 0 /\ change > 0
  BY <1>1
<1>12. QED BY <1>5, <1>6, <1>7, <1>8, <1>9, <1>10, <1>11

\* A ring that is told no more than its total.
LEMMA RingIsWhole ==
  ASSUME NEW u \in Nat, NEW t \in Nat, t # 0 => u <= t
  PROVE  LET ring == Dashboard!Ring(u, t)
         IN  /\ ring.percent \in 0..1000
             /\ t # 0 => ring.used + ring.slice = t /\ ring.free = ring.slice
             /\ t = 0 => ring.percent = 0
<1>1. CASE t = 0
  BY <1>1 DEF Dashboard!Ring
<1>2. CASE t # 0
  <2>1. 1000 * u \in Nat /\ t \in Nat \ {0} /\ 1000 * u <= 1000 * t
    BY <1>2
  <2>2. Dashboard!Rounded(1000 * u, t) \in 0..1000
    <3>1. Dashboard!Rounded(1000 * u, t) \in Nat
          /\ (1000 * u <= 1000 * t => Dashboard!Rounded(1000 * u, t) <= 1000)
      BY <2>1, RoundedBetween
    <3>2. QED BY <2>1, <3>1
  <2>3. QED BY <1>2, <2>2 DEF Dashboard!Ring
<1>3. QED BY <1>1, <1>2

\* What a card says of its days.
WithinItsChart(card) ==
  card.chart # <<>> =>
    /\ \E i \in DOMAIN card.chart : card.chart[i] <= card.value
    /\ \E i \in DOMAIN card.chart : card.value <= card.chart[i]
Pointed(card) ==
  card.chart # <<>> => Dashboard!Points(card.badge, Head(card.chart), Dashboard!Last(card.chart))

CardIsRight(c, card) ==
  /\ WithinItsChart(card) /\ Pointed(card)
  /\ c # "disk" => (card.subtitle = "no data collected" <=> card.chart = <<>>)

LEMMA CardAgrees ==
  ASSUME NEW c, NEW averages \in Seq(Averages)
  PROVE  CardIsRight(c, Dashboard!Card(c, averages))
<1> SUFFICES ASSUME NEW card, card = Dashboard!Card(c, averages) PROVE CardIsRight(c, card)
  OBVIOUS
<1> DEFINE values == DaysOf(averages)
           sum == Dashboard!Sum(values)
<1>1. /\ card.value = IF sum > 0 THEN Dashboard!Rounded(sum, Len(values)) ELSE 0
      /\ card.badge = Dashboard!Badge(values) /\ card.chart = values
      /\ c # "disk" => card.subtitle = IF Len(values) > 0 THEN "last month" ELSE "no data collected"
  BY DEF Dashboard!Card, Dashboard!Monthly, Dashboard!StatCard, DaysOf
<1>2. values \in Seq(Nat) /\ Len(values) \in Nat
  BY DaysAreNumbers
<1> HIDE DEF values
<1>3. WithinItsChart(card)
  BY <1>1, <1>2, MeanIsWithin DEF WithinItsChart
<1>4. Pointed(card)
  BY <1>1, <1>2, BadgePoints DEF Pointed
<1>5. c # "disk" => (card.subtitle = "no data collected" <=> card.chart = <<>>)
  <2>1. Len(values) > 0 <=> values # <<>>
    BY <1>2
  <2>2. QED BY <1>1, <2>1
<1>6. QED BY <1>3, <1>4, <1>5 DEF CardIsRight

LEMMA DashboardAgrees ==
  CardTypes => /\ Dashboard!ValueWithinChart /\ Dashboard!SubtitleAgrees
               /\ Dashboard!BadgeAgrees /\ Dashboard!RingsAddUp
<1> SUFFICES ASSUME CardTypes, Dashboard!Shown
             PROVE  /\ Dashboard!ValueWithinChart /\ Dashboard!SubtitleAgrees
                    /\ Dashboard!BadgeAgrees /\ Dashboard!RingsAddUp
  BY DEF Dashboard!ValueWithinChart, Dashboard!SubtitleAgrees, Dashboard!BadgeAgrees, Dashboard!RingsAddUp
<1>1. /\ Dashboard!Page.cards = [c \in Cards |-> Dashboard!Card(c, data[c])]
      /\ Dashboard!Page.rings = [memory |-> Dashboard!Ring(used["memory"], total["memory"]),
                                 disk |-> Dashboard!Ring(used["disk"], total["disk"])]
  BY DEF Dashboard!Shown, Dashboard!Page, Dashboard!MemoryUsagePieChart, Dashboard!DiskUsagePieChart
<1>2. ASSUME NEW c \in Cards
      PROVE  /\ data[c] \in Seq(Averages) /\ Dashboard!Page.cards[c] = Dashboard!Card(c, data[c])
  BY <1>1 DEF CardTypes, Dashboard!TypeOK
<1>c. ASSUME NEW c \in Cards
      PROVE  CardIsRight(c, Dashboard!Page.cards[c])
  BY <1>2, CardAgrees
<1>3. Dashboard!ValueWithinChart
  <2>1. \A c \in Cards : WithinItsChart(Dashboard!Page.cards[c])
    BY <1>c DEF CardIsRight
  <2>2. QED BY <2>1 DEF Dashboard!ValueWithinChart, WithinItsChart
<1>4. Dashboard!SubtitleAgrees
  BY <1>c DEF CardIsRight, Dashboard!SubtitleAgrees
<1>5. Dashboard!BadgeAgrees
  <2>1. ASSUME NEW c \in Cards
        PROVE  Pointed(Dashboard!Page.cards[c])
    BY <1>c, <2>1 DEF CardIsRight
  <2>2. QED BY <2>1 DEF Dashboard!BadgeAgrees, Pointed
<1>6. Dashboard!RingsAddUp
  <2>1. ASSUME NEW r \in Dashboard!Rings
        PROVE  /\ used[r] \in Nat /\ total[r] \in Nat /\ (total[r] # 0 => used[r] <= total[r])
               /\ Dashboard!Page.rings[r] = Dashboard!Ring(used[r], total[r])
    <3>1. Totals[r] \in Nat \ {0}
      BY PartsAssumption DEF Dashboard!ValuesAssumption
    <3>2. used[r] \in 0..Totals[r] /\ total[r] \in {0, Totals[r]}
      BY DEF CardTypes, Dashboard!TypeOK
    <3>3. Dashboard!Page.rings[r] = Dashboard!Ring(used[r], total[r])
      BY <1>1 DEF Dashboard!Rings
    <3>4. QED BY <3>1, <3>2, <3>3
  <2>2. ASSUME NEW r \in Dashboard!Rings
        PROVE  LET ring == Dashboard!Page.rings[r]
               IN  /\ ring.percent \in 0..1000
                   /\ total[r] # 0 => ring.used + ring.slice = total[r] /\ ring.free = ring.slice
                   /\ total[r] = 0 => ring.percent = 0
    <3> DEFINE u == used[r]
               t == total[r]
    <3>1. u \in Nat /\ t \in Nat /\ (t # 0 => u <= t) /\ Dashboard!Page.rings[r] = Dashboard!Ring(u, t)
      BY <2>1
    <3> HIDE DEF u, t
    <3>2. LET ring == Dashboard!Ring(u, t)
          IN  /\ ring.percent \in 0..1000
              /\ t # 0 => ring.used + ring.slice = t /\ ring.free = ring.slice
              /\ t = 0 => ring.percent = 0
      BY <3>1, RingIsWhole
    <3>3. QED BY <3>1, <3>2 DEF t
  <2>3. QED BY <2>2 DEF Dashboard!RingsAddUp
<1>7. QED BY <1>3, <1>4, <1>5, <1>6

\* The filter of a list, by the number of entries looked at.
Keeps(g, entries, chosen, n) ==
  g = [k \in 0..n |-> IF k = 0 THEN <<>>
                      ELSE IF entries[k] \in chosen THEN Append(g[k - 1], entries[k]) ELSE g[k - 1]]

LEMMA KeepsExist ==
  ASSUME NEW entries, NEW chosen, NEW n \in Nat
  PROVE  \E g : Keeps(g, entries, chosen, n)
<1> DEFINE K == {k \in Nat : \E g : Keeps(g, entries, chosen, k)}
<1>1. 0 \in K
  <2>1. Keeps([k \in 0..0 |-> <<>>], entries, chosen, 0)
    BY DEF Keeps
  <2>2. QED BY <2>1
<1>2. ASSUME NEW k \in Nat, k \in K PROVE k + 1 \in K
  <2>1. PICK g : Keeps(g, entries, chosen, k)
    BY <1>2
  <2> DEFINE last == IF entries[k + 1] \in chosen THEN Append(g[k], entries[k + 1]) ELSE g[k]
             h == [j \in 0..(k + 1) |-> IF j = k + 1 THEN last ELSE g[j]]
  <2>2. \A j \in 0..k : g[j] = IF j = 0 THEN <<>>
                               ELSE IF entries[j] \in chosen THEN Append(g[j - 1], entries[j]) ELSE g[j - 1]
    BY <2>1 DEF Keeps
  <2>3. h[k + 1] = last /\ \A j \in 0..k : h[j] = g[j]
    OBVIOUS
  <2> HIDE DEF last
  <2>4. h = [j \in 0..(k + 1) |-> h[j]]
    OBVIOUS
  <2> HIDE DEF h
  <2>5. \A j \in 0..(k + 1) : h[j] = IF j = 0 THEN <<>>
                                     ELSE IF entries[j] \in chosen THEN Append(h[j - 1], entries[j]) ELSE h[j - 1]
    <3> SUFFICES ASSUME NEW j \in 0..(k + 1)
                 PROVE  h[j] = IF j = 0 THEN <<>>
                               ELSE IF entries[j] \in chosen THEN Append(h[j - 1], entries[j]) ELSE h[j - 1]
      OBVIOUS
    <3>1. CASE j = k + 1
      <4>1. j # 0 /\ j - 1 = k /\ h[j - 1] = g[k]
        BY <3>1, <2>3
      <4>2. QED BY <3>1, <4>1, <2>3 DEF last
    <3>2. CASE j = 0
      BY <3>2, <2>2, <2>3
    <3>3. CASE j # 0 /\ j # k + 1
      <4>1. j \in 0..k /\ j - 1 \in 0..k /\ h[j] = g[j] /\ h[j - 1] = g[j - 1]
        BY <3>3, <2>3
      <4>2. QED BY <3>3, <4>1, <2>2
    <3>4. QED BY <3>1, <3>2, <3>3
  <2>6. Keeps(h, entries, chosen, k + 1)
    BY <2>4, <2>5 DEF Keeps
  <2>7. QED BY <2>6
<1> HIDE DEF K
<1>3. n \in K
  BY <1>1, <1>2, Induction
<1>4. QED BY <1>3 DEF K

LEMMA OnlyUnfolds ==
  ASSUME NEW T, NEW entries \in Seq(T), NEW chosen
  PROVE  \E g : Keeps(g, entries, chosen, Len(entries)) /\ Lists!Only(entries, chosen) = g[Len(entries)]
<1> DEFINE n == Len(entries)
           e(g) == [k \in 0..n |-> IF k = 0 THEN <<>>
                      ELSE IF entries[k] \in chosen THEN Append(g[k - 1], entries[k]) ELSE g[k - 1]]
           g0 == CHOOSE g : g = e(g)
<1>1. Lists!Only(entries, chosen) = g0[n]
  BY DEF Lists!Only
<1>2. PICK g : Keeps(g, entries, chosen, n)
  <2>1. n \in Nat
    OBVIOUS
  <2>2. QED BY <2>1, KeepsExist
<1>3. \A h : Keeps(h, entries, chosen, n) <=> h = e(h)
  BY DEF Keeps
<1>4. g0 = e(g0)
  BY <1>2, <1>3, Zenon
<1>5. QED BY <1>1, <1>3, <1>4

\* What is kept of the first entries, one more at a time.
Steps(g, entries, chosen, k) ==
  /\ (entries[k + 1] \in chosen => g[k + 1] = Append(g[k], entries[k + 1]))
  /\ (entries[k + 1] \notin chosen => g[k + 1] = g[k])
LEMMA KeepsStep ==
  ASSUME NEW entries, NEW chosen, NEW n \in Nat, NEW g, Keeps(g, entries, chosen, n), NEW k \in Nat, k < n
  PROVE  Steps(g, entries, chosen, k)
<1>1. k + 1 \in 0..n /\ k + 1 # 0 /\ (k + 1) - 1 = k
  OBVIOUS
<1>2. QED BY <1>1 DEF Keeps, Steps
LEMMA KeepsBegins ==
  ASSUME NEW entries, NEW chosen, NEW n \in Nat, NEW g, Keeps(g, entries, chosen, n)
  PROVE  g[0] = <<>>
  BY DEF Keeps

\* What a filter keeps is of the list, each entry from a later place than the one before.
From(kept, entries, k) ==
  /\ \A i \in DOMAIN kept : \E a \in 1..k : kept[i] = entries[a]
  /\ \A i, j \in DOMAIN kept : i < j => \E a, b \in 1..k : a < b /\ kept[i] = entries[a] /\ kept[j] = entries[b]

LEMMA KeepsFrom ==
  ASSUME NEW T, NEW entries \in Seq(T), NEW chosen
  PROVE  Lists!Only(entries, chosen) \in Seq(T) /\ From(Lists!Only(entries, chosen), entries, Len(entries))
<1> DEFINE n == Len(entries)
<1>n. n \in Nat /\ \A k \in 1..n : entries[k] \in T
  OBVIOUS
<1>1. PICK g : Keeps(g, entries, chosen, n) /\ Lists!Only(entries, chosen) = g[n]
  BY OnlyUnfolds
<1> HIDE DEF n
<1> DEFINE K == {k \in Nat : k <= n => g[k] \in Seq(T) /\ From(g[k], entries, k)}
<1>k. g[0] = <<>> /\ \A k \in Nat : k < n => Steps(g, entries, chosen, k)
  <2>1. g[0] = <<>>
    BY <1>1, <1>n, KeepsBegins
  <2>2. ASSUME NEW k \in Nat, k < n PROVE Steps(g, entries, chosen, k)
    BY <1>1, <1>n, <2>2, KeepsStep
  <2>3. QED BY <2>1, <2>2
<1>2. 0 \in K
  <2>1. <<>> \in Seq(T) /\ From(<<>>, entries, 0)
    BY DEF From
  <2>2. QED BY <1>k, <2>1
<1>3. ASSUME NEW k \in Nat, k \in K PROVE k + 1 \in K
  <2> SUFFICES ASSUME k + 1 <= n PROVE g[k + 1] \in Seq(T) /\ From(g[k + 1], entries, k + 1)
    OBVIOUS
  <2>1. k < n /\ k <= n /\ k + 1 \in 1..n /\ \A a \in 1..k : a \in 1..(k + 1) /\ a < k + 1
    BY <1>n
  <2>2. g[k] \in Seq(T) /\ From(g[k], entries, k)
    BY <1>3, <2>1
  <2>3. CASE entries[k + 1] \in chosen
    <3>1. g[k + 1] = Append(g[k], entries[k + 1]) /\ entries[k + 1] \in T
      BY <1>k, <1>n, <2>1, <2>3 DEF Steps
    <3> DEFINE q == g[k]
               r == g[k + 1]
               e == entries[k + 1]
    <3>2. /\ Len(q) \in Nat /\ DOMAIN q = 1..Len(q) /\ DOMAIN r = 1..(Len(q) + 1)
          /\ r[Len(q) + 1] = e /\ \A i \in 1..Len(q) : r[i] = q[i]
      BY <2>2, <3>1, AppendedIsLast
    <3>3. r \in Seq(T)
      BY <2>2, <3>1
    <3> HIDE DEF q, r, e
    <3>4. ASSUME NEW i \in DOMAIN r PROVE \E a \in 1..(k + 1) : r[i] = entries[a]
      <4>1. CASE i = Len(q) + 1
        BY <4>1, <2>1, <3>2 DEF e
      <4>2. CASE i \in DOMAIN q
        <5>1. PICK a \in 1..k : q[i] = entries[a]
          BY <4>2, <2>2 DEF From, q
        <5>2. QED BY <5>1, <4>2, <2>1, <3>2
      <4>3. QED BY <4>1, <4>2, <3>2, <3>4
    <3>5. ASSUME NEW i \in DOMAIN r, NEW j \in DOMAIN r, i < j
          PROVE  \E a, b \in 1..(k + 1) : a < b /\ r[i] = entries[a] /\ r[j] = entries[b]
      <4>0. i \in DOMAIN q
        BY <3>2, <3>5
      <4>1. CASE j = Len(q) + 1
        <5>1. PICK a \in 1..k : q[i] = entries[a]
          BY <4>0, <2>2 DEF From, q
        <5>2. a < k + 1 /\ r[i] = entries[a] /\ r[j] = entries[k + 1]
          BY <5>1, <4>0, <4>1, <2>1, <3>2 DEF e
        <5>3. QED BY <5>2, <2>1
      <4>2. CASE j \in DOMAIN q
        <5>1. PICK a, b \in 1..k : a < b /\ q[i] = entries[a] /\ q[j] = entries[b]
          BY <4>0, <4>2, <3>5, <2>2 DEF From, q
        <5>2. QED BY <5>1, <4>0, <4>2, <2>1, <3>2
      <4>3. QED BY <4>1, <4>2, <3>2, <3>5
    <3>6. QED BY <3>3, <3>4, <3>5 DEF From, r
  <2>4. CASE entries[k + 1] \notin chosen
    <3>1. g[k + 1] = g[k]
      BY <1>k, <1>n, <2>1, <2>4 DEF Steps
    <3>2. From(g[k], entries, k + 1)
      BY <2>1, <2>2 DEF From
    <3>3. QED BY <2>2, <3>1, <3>2
  <2>5. QED BY <2>3, <2>4
<1> HIDE DEF K
<1>4. n \in K
  BY <1>n, <1>2, <1>3, Induction
<1>5. g[n] \in Seq(T) /\ From(g[n], entries, n)
  BY <1>n, <1>4 DEF K
<1>6. QED BY <1>1, <1>5 DEF n

LEMMA OneMore == \A m, n \in Nat : (m + 1) + n = (m + n) + 1 /\ m + (n + 1) = (m + n) + 1
  OBVIOUS

\* What two filters keep that part a list is as much as the list has.
LEMMA KeepsParts ==
  ASSUME NEW T, NEW entries \in Seq(T), NEW some, NEW others,
         \A e \in T : e \in some <=> e \notin others
  PROVE  Len(Lists!Only(entries, some)) + Len(Lists!Only(entries, others)) = Len(entries)
<1> DEFINE n == Len(entries)
<1>n. n \in Nat /\ \A k \in 1..n : entries[k] \in T
  OBVIOUS
<1>1. PICK g : Keeps(g, entries, some, n) /\ Lists!Only(entries, some) = g[n]
  BY OnlyUnfolds
<1>2. PICK h : Keeps(h, entries, others, n) /\ Lists!Only(entries, others) = h[n]
  BY OnlyUnfolds
<1> HIDE DEF n
<1>g. g[0] = <<>> /\ \A k \in Nat : k < n => Steps(g, entries, some, k)
  <2>1. g[0] = <<>>
    BY <1>1, <1>n, KeepsBegins
  <2>2. ASSUME NEW k \in Nat, k < n PROVE Steps(g, entries, some, k)
    BY <1>1, <1>n, <2>2, KeepsStep
  <2>3. QED BY <2>1, <2>2
<1>h. h[0] = <<>> /\ \A k \in Nat : k < n => Steps(h, entries, others, k)
  <2>1. h[0] = <<>>
    BY <1>2, <1>n, KeepsBegins
  <2>2. ASSUME NEW k \in Nat, k < n PROVE Steps(h, entries, others, k)
    BY <1>2, <1>n, <2>2, KeepsStep
  <2>3. QED BY <2>1, <2>2
<1> DEFINE Right(k) == g[k] \in Seq(T) /\ h[k] \in Seq(T) /\ Len(g[k]) + Len(h[k]) = k
           K == {k \in Nat : k <= n => Right(k)}
<1>3. Right(0)
  <2>1. <<>> \in Seq(T) /\ Len(<<>>) = 0
    OBVIOUS
  <2>2. QED BY <1>g, <1>h, <2>1
<1>4. ASSUME NEW k \in Nat, k < n, Right(k) PROVE Right(k + 1)
  <2>1. entries[k + 1] \in T
    BY <1>n, <1>4
  <2>2. Len(g[k]) \in Nat /\ Len(h[k]) \in Nat
    BY <1>4
  <2>s. Len(g[k]) + Len(h[k]) = k
    BY <1>4
  <2>3. CASE entries[k + 1] \in some
    <3>1. g[k + 1] = Append(g[k], entries[k + 1]) /\ h[k + 1] = h[k]
      BY <1>g, <1>h, <1>4, <2>1, <2>3 DEF Steps
    <3>2. g[k + 1] \in Seq(T) /\ Len(g[k + 1]) = Len(g[k]) + 1
      BY <1>4, <2>1, <3>1
    <3>3. Len(h[k + 1]) = Len(h[k]) /\ h[k + 1] \in Seq(T)
      BY <1>4, <3>1
    <3>4. Len(g[k + 1]) + Len(h[k + 1]) = k + 1
      <4>1. Len(g[k + 1]) + Len(h[k + 1]) = (Len(g[k]) + 1) + Len(h[k])
        BY <3>2, <3>3
      <4>2. (Len(g[k]) + 1) + Len(h[k]) = (Len(g[k]) + Len(h[k])) + 1
        BY <2>2, OneMore
      <4>3. QED BY <2>s, <4>1, <4>2
    <3>5. QED BY <3>2, <3>3, <3>4
  <2>4. CASE entries[k + 1] \notin some
    <3>1. h[k + 1] = Append(h[k], entries[k + 1]) /\ g[k + 1] = g[k]
      BY <1>g, <1>h, <1>4, <2>1, <2>4 DEF Steps
    <3>2. h[k + 1] \in Seq(T) /\ Len(h[k + 1]) = Len(h[k]) + 1
      BY <1>4, <2>1, <3>1
    <3>3. Len(g[k + 1]) = Len(g[k]) /\ g[k + 1] \in Seq(T)
      BY <1>4, <3>1
    <3>4. Len(g[k + 1]) + Len(h[k + 1]) = k + 1
      <4>1. Len(g[k + 1]) + Len(h[k + 1]) = Len(g[k]) + (Len(h[k]) + 1)
        BY <3>2, <3>3
      <4>2. Len(g[k]) + (Len(h[k]) + 1) = (Len(g[k]) + Len(h[k])) + 1
        BY <2>2, OneMore
      <4>3. QED BY <2>s, <4>1, <4>2
    <3>5. QED BY <3>2, <3>3, <3>4
  <2>5. QED BY <2>3, <2>4
<1> HIDE DEF Right
<1>5. n \in K
  <2>1. 0 \in K
    BY <1>3
  <2>2. ASSUME NEW k \in Nat, k \in K PROVE k + 1 \in K
    BY <1>n, <1>4, <2>2
  <2> HIDE DEF K
  <2>3. QED BY <1>n, <2>1, <2>2, Induction
<1>6. Right(n)
  BY <1>n, <1>5
<1>7. QED BY <1>1, <1>2, <1>6 DEF n, Right

\* The cards of a tab are of its kind, each once, and so was what the walks found.
ListsInv ==
  /\ ListTypes
  /\ walk.at \in {"types", "admin"} => \A i \in walk.rows : TypeOf[i] \in Lists!Types(walk.tab)
  /\ \A t \in Lists!Tabs : \A k \in DOMAIN list[t] :
       /\ TypeOf[list[t][k].index] \in Lists!Types(t)
       /\ \A j \in DOMAIN list[t] : list[t][j].index = list[t][k].index => j = k

LEMMA RowsKept ==
  ASSUME ListsInv, UNCHANGED list, ListTypes',
         walk'.at \in {"types", "admin"} =>
           walk'.tab = walk.tab /\ walk'.rows \subseteq walk.rows /\ walk.at \in {"types", "admin"}
  PROVE  ListsInv'
  BY DEF ListsInv

LEMMA ListsInvariant == PageSpec => []ListsInv
<1>1. Lists!Init => (ListTypes => ListsInv)
  <2> SUFFICES ASSUME Lists!Init, ListTypes PROVE ListsInv
    OBVIOUS
  <2>1. walk.at = "idle" /\ \A t \in Lists!Tabs : list[t] = <<>>
    BY DEF Lists!Init, Lists!Idle
  <2>2. QED BY <2>1 DEF ListsInv
<1>2. ListTypes' /\ ListsInv /\ [Lists!Next]_Lists!vars => ListsInv'
  <2> SUFFICES ASSUME ListTypes', ListsInv, [Lists!Next]_Lists!vars PROVE ListsInv'
    OBVIOUS
  <2>t. ListTypes /\ Lists!TypeOK
    BY DEF ListsInv, ListTypes
  <2>1. ASSUME NEW i \in Interfaces, NEW s \in Statuses \cup {Lists!Gone}, Lists!Change(i, s)
        PROVE  ListsInv'
    <3>1. /\ UNCHANGED list /\ walk'.at = walk.at
          /\ walk.at # "idle" => walk'.tab = walk.tab /\ walk'.rows = walk.rows
      BY <2>1 DEF Lists!Change
    <3>2. QED BY <3>1, RowsKept
  <2>2. ASSUME NEW t \in Lists!Tabs, Lists!WalkNames(t) PROVE ListsInv'
    <3>1. UNCHANGED list /\ walk'.at = "names"
      BY <2>2 DEF Lists!WalkNames
    <3>2. QED BY <3>1, RowsKept
  <2>3. CASE Lists!WalkTypes
    <3>1. /\ walk'.at = "types" /\ walk'.tab = walk.tab /\ UNCHANGED list
          /\ \A i \in walk'.rows : TypeOf[i] \in Lists!Types(walk.tab)
      BY <2>3 DEF Lists!WalkTypes
    <3>2. QED BY <3>1 DEF ListsInv
  <2>4. CASE Lists!WalkAdmin
    <3>1. /\ walk'.at = "admin" /\ walk'.tab = walk.tab /\ walk'.rows = walk.rows
          /\ walk.at = "types" /\ UNCHANGED list
      BY <2>4 DEF Lists!WalkAdmin
    <3>2. QED BY <3>1, RowsKept
  <2>5. CASE Lists!WalkFails
    BY <2>5, RowsKept DEF Lists!WalkFails, Lists!Idle
  <2>6. ASSUME walk.at = "admin", NEW order \in Lists!SetToSeqs(walk.rows), Lists!Collected(order)
        PROVE  ListsInv'
    <3>1. list' = [list EXCEPT ![walk.tab] = Lists!Listed(order)] /\ walk' = Lists!Idle
      BY <2>6 DEF Lists!Collected
    <3>2. walk.tab \in Lists!Tabs /\ walk.rows \subseteq Interfaces
          /\ \A i \in walk.rows : TypeOf[i] \in Lists!Types(walk.tab)
      BY <2>6, <2>t DEF ListTypes, ListsInv
    <3>3. order \in Seq(walk.rows) /\ \A j, k \in DOMAIN order : order[j] = order[k] => j = k
      BY <3>2, <2>6, OrdersAreLists DEF Lists!SetToSeqs
    <3>4. DOMAIN Lists!Listed(order) = DOMAIN order
          /\ \A k \in DOMAIN order : Lists!Listed(order)[k].index = order[k] /\ order[k] \in walk.rows
      BY <3>3 DEF Lists!Listed
    <3>5. list'[walk.tab] = Lists!Listed(order) /\ \A t \in Lists!Tabs : t # walk.tab => list'[t] = list[t]
      BY <2>t, <3>1, <3>2 DEF Lists!TypeOK
    <3>6. ASSUME NEW t \in Lists!Tabs, NEW k \in DOMAIN list'[t]
          PROVE  /\ TypeOf[list'[t][k].index] \in Lists!Types(t)
                 /\ \A j \in DOMAIN list'[t] : list'[t][j].index = list'[t][k].index => j = k
      <4>1. CASE t = walk.tab
        <5>1. list'[t] = Lists!Listed(order) /\ k \in DOMAIN order
          BY <3>4, <3>5, <3>6, <4>1
        <5>2. QED BY <3>2, <3>3, <3>4, <4>1, <5>1
      <4>2. CASE t # walk.tab
        <5>1. list'[t] = list[t]
          BY <3>5, <4>2
        <5>2. QED BY <3>6, <5>1 DEF ListsInv
      <4>3. QED BY <4>1, <4>2
    <3>7. walk'.at = "idle"
      BY <3>1 DEF Lists!Idle
    <3>8. QED BY <3>6, <3>7 DEF ListsInv
  <2>7. CASE UNCHANGED <<walk, list>>
    BY <2>7, RowsKept
  <2>8. ASSUME NEW term \in Terms \cup {Lists!Empty}, Lists!Search(term) PROVE ListsInv'
    BY <2>8, <2>7 DEF Lists!Search
  <2>9. ASSUME NEW f \in {"all", "up", "down"}, Lists!SetStatusFilter(f) PROVE ListsInv'
    BY <2>9, <2>7 DEF Lists!SetStatusFilter
  <2>10. ASSUME NEW i \in Interfaces, Lists!ToggleExpand(i) PROVE ListsInv'
    BY <2>10, <2>7 DEF Lists!ToggleExpand
  <2>11. CASE Lists!ChangeTab
    BY <2>11, <2>7 DEF Lists!ChangeTab
  <2>12. CASE UNCHANGED Lists!vars
    BY <2>12, <2>7 DEF Lists!vars
  <2>13. QED
    BY <2>1, <2>2, <2>3, <2>4, <2>5, <2>6, <2>8, <2>9, <2>10, <2>11, <2>12 DEF Lists!Next
<1>3. QED BY <1>1, <1>2, ListsBehave, ListTypesInvariant, PTL DEF Lists!Spec

\* With nothing searched a filter shows what its chip counts.
LEMMA ChipsCount ==
  ASSUME NEW entries \in Seq(Lists!Entries)
  PROVE  /\ Lists!Stats(entries).up + Lists!Stats(entries).down = Len(entries)
         /\ \A f \in {"all", "up", "down"} :
              /\ Len(Lists!FilteredInterfaces(entries, Lists!Empty, f)) = Lists!Stats(entries)[f]
              /\ Len(Lists!FilteredVlans(entries, Lists!Empty, f)) = Lists!Stats(entries)[f]
<1> DEFINE Up == {e \in Lists!Entries : e.oper = 1}
           Down == {e \in Lists!Entries : e.oper # 1}
<1>1. Lists!Stats(entries) = [up |-> Len(Lists!Only(entries, Up)), down |-> Len(Lists!Only(entries, Down)),
                              all |-> Len(entries)]
  BY DEF Lists!Stats
<1>2. Len(Lists!Only(entries, Up)) + Len(Lists!Only(entries, Down)) = Len(entries)
  BY KeepsParts
<1>3. Len(Lists!Only(entries, Lists!Entries)) = Len(entries)
  <2>1. Len(Lists!Only(entries, Lists!Entries)) + Len(Lists!Only(entries, {})) = Len(entries)
    BY KeepsParts
  <2>2. Lists!Only(entries, {}) = <<>>
    <3>1. PICK g : Keeps(g, entries, {}, Len(entries)) /\ Lists!Only(entries, {}) = g[Len(entries)]
      BY OnlyUnfolds
    <3> DEFINE n == Len(entries)
               K == {k \in Nat : k <= n => g[k] = <<>>}
    <3>n. n \in Nat
      OBVIOUS
    <3> HIDE DEF n
    <3>2. 0 \in K
      BY <3>1, <3>n, KeepsBegins DEF n
    <3>3. ASSUME NEW k \in Nat, k \in K PROVE k + 1 \in K
      <4> SUFFICES ASSUME k + 1 <= n PROVE g[k + 1] = <<>>
        OBVIOUS
      <4>1. k < n /\ k <= n
        BY <3>n
      <4>2. Steps(g, entries, {}, k)
        BY <3>1, <3>n, <4>1, KeepsStep DEF n
      <4>3. QED BY <3>3, <4>1, <4>2 DEF Steps
    <3> HIDE DEF K
    <3>4. n \in K
      BY <3>n, <3>2, <3>3, Induction
    <3>5. g[n] = <<>>
      BY <3>n, <3>4 DEF K
    <3>6. QED BY <3>1, <3>5 DEF n
  <2>3. Lists!Only(entries, Lists!Entries) \in Seq(Lists!Entries)
    BY KeepsFrom
  <2>4. Len(Lists!Only(entries, Lists!Entries)) \in Nat /\ Len(Lists!Only(entries, {})) = 0
    BY <2>2, <2>3
  <2>5. QED BY <2>1, <2>4
<1>4. \A e : Lists!InterfaceMatches(Lists!Empty, e) /\ Lists!VlanMatches(Lists!Empty, e)
  BY DEF Lists!InterfaceMatches, Lists!VlanMatches
<1>5. /\ {e \in Lists!Entries : Lists!Passes("all", e)} = Lists!Entries
      /\ {e \in Lists!Entries : Lists!Passes("up", e)} = Up
      /\ {e \in Lists!Entries : Lists!Passes("down", e)} = Down
  BY DEF Lists!Passes
<1>6. ASSUME NEW f
      PROVE  /\ Lists!FilteredInterfaces(entries, Lists!Empty, f)
                  = Lists!Only(entries, {e \in Lists!Entries : Lists!Passes(f, e)})
             /\ Lists!FilteredVlans(entries, Lists!Empty, f)
                  = Lists!Only(entries, {e \in Lists!Entries : Lists!Passes(f, e)})
  <2>1. /\ {e \in Lists!Entries : Lists!InterfaceMatches(Lists!Empty, e) /\ Lists!Passes(f, e)}
             = {e \in Lists!Entries : Lists!Passes(f, e)}
        /\ {e \in Lists!Entries : Lists!VlanMatches(Lists!Empty, e) /\ Lists!Passes(f, e)}
             = {e \in Lists!Entries : Lists!Passes(f, e)}
    BY <1>4
  <2>2. QED BY <2>1 DEF Lists!FilteredInterfaces, Lists!FilteredVlans
<1> HIDE DEF Up, Down
<1>7. QED BY <1>1, <1>2, <1>3, <1>5, <1>6

\* What a tab shows of its list.
LEMMA TabOfList ==
  ASSUME ListsInv, Lists!Tab.view = "list"
  PROVE  /\ tab \in Lists!Tabs /\ list[tab] \in Seq(Lists!Entries)
         /\ Lists!Tab = Lists!Dashboard(list[tab], Lists!Filtered(tab, search, filter))
<1>1. tab \in Lists!Tabs /\ list[tab] \in Seq(Lists!Entries)
  BY DEF ListsInv, ListTypes, Lists!TypeOK
<1>2. CASE tab = "interfaces"
  <2>1. Lists!Tab = Lists!InterfacesTab
    BY <1>2 DEF Lists!Tab
  <2>2. Lists!InterfacesTab # Lists!Waiting
    BY <2>1 DEF Lists!Waiting
  <2>3. Lists!InterfacesTab = Lists!Dashboard(list[tab], Lists!Filtered(tab, search, filter))
    BY <1>2, <2>2 DEF Lists!InterfacesTab, Lists!Filtered
  <2>4. QED BY <1>1, <2>1, <2>3
<1>3. CASE tab = "vlans"
  <2>1. Lists!Tab = Lists!VlansTab
    BY <1>3 DEF Lists!Tab
  <2>2. Lists!VlansTab # Lists!Waiting
    BY <2>1 DEF Lists!Waiting
  <2>3. Lists!VlansTab = Lists!Dashboard(list[tab], Lists!Filtered(tab, search, filter))
    BY <1>3, <2>2 DEF Lists!VlansTab, Lists!Filtered
  <2>4. QED BY <1>1, <2>1, <2>3
<1>4. QED BY <1>1, <1>2, <1>3 DEF Lists!Tabs

LEMMA ChipsAreRight == ListsInv => Lists!ChipsAgree
<1> SUFFICES ASSUME ListsInv, Lists!Tab.view = "list"
             PROVE  /\ Lists!Tab.chips.up + Lists!Tab.chips.down = Lists!Tab.of
                    /\ \A f \in {"all", "up", "down"} :
                         Len(Lists!Filtered(tab, Lists!Empty, f)) = Lists!Tab.chips[f]
  BY DEF Lists!ChipsAgree
<1>1. /\ tab \in Lists!Tabs /\ list[tab] \in Seq(Lists!Entries)
      /\ Lists!Tab = Lists!Dashboard(list[tab], Lists!Filtered(tab, search, filter))
  BY TabOfList
<1>2. Lists!Tab.chips = Lists!Stats(list[tab]) /\ Lists!Tab.of = Len(list[tab])
  BY <1>1 DEF Lists!Dashboard
<1>3. QED BY <1>1, <1>2, ChipsCount DEF Lists!Filtered

LEMMA CardsAreRight == ListsInv => Lists!CardsAreOfTheTab
<1> SUFFICES ASSUME ListsInv, Lists!Tab.view = "list",
                    NEW k \in DOMAIN Lists!Tab.cards
             PROVE  /\ TypeOf[Lists!Tab.cards[k].index] \in Lists!Types(tab)
                    /\ \A j \in DOMAIN Lists!Tab.cards :
                         Lists!Tab.cards[j].index = Lists!Tab.cards[k].index => j = k
  BY DEF Lists!CardsAreOfTheTab
<1> DEFINE entries == list[tab]
           kept == Lists!Filtered(tab, search, filter)
<1>1. /\ tab \in Lists!Tabs /\ entries \in Seq(Lists!Entries)
      /\ Lists!Tab = Lists!Dashboard(entries, kept)
  BY TabOfList
<1>2. kept \in Seq(Lists!Entries) /\ From(kept, entries, Len(entries))
  BY <1>1, KeepsFrom DEF Lists!Filtered, Lists!FilteredInterfaces, Lists!FilteredVlans
<1>3. Lists!Tab.cards = Lists!CardsOf(kept)
  BY <1>1 DEF Lists!Dashboard
<1>4. /\ DOMAIN Lists!Tab.cards = DOMAIN kept
      /\ \A j \in DOMAIN kept : Lists!Tab.cards[j].index = kept[j].index
  BY <1>3 DEF Lists!CardsOf, Lists!Card
<1>5. /\ DOMAIN entries = 1..Len(entries)
      /\ \A a \in DOMAIN entries :
           /\ TypeOf[entries[a].index] \in Lists!Types(tab)
           /\ \A b \in DOMAIN entries : entries[b].index = entries[a].index => b = a
  BY <1>1 DEF ListsInv
<1>d. \A i, j \in DOMAIN kept : i \in Int /\ j \in Int
  BY <1>2
<1> HIDE DEF entries, kept
<1>6. TypeOf[Lists!Tab.cards[k].index] \in Lists!Types(tab)
  <2>1. PICK a \in 1..Len(entries) : kept[k] = entries[a]
    BY <1>2, <1>4 DEF From
  <2>2. QED BY <1>4, <1>5, <2>1
<1>7. ASSUME NEW i \in DOMAIN kept, NEW j \in DOMAIN kept, i < j PROVE kept[i].index # kept[j].index
  <2>1. PICK a, b \in 1..Len(entries) : a < b /\ kept[i] = entries[a] /\ kept[j] = entries[b]
    BY <1>2, <1>7 DEF From
  <2>2. a # b
    BY <2>1
  <2>3. QED BY <1>5, <2>1, <2>2
<1>8. ASSUME NEW j \in DOMAIN kept, kept[j].index = kept[k].index PROVE j = k
  <2>1. k \in DOMAIN kept
    BY <1>4
  <2>2. j < k \/ k < j \/ j = k
    BY <1>d, <2>1
  <2>3. QED BY <1>7, <1>8, <2>1, <2>2
<1>9. QED BY <1>4, <1>6, <1>8

\* The face of the card and the chip above it.
LEMMA FaceIsRight == TypeOK => FaceIsUptime
<1> SUFFICES ASSUME TypeOK PROVE FaceIsUptime
  OBVIOUS
<1> DEFINE d == current.days
           h == current.hours
           m == current.minutes
           s == current.seconds
           f == Face(current)
           days == IF Len(f) = 4 THEN f[1] ELSE 0
           rest == SubSeq(f, Len(f) - 2, Len(f))
           sum == ((days * 24 + rest[1]) * 60 + rest[2]) * 60 + rest[3]
<1>1. d \in Nat /\ h \in 0..23 /\ m \in 0..59 /\ s \in 0..59
  BY DEF TypeOK, Clocks
<1>2. days = d /\ rest[1] = h /\ rest[2] = m /\ rest[3] = s
  <2>1. CASE d > 0
    <3>1. f = <<d>> \o <<h, m, s>>
      BY <2>1 DEF Face
    <3>n. <<d>> \in Seq(Nat) /\ <<h, m, s>> \in Seq(Nat) /\ Len(<<d>>) = 1 /\ Len(<<h, m, s>>) = 3
      BY <1>1
    <3> HIDE DEF f, d, h, m, s
    <3>2. f \in Seq(Nat) /\ Len(f) = 4
      BY <3>1, <3>n
    <3>3. f[1] = d /\ f[2] = h /\ f[3] = m /\ f[4] = s
      BY <3>1, <3>n
    <3>4. rest = SubSeq(f, 2, 4)
      BY <3>2
    <3>5. rest[1] = f[2] /\ rest[2] = f[3] /\ rest[3] = f[4]
      BY <3>2, <3>4
    <3>6. QED BY <3>2, <3>3, <3>5
  <2>2. CASE ~(d > 0)
    <3>0. d = 0
      BY <1>1, <2>2
    <3>1. f = <<h, m, s>>
      <4>1. f = <<>> \o <<h, m, s>>
        BY <2>2 DEF Face
      <4> HIDE DEF f, d, h, m, s
      <4>2. <<>> \o <<h, m, s>> = <<h, m, s>>
        OBVIOUS
      <4>3. QED BY <4>1, <4>2
    <3> HIDE DEF f, d, h, m, s
    <3>2. Len(f) = 3 /\ f[1] = h /\ f[2] = m /\ f[3] = s
      BY <3>1
    <3>3. rest = SubSeq(f, 1, 3)
      BY <3>2
    <3>4. rest[1] = h /\ rest[2] = m /\ rest[3] = s
      BY <3>1, <3>3
    <3>5. QED BY <3>0, <3>2, <3>4
  <2>3. QED BY <2>1, <2>2
<1>3. sum = ((d * 24 + h) * 60 + m) * 60 + s
  BY <1>2
<1>4. Total(current) = ((d * 24 + h) * 60 + m) * 60 + s
  BY DEF Total
<1>5. Status(current) = IF d * 24 + h < 1 THEN "recent" ELSE IF d * 24 + h < 24 THEN "today"
                        ELSE IF d * 24 + h < 168 THEN "week" ELSE "long"
  BY DEF Status
<1> HIDE DEF sum, d, h, m, s
<1>6. /\ sum < 3600 <=> d * 24 + h < 1
      /\ sum < 86400 <=> d * 24 + h < 24
      /\ sum < 604800 <=> d * 24 + h < 168
  BY <1>1, <1>3
<1>7. /\ (Status(current) = "recent") <=> sum < 3600
      /\ (Status(current) \in {"recent", "today"}) <=> sum < 86400
      /\ (Status(current) # "long") <=> sum < 604800
  BY <1>1, <1>5, <1>6
<1>8. QED BY <1>3, <1>4, <1>7 DEF FaceIsUptime, sum

\* Whatever the device, its documents and its tables become, the panels of the page agree
\* with themselves: UptimeCard.tsx, StatCard.tsx with the pie charts, and the lists of interfaces.
THEOREM PanelsAreConsistent == PageSpec => []PanelsAgree
<1>1. PageSpec => []TypeOK
  BY ClockBehaves, ClockTypes, PTL
<1>2. TypeOK /\ CardTypes /\ ListsInv => PanelsAgree
  BY FaceIsRight, DashboardAgrees, ChipsAreRight, CardsAreRight DEF PanelsAgree
<1>3. QED BY <1>1, <1>2, CardTypesInvariant, ListsInvariant, PTL
=============================================================================
