---------------------------- MODULE UptimeClock ----------------------------
(***************************************************************************)
(* The uptime of a device, from its counter to the card that shows it:     *)
(* GetTimeTicksOid of snmp/base.go formats it, useSnmpMonitor.ts keeps the *)
(* newest samples, the page takes the first of them, and UptimeCard.tsx    *)
(* parses it and counts on by itself.  Time goes on in seconds; a sample   *)
(* that is due arrives, or is missed, within its second.                   *)
(***************************************************************************)
EXTENDS Integers, Sequences

CONSTANTS
    Starts,           \* what the device's uptime may be when the page is opened
    Interval,         \* seconds between two samples; 10 in the code
    MaxDataPoints,    \* how many samples are kept
    MaxSeconds,       \* bound: how long the page is open
    MaxReboots,       \* bound: how often the device is restarted
    MaxMissed         \* bound: how many samples are missed

\* The counter is a uint32 of hundredths of a second: (2^32 - 1) \div 100.
LastSecond == 42949672

ASSUME ClockAssumption ==
    /\ Starts \subseteq 0..LastSecond
    /\ Interval \in Nat \ {0} /\ MaxDataPoints \in Nat \ {0}

VARIABLES
    up,               \* the device's uptime, in seconds
    boot,             \* how often its counter has started anew
    open,             \* seconds since the page was opened
    due,              \* seconds until the next sample
    window,           \* the samples that are kept
    missed,           \* how many samples were missed
    lastUptime,       \* lastUptimeRef of the card
    current,          \* currentUptime of the card
    adopted           \* history: the boot of the sample the card counts on from

vars == <<up, boot, open, due, window, missed, lastUptime, current, adopted>>

NoBoot == -1
-----------------------------------------------------------------------------
\* Formatting, parsing and counting.

\* GetTimeTicksOid: the days are left out when there are none.
Format(s) ==
    [form |-> IF s \div 86400 > 0 THEN "dhms" ELSE "hms", d |-> s \div 86400, h |-> (s % 86400) \div 3600,
     m |-> (s % 3600) \div 60, s |-> s % 60]

\* The page's uptime as long as it has no sample, and the first state of the card.
NoUptime == [form |-> "hms", d |-> 0, h |-> 0, m |-> 0, s |-> 0]
ParsedNothing == [days |-> 0, hours |-> 0, minutes |-> 0, seconds |-> 0]

\* parseUptime, of one of the two forms.
Parse(u) ==
    [days |-> IF u.form = "dhms" THEN u.d ELSE 0, hours |-> u.h, minutes |-> u.m, seconds |-> u.s]

IncrementLate(u) ==      \* mistake: > for >=
    LET s == u.seconds + 1
        m == IF s > 60 THEN u.minutes + 1 ELSE u.minutes
        h == IF m > 60 THEN u.hours + 1 ELSE u.hours
    IN  [days |-> IF h > 24 THEN u.days + 1 ELSE u.days, hours |-> IF h > 24 THEN 0 ELSE h,
         minutes |-> IF m > 60 THEN 0 ELSE m, seconds |-> IF s > 60 THEN 0 ELSE s]

IncrementCarryLost(u) ==      \* mistake: the carry does not go on to the hours
    LET s == IF u.seconds + 1 >= 60 THEN 0 ELSE u.seconds + 1
        m == IF s = 0 THEN u.minutes + 1 ELSE u.minutes
    IN  [days |-> u.days, hours |-> u.hours, minutes |-> IF m >= 60 THEN 0 ELSE m, seconds |-> s]

\* incrementUptime.
Increment(u) ==
    LET s == u.seconds + 1
        m == IF s >= 60 THEN u.minutes + 1 ELSE u.minutes
        h == IF m >= 60 THEN u.hours + 1 ELSE u.hours
    IN  [days |-> IF h >= 24 THEN u.days + 1 ELSE u.days, hours |-> IF h >= 24 THEN 0 ELSE h,
         minutes |-> IF m >= 60 THEN 0 ELSE m, seconds |-> IF s >= 60 THEN 0 ELSE s]

\* The seconds that days, hours, minutes and seconds are.
Total(u) == ((u.days * 24 + u.hours) * 60 + u.minutes) * 60 + u.seconds
-----------------------------------------------------------------------------
\* What the card shows.

\* getUptimeStatus: the text of the chip, and its colour.
Status(u) ==
    LET totalHours == u.days * 24 + u.hours
    IN  IF totalHours < 1 THEN "recent" ELSE IF totalHours < 24 THEN "today"
        ELSE IF totalHours < 168 THEN "week" ELSE "long"

\* The segments: the days only when there are some.
Face(u) == (IF u.days > 0 THEN <<u.days>> ELSE <<>>) \o <<u.hours, u.minutes, u.seconds>>
-----------------------------------------------------------------------------
\* The page and the card.

\* const [data] = getMetricData(routerId, 'uptime').
First(w) == IF w = <<>> THEN [value |-> NoUptime, boot |-> NoBoot] ELSE w[1]

\* The newest samples.
Slid(w) == IF Len(w) > MaxDataPoints THEN Tail(w) ELSE w

\* The effect of a card: it counts on from a sample.
Adopt(sample) ==
    /\ lastUptime' = sample.value
    /\ current' = Parse(sample.value)
    /\ adopted' = sample.boot

\* A second goes by, for the device and for the card's interval; the browser may leave
\* the interval out while the page is hidden.
Second(counted) ==
    /\ due > 0
    /\ open < MaxSeconds
    /\ open' = open + 1
    /\ due' = due - 1
    /\ up' = IF up = LastSecond THEN 0 ELSE up + 1
    /\ boot' = IF up = LastSecond THEN boot + 1 ELSE boot
    /\ current' = IF counted THEN Increment(current) ELSE current
    /\ UNCHANGED <<window, missed, lastUptime, adopted>>

\* A sample arrives; the card takes the page's uptime if it differs from its last one.
Sample ==
    /\ due = 0
    /\ due' = Interval
    /\ window' = Slid(Append(window, [value |-> Format(up), boot |-> boot]))
    /\ IF First(window').value = lastUptime THEN UNCHANGED <<lastUptime, current, adopted>>
       ELSE Adopt(First(window'))
    /\ UNCHANGED <<up, boot, open, missed>>

\* A sample that fails, or that is sent while the connection is down.
Miss ==
    /\ due = 0
    /\ missed < MaxMissed
    /\ due' = Interval
    /\ missed' = missed + 1
    /\ UNCHANGED <<up, boot, open, window, lastUptime, current, adopted>>

Reboot ==
    /\ boot < MaxReboots
    /\ up' = 0
    /\ boot' = boot + 1
    /\ UNCHANGED <<open, due, window, missed, lastUptime, current, adopted>>

\* The user looks at another tab of the page and comes back: a new card, of the samples
\* the page still has.
ChangeTab ==
    /\ Adopt(First(window))
    /\ UNCHANGED <<up, boot, open, due, window, missed>>
-----------------------------------------------------------------------------
Init ==
    /\ up \in Starts
    /\ boot = 0 /\ open = 0 /\ due = 0 /\ missed = 0
    /\ window = <<>>
    /\ lastUptime = NoUptime
    /\ current = ParsedNothing
    /\ adopted = NoBoot

Next == (\E counted \in BOOLEAN : Second(counted)) \/ Sample \/ Miss \/ Reboot \/ ChangeTab

Spec == Init /\ [][Next]_vars
-----------------------------------------------------------------------------
Uptimes == [form : {"dhms", "hms"}, d : Nat, h : 0..23, m : 0..59, s : 0..59]
Samples == [value : Uptimes, boot : Nat]
Clocks == [days : Nat, hours : 0..23, minutes : 0..59, seconds : 0..59]

\* Every variable holds a value of its kind: the carries keep the card's hours, minutes
\* and seconds within a clock's.
TypeOK ==
    /\ up \in 0..LastSecond /\ boot \in Nat /\ open \in Nat /\ due \in 0..Interval
    /\ missed \in Nat
    /\ window \in Seq(Samples) /\ Len(window) <= MaxDataPoints
    /\ lastUptime \in Uptimes /\ adopted \in Int
    /\ current \in Clocks

\* While the card counts on from a sample of the device's present boot, it is never ahead
\* of the device and never behind the oldest sample that is kept: whatever samples are
\* missed, however the window slides, the tabs change and the interval is left out.
BetweenSampleAndDevice ==
    adopted = boot =>
        /\ Total(Parse(First(window).value)) <= Total(current)
        /\ Total(current) <= up

\* What the card shows adds up to its uptime, and the chip is of the same hours.
FaceIsUptime ==
    LET f == Face(current)
        days == IF Len(f) = 4 THEN f[1] ELSE 0
        rest == SubSeq(f, Len(f) - 2, Len(f))
        total == ((days * 24 + rest[1]) * 60 + rest[2]) * 60 + rest[3]
    IN  /\ total = Total(current)
        /\ (Status(current) = "recent") <=> total < 3600
        /\ (Status(current) \in {"recent", "today"}) <=> total < 86400
        /\ (Status(current) # "long") <=> total < 604800
=============================================================================
