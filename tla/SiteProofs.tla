------------------------------- MODULE SiteProofs -------------------------------
(****************************************************************************)
(* Proofs about the parts of Site: document, session, form, table and       *)
(* traffic.                                                                 *)
(*                                                                          *)
(* No sample is averaged twice, and one that is lost although its day was   *)
(* averaged was lost to an overlapping edit, for any number of metrics,     *)
(* samples, days and editors.  The argument: from the end of a day to the   *)
(* calculation of its averages nobody changes them, so every edit that is   *)
(* open then has read the very list it would restore.  The temperature is   *)
(* another matter: it is dropped by every edit, overlap or not.             *)
(*                                                                          *)
(* The menu names the user whose token is used, for any number of tabs: the *)
(* number of logins a menu was rendered after tells whether it is current.  *)
(*                                                                          *)
(* No device gets another's fields, for any number of saves under way: what *)
(* is in a draft is of the row the modal has, and a save takes both along.  *)
(*                                                                          *)
(* The table follows its query, for any devices and requests: the newest    *)
(* request asks what the controls say, and its answer is shown if it is the *)
(* last to come.  What it shows is a page of the sorted list: each device   *)
(* has a rank of its own, so the pages have each device once.               *)
(*                                                                          *)
(* The dashboard of the traffic follows its days, for any buckets: a day in *)
(* the window that is not its first has all of its hours in the window.     *)
(****************************************************************************)
EXTENDS Site, WellFoundedInduction, FiniteSetTheorems, TLAPS

-----------------------------------------------------------------------------
(* The document and its statistics *)

\* Samples are numbered when they are collected and stored once.
Fresh ==
  /\ \A s \in collecting \cup pushed : s[2] <= taken[s[1]]
  /\ collecting \cap pushed = {}

\* What a calculator has read of the day's list.
DayOf(m) == IF averaging[m] \in {Nothing, NoList} THEN {} ELSE averaging[m].today

\* A metric's lists hold samples of that metric that were stored, and no others; samples
\* are in lists that exist.
OwnSamples ==
  \A m \in Metrics :
    /\ today[m] \cup In(month[m]) \subseteq pushed \cap Of(m)
    /\ today[m] # {} => Today(m) \in lists

\* What is kept, and what somebody has read, was stored under its own metric.
ReadOwn ==
  /\ \A m \in Averaged : DayOf(m) \subseteq pushed \cap Of(m)
  /\ \A e \in Editors : edit[e] # Nothing =>
       \A m \in Metrics :
         /\ edit[e].today[m] \cup In(edit[e].month[m]) \subseteq pushed \cap Of(m)
         /\ edit[e].today[m] # {} => Today(m) \in edit[e].lists

\* Only a document that is older than a metric's lists may lack that of the day.
ListsAreThere ==
  \A m \in Averaged :
    \/ m \in older
    \/ /\ stored => Today(m) \in lists
       /\ averaging[m] # NoList
       /\ \A e \in Editors : edit[e] # Nothing => Today(m) \in edit[e].lists

\* From the end of a day to its calculation the averages are at rest.
AtRest(m) == m \in Averaged => rested[m] \/ averaging[m] # Nothing

\* The lists that would be written back count nothing twice.
ReadOnce ==
  /\ \A m \in Averaged : averaging[m] # Nothing => ~rested[m] /\ In(month[m]) \cap DayOf(m) = {}
  /\ \A m \in Metrics, e \in Editors : edit[e] # Nothing =>
       /\ NoneTwice(edit[e].month[m], edit[e].today[m])
       /\ AtRest(m) /\ stored => edit[e].month[m] = month[m]

\* The lists that would be written back still have every sample that is neither at risk nor
\* discarded.
ToKeep(m) == (pushed \cap Of(m)) \ (risked \cup discarded)
ReadAll ==
  stored => \A m \in Averaged :
    /\ averaging[m] # Nothing => ToKeep(m) \subseteq DayOf(m) \cup In(month[m])
    /\ \A e \in Editors : edit[e] # Nothing =>
         ToKeep(m) \subseteq edit[e].today[m] \cup In(edit[e].month[m])

StatisticsInv ==
  /\ TypeOK /\ Fresh /\ OwnSamples /\ ReadOwn /\ ListsAreThere
  /\ CountedOnce /\ ReadOnce /\ LostOnlyBetween /\ ReadAll

-----------------------------------------------------------------------------
(* Averages as sequences of sets *)

\* An average that is appended adds its samples to those that have been averaged.
LEMMA InAppend ==
  ASSUME NEW T, NEW averages \in Seq(T), NEW average \in T
  PROVE  In(Append(averages, average)) = In(averages) \cup average
<1> DEFINE longer == Append(averages, average)
<1>1. /\ DOMAIN averages = 1..Len(averages) /\ Len(averages) \in Nat
      /\ DOMAIN longer = 1..(Len(averages) + 1)
      /\ longer[Len(averages) + 1] = average
      /\ \A i \in 1..Len(averages) : longer[i] = averages[i]
  OBVIOUS
<1>2. In(longer) \subseteq In(averages) \cup average
  BY <1>1 DEF In
<1>3. In(averages) \subseteq In(longer)
  <2>1. SUFFICES ASSUME NEW s, NEW i \in DOMAIN averages, s \in averages[i]
                 PROVE  s \in In(longer)
    BY DEF In
  <2>2. i \in DOMAIN longer /\ s \in longer[i]
    BY <1>1, <2>1
  <2>3. QED BY <2>2 DEF In
<1>4. average \subseteq In(longer)
  <2>1. Len(averages) + 1 \in DOMAIN longer
    BY <1>1
  <2>2. QED BY <1>1, <2>1 DEF In
<1>5. QED BY <1>2, <1>3, <1>4

\* A day's list that counts nothing twice may become the next average.
LEMMA AppendCountsOnce ==
  ASSUME NEW T, NEW averages \in Seq(T), NEW average \in T,
         \A i, j \in DOMAIN averages : i # j => averages[i] \cap averages[j] = {},
         In(averages) \cap average = {}
  PROVE  NoneTwice(Append(averages, average), {})
<1> DEFINE longer == Append(averages, average)
<1>1. /\ DOMAIN averages = 1..Len(averages) /\ Len(averages) \in Nat
      /\ DOMAIN longer = 1..(Len(averages) + 1)
      /\ longer[Len(averages) + 1] = average
      /\ \A i \in 1..Len(averages) : longer[i] = averages[i]
  OBVIOUS
<1>2. \A i \in DOMAIN averages : averages[i] \cap average = {}
  BY DEF In
<1>3. ASSUME NEW i \in DOMAIN longer, NEW j \in DOMAIN longer, i # j
      PROVE  longer[i] \cap longer[j] = {}
  <2>1. CASE i \in DOMAIN averages /\ j \in DOMAIN averages
    BY <1>1, <1>3, <2>1
  <2>2. CASE i = Len(averages) + 1
    <3>1. j \in DOMAIN averages
      BY <1>1, <1>3, <2>2
    <3>2. QED BY <1>1, <1>2, <2>2, <3>1
  <2>3. CASE j = Len(averages) + 1
    <3>1. i \in DOMAIN averages
      BY <1>1, <1>3, <2>3
    <3>2. QED BY <1>1, <1>2, <2>3, <3>1
  <2>4. QED BY <1>1, <2>1, <2>2, <2>3
<1>4. QED BY <1>3 DEF NoneTwice

\* No averages, no samples.
LEMMA NothingInEmpty == In(<<>>) = {} /\ NoneTwice(<<>>, {})
BY DEF In, NoneTwice

-----------------------------------------------------------------------------
(* The invariant *)

\* A document that Create has made satisfies the invariant.
LEMMA InitStatistics == Init => StatisticsInv
<1>1. SUFFICES ASSUME Init PROVE StatisticsInv
  OBVIOUS
<1>2. TypeOK
  <2>1. 0 \in 0..MaxSamples
    BY BoundsAssumption
  <2>2. older \subseteq Averaged /\ (Averaged \ older) \X {"today", "month"} \subseteq Metrics \X {"today", "month"}
    BY <1>1 DEF Init, Metrics
  <2>3. QED BY <1>1, <2>1, <2>2 DEF Init, TypeOK
<1>3. /\ \A m \in Metrics : month[m] = <<>> /\ today[m] = {}
      /\ \A m \in Averaged : averaging[m] = Nothing /\ DayOf(m) = {}
      /\ Averaged \subseteq Metrics
  BY <1>1 DEF Init, DayOf, Metrics
<1>4. \A e \in Editors : edit[e] = Nothing
  BY <1>1 DEF Init
<1>5. Fresh
  BY <1>1 DEF Init, Fresh
<1>6. OwnSamples /\ CountedOnce
  BY <1>3, NothingInEmpty DEF OwnSamples, CountedOnce
<1>7. ReadOwn /\ ReadOnce /\ ReadAll
  BY <1>3, <1>4 DEF ReadOwn, ReadOnce, ReadAll
<1>8. LostOnlyBetween
  BY <1>1 DEF Init, LostOnlyBetween
<1>10. ListsAreThere
  BY <1>1, <1>3, <1>4 DEF Init, ListsAreThere, Today, Nothing, NoList
<1>9. QED BY <1>2, <1>5, <1>6, <1>7, <1>8, <1>10 DEF StatisticsInv

\* The types of the variables the actions work on, and of what was read.
LEMMA StatisticsAre ==
  ASSUME TypeOK
  PROVE  /\ today \in [Metrics -> SUBSET Samples] /\ month \in [Metrics -> Seq(SUBSET Samples)]
         /\ averaging \in [Averaged -> DayRead \cup {NoList, Nothing}]
         /\ rested \in [Averaged -> BOOLEAN]
         /\ edit \in [Editors -> RouterRead \cup {Nothing}]
         /\ collecting \subseteq Samples
         /\ Averaged \subseteq Metrics /\ Cpu \in Averaged /\ Memory \in Averaged
         /\ Nothing # NoList
         /\ \A m \in Averaged : DayOf(m) \in SUBSET Samples
         /\ \A m \in Averaged : averaging[m] \notin {Nothing, NoList} => averaging[m].today = DayOf(m)
<1>1. \A m \in Averaged : DayOf(m) \in SUBSET Samples
  BY DEF TypeOK, DayOf, DayRead
<1>2. QED BY <1>1, MetricsAssumption DEF TypeOK, Metrics, Nothing, NoList, DayOf

\* What a calculator reads at midnight, and what it leaves behind.
LEMMA MidnightReads ==
  ASSUME TypeOK, NEW m \in Averaged, Midnight(m)
  PROVE  /\ UNCHANGED <<document, collecting, taken, edit, history>>
         /\ rested' = [rested EXCEPT ![m] = FALSE]
         /\ \A n \in Averaged : n # m => averaging'[n] = averaging[n] /\ DayOf(n)' = DayOf(n)
         /\ averaging'[m] \in DayRead \cup {NoList, Nothing}
         /\ averaging' \in [Averaged -> DayRead \cup {NoList, Nothing}]
         /\ averaging'[m] # Nothing => stored
         /\ averaging'[m] # Nothing /\ averaging'[m] # NoList => DayOf(m)' = today[m]
         /\ averaging'[m] = NoList => Today(m) \notin lists /\ DayOf(m)' = {}
         /\ DayOf(m)' \subseteq today[m]
<1>1. /\ UNCHANGED <<document, collecting, taken, edit, history>>
      /\ rested' = [rested EXCEPT ![m] = FALSE]
      /\ averaging' = [averaging EXCEPT ![m] = IF stored /\ active THEN ReadDay(m) ELSE Nothing]
  BY DEF Midnight
<1>2. /\ averaging'[m] = IF stored /\ active THEN ReadDay(m) ELSE Nothing
      /\ \A n \in Averaged : n # m => averaging'[n] = averaging[n]
  BY <1>1, StatisticsAre
<1>3. /\ averaging'[m] \in DayRead \cup {NoList, Nothing}
      /\ averaging'[m] = NoList => Today(m) \notin lists
      /\ averaging'[m] \notin {Nothing, NoList} => averaging'[m].today = today[m]
  <2>1. today[m] \in SUBSET Samples
    BY StatisticsAre
  <2>2. ReadDay(m) = NoList => Today(m) \notin lists
    BY DEF ReadDay, NoList, Nothing
  <2>3. ReadDay(m) \notin {Nothing, NoList} => ReadDay(m) = [read |-> "day", today |-> today[m]]
    BY DEF ReadDay
  <2>4. [read |-> "day", today |-> today[m]] \in DayRead
    BY <2>1 DEF DayRead
  <2>5. Nothing # NoList
    BY DEF Nothing, NoList
  <2>6. QED BY <1>2, <2>2, <2>3, <2>4, <2>5
<1>4. averaging' \in [Averaged -> DayRead \cup {NoList, Nothing}]
  BY <1>1, <1>2, <1>3, StatisticsAre
<1>5. \A n \in Averaged : n # m => DayOf(n)' = DayOf(n)
  BY <1>2 DEF DayOf
<1>6. QED BY <1>1, <1>2, <1>3, <1>4, <1>5 DEF DayOf

\* A calculation that ends, in whatever way, leaves the others as they are.
LEMMA CalculationEnds ==
  ASSUME TypeOK, NEW m \in Averaged, averaging' = [averaging EXCEPT ![m] = Nothing]
  PROVE  /\ averaging'[m] = Nothing /\ DayOf(m)' = {}
         /\ \A n \in Averaged : n # m => averaging'[n] = averaging[n] /\ DayOf(n)' = DayOf(n)
         /\ \A n \in Averaged : averaging'[n] # Nothing => averaging'[n] = averaging[n]
         /\ \A n \in Averaged : DayOf(n)' \subseteq DayOf(n)
         /\ averaging' \in [Averaged -> DayRead \cup {NoList, Nothing}]
<1>1. /\ averaging'[m] = Nothing /\ \A n \in Averaged : n # m => averaging'[n] = averaging[n]
      /\ averaging' \in [Averaged -> DayRead \cup {NoList, Nothing}]
  BY StatisticsAre
<1>2. DayOf(m)' = {} /\ \A n \in Averaged : n # m => DayOf(n)' = DayOf(n)
  BY <1>1 DEF DayOf
<1>3. QED BY <1>1, <1>2

\* What an editor reads, that it has nothing when it is done, and what it writes.
LEMMA EditIsRead ==
  ASSUME TypeOK, NEW e \in Editors, ReadRouter(e)
  PROVE  /\ UNCHANGED <<document, collecting, taken, averaging, rested, history>> /\ stored
         /\ edit'[e] \in RouterRead
         /\ edit'[e].today = [today EXCEPT ![Temperature] = {}] /\ edit'[e].month = month
         /\ edit'[e].lists = lists \cap RoteadorLists
         /\ \A f \in Editors : f # e => edit'[f] = edit[f]
         /\ edit' \in [Editors -> RouterRead \cup {Nothing}]
<1> DEFINE day == [today EXCEPT ![Temperature] = {}]
           fields == lists \cap RoteadorLists
           new == [read |-> "router", today |-> day, month |-> month, lists |-> fields]
<1>1. day \in [Metrics -> SUBSET Samples] /\ fields \subseteq Metrics \X {"today", "month"}
  BY StatisticsAre DEF TypeOK
<1> HIDE DEF day, fields
<1>2. new \in RouterRead /\ new.today = day /\ new.month = month /\ new.lists = fields
  BY <1>1, StatisticsAre DEF RouterRead
<1>3. /\ UNCHANGED <<document, collecting, taken, averaging, rested, history>> /\ stored
      /\ edit' = [edit EXCEPT ![e] = new]
  BY DEF ReadRouter, day, fields
<1> HIDE DEF new
<1>4. edit'[e] = new /\ \A f \in Editors : f # e => edit'[f] = edit[f]
  BY <1>3, StatisticsAre
<1>5. edit' \in [Editors -> RouterRead \cup {Nothing}]
  BY <1>2, <1>3, StatisticsAre
<1>6. QED BY <1>2, <1>3, <1>4, <1>5 DEF day, fields

LEMMA EditEnds ==
  ASSUME TypeOK, NEW e \in Editors, edit' = [edit EXCEPT ![e] = Nothing]
  PROVE  /\ \A f \in Editors : edit'[f] # Nothing => edit'[f] = edit[f]
         /\ edit' \in [Editors -> RouterRead \cup {Nothing}]
BY StatisticsAre

LEMMA EditIsWritten ==
  ASSUME TypeOK, NEW e \in Editors, ReplaceRouter(e)
  PROVE  /\ UNCHANGED <<stored, collecting, taken, averaging, rested, pushed, risked, older>>
         /\ edit' = [edit EXCEPT ![e] = Nothing] /\ edit[e] # Nothing
         /\ edit[e].today \in [Metrics -> SUBSET Samples]
         /\ edit[e].month \in [Metrics -> Seq(SUBSET Samples)]
         /\ edit[e].lists \subseteq Metrics \X {"today", "month"}
         /\ stored => /\ today' = edit[e].today /\ month' = edit[e].month
                      /\ lists' = edit[e].lists /\ nulls' = RoteadorLists \ edit[e].lists
                      /\ active' \in BOOLEAN
                      /\ discarded' = discarded \cup today[Temperature]
         /\ ~stored => UNCHANGED <<today, month, lists, nulls, active, discarded>>
<1>1. edit[e] \in RouterRead
  BY StatisticsAre DEF ReplaceRouter, Replaced
<1>2. QED BY <1>1 DEF ReplaceRouter, Replaced, RouterRead

\* The document keeps its shape.
LEMMA TypesKept == TypeOK /\ [Next]_vars => TypeOK'
<1> SUFFICES ASSUME TypeOK, [Next]_vars PROVE TypeOK'
  OBVIOUS
<1>t. /\ today \in [Metrics -> SUBSET Samples] /\ month \in [Metrics -> Seq(SUBSET Samples)]
      /\ Averaged \subseteq Metrics /\ Cpu \in Averaged /\ Memory \in Averaged
      /\ \A m \in Metrics : Today(m) \in Metrics \X {"today", "month"}
      /\ \A m \in Metrics : Month(m) \in Metrics \X {"today", "month"}
      /\ {} \in SUBSET Samples /\ <<>> \in Seq(SUBSET Samples)
  BY StatisticsAre DEF Today, Month
<1>f. ASSUME UNCHANGED <<stored, active, month, lists, nulls, collecting, taken, rested, pushed,
                         risked, discarded, older>>,
             today' \in [Metrics -> SUBSET Samples],
             averaging' \in [Averaged -> DayRead \cup {NoList, Nothing}],
             edit' \in [Editors -> RouterRead \cup {Nothing}]
      PROVE  TypeOK'
  BY <1>f DEF TypeOK
<1>1. ASSUME NEW m \in Metrics, Tick(m) PROVE TypeOK'
  <2>1. taken[m] + 1 \in 1..MaxSamples
    BY <1>1, BoundsAssumption DEF Tick, TypeOK
  <2>2. <<m, taken[m] + 1>> \in Samples
    BY <2>1 DEF Samples
  <2>3. taken' \in [Metrics -> 0..MaxSamples]
    BY <1>1, <2>1 DEF Tick, TypeOK
  <2>4. UNCHANGED <<document, averaging, rested, edit, history>> /\ collecting' \subseteq Samples
    BY <1>1, <2>2 DEF Tick, TypeOK
  <2>5. QED BY <2>3, <2>4 DEF TypeOK, document, history
<1>2. ASSUME NEW m \in Averaged, Midnight(m) PROVE TypeOK'
  <2>1. rested' \in [Averaged -> BOOLEAN]
    BY <1>2 DEF Midnight, TypeOK
  <2>2. QED BY <1>2, <2>1, MidnightReads DEF TypeOK, document, history
<1>3. ASSUME NEW m \in Averaged, Average(m) PROVE TypeOK'
  <2>1. averaging' \in [Averaged -> DayRead \cup {NoList, Nothing}]
    BY <1>3, CalculationEnds DEF Average
  <2>2. UNCHANGED <<stored, active, collecting, taken, rested, edit, history>>
    BY <1>3 DEF Average
  <2>3. CASE stored /\ Month(m) \notin nulls
    <3>1. averaging[m].today \in SUBSET Samples
      BY <1>3, StatisticsAre DEF Average
    <3>2. Append(month[m], averaging[m].today) \in Seq(SUBSET Samples)
      BY <1>t, <3>1
    <3>3. month' \in [Metrics -> Seq(SUBSET Samples)] /\ today' \in [Metrics -> SUBSET Samples]
      BY <1>3, <1>t, <2>3, <3>2 DEF Average
    <3>4. /\ lists' \subseteq Metrics \X {"today", "month"} /\ nulls' \subseteq RoteadorLists \ lists'
      BY <1>3, <1>t, <2>3 DEF Average, TypeOK
    <3>5. QED BY <2>1, <2>2, <3>3, <3>4 DEF TypeOK, history
  <2>4. CASE ~(stored /\ Month(m) \notin nulls)
    <3>1. UNCHANGED <<month, today, lists, nulls>>
      BY <1>3, <2>4 DEF Average
    <3>2. QED BY <2>1, <2>2, <3>1 DEF TypeOK, history
  <2>5. QED BY <2>3, <2>4
<1>4. ASSUME NEW m \in Averaged, AverageFails(m) PROVE TypeOK'
  <2>1. averaging' \in [Averaged -> DayRead \cup {NoList, Nothing}]
    BY <1>4, CalculationEnds DEF AverageFails
  <2>2. QED BY <1>4, <2>1 DEF AverageFails, TypeOK, document, history
<1>14. ASSUME NEW m \in Averaged, MakeList(m) PROVE TypeOK'
  <2>1. averaging' \in [Averaged -> DayRead \cup {NoList, Nothing}]
    BY <1>14, CalculationEnds DEF MakeList
  <2>2. UNCHANGED <<stored, active, month, collecting, taken, rested, edit, pushed, risked, older>>
    BY <1>14 DEF MakeList
  <2>3. CASE stored
    <3>1. EmptiedBy(m) \in Averaged
      BY <1>t DEF EmptiedBy
    <3>2. today' \in [Metrics -> SUBSET Samples]
      BY <1>14, <1>t, <2>3, <3>1 DEF MakeList
    <3>3. lists' \subseteq Metrics \X {"today", "month"} /\ nulls' \subseteq RoteadorLists \ lists'
      BY <1>14, <1>t, <2>3, <3>1 DEF MakeList, TypeOK
    <3>4. discarded' \subseteq Samples
      BY <1>14, <1>t, <2>3 DEF MakeList, TypeOK
    <3>5. QED BY <2>1, <2>2, <3>2, <3>3, <3>4 DEF TypeOK
  <2>4. CASE ~stored
    <3>1. UNCHANGED <<today, lists, nulls, discarded>>
      BY <1>14, <2>4 DEF MakeList
    <3>2. QED BY <2>1, <2>2, <3>1 DEF TypeOK
  <2>5. QED BY <2>3, <2>4
<1>5. ASSUME NEW s \in collecting, Push(s) PROVE TypeOK'
  <2>1. s \in Samples /\ s[1] \in Metrics
    BY DEF Samples, TypeOK
  <2>2. today[s[1]] \cup {s} \in SUBSET Samples
    BY <1>t, <2>1
  <2>3. today' \in [Metrics -> SUBSET Samples]
    BY <1>5, <1>t, <2>2 DEF Push
  <2>4. pushed' \subseteq Samples /\ risked' \subseteq Samples
    BY <1>5, <2>1 DEF Push, TypeOK
  <2>5. collecting' \subseteq Samples
    BY <1>5 DEF Push, TypeOK
  <2>6. UNCHANGED <<stored, active, month, nulls, taken, averaging, rested, edit, discarded, older>>
    BY <1>5 DEF Push
  <2>7. lists' \subseteq Metrics \X {"today", "month"} /\ nulls \subseteq RoteadorLists \ lists'
    BY <1>5, <1>t, <2>1 DEF Push, TypeOK
  <2>8. QED BY <2>3, <2>4, <2>5, <2>6, <2>7 DEF TypeOK
<1>6. ASSUME NEW s \in collecting, Drop(s) PROVE TypeOK'
  <2>1. collecting' \subseteq Samples /\ UNCHANGED <<document, taken, averaging, rested, edit, history>>
    BY <1>6 DEF Drop, TypeOK
  <2>2. QED BY <2>1 DEF TypeOK, document, history
<1>7. CASE DayPasses
  BY <1>7 DEF DayPasses, TypeOK, document, history
<1>8. CASE DeleteRouter
  <2>2. today' \in [Metrics -> SUBSET Samples] /\ month' \in [Metrics -> Seq(SUBSET Samples)]
    BY <1>8, <1>t DEF DeleteRouter
  <2>4. UNCHANGED <<active, work, history>> /\ stored' = FALSE /\ lists' = {} /\ nulls' = {}
    BY <1>8 DEF DeleteRouter
  <2>5. QED BY <2>2, <2>4 DEF TypeOK, work, history
<1>9. ASSUME NEW e \in Editors, ReadRouter(e) PROVE TypeOK'
  BY <1>9, EditIsRead DEF TypeOK, document, history
<1>10. ASSUME NEW e \in Editors, ReplaceRouter(e) PROVE TypeOK'
  <2>1. edit' \in [Editors -> RouterRead \cup {Nothing}]
    BY <1>10, EditIsWritten, EditEnds
  <2>2. /\ today' \in [Metrics -> SUBSET Samples] /\ month' \in [Metrics -> Seq(SUBSET Samples)]
        /\ lists' \subseteq Metrics \X {"today", "month"} /\ nulls' \subseteq RoteadorLists \ lists'
        /\ active' \in BOOLEAN /\ discarded' \subseteq Samples
    <3>1. today[Temperature] \subseteq Samples
      BY <1>t DEF Metrics
    <3>2. QED BY <1>10, <3>1, EditIsWritten DEF TypeOK
  <2>3. UNCHANGED <<stored, collecting, taken, averaging, rested, pushed, risked, older>>
    BY <1>10, EditIsWritten
  <2>4. QED BY <2>1, <2>2, <2>3 DEF TypeOK
<1>11. ASSUME NEW e \in Editors, UpdateFails(e) PROVE TypeOK'
  <2>1. edit' \in [Editors -> RouterRead \cup {Nothing}]
    BY <1>11, EditEnds DEF UpdateFails
  <2>2. QED BY <1>11, <2>1 DEF UpdateFails, TypeOK, document, history
<1>12. CASE UNCHANGED vars
  BY <1>12 DEF vars, document, work, history, TypeOK
<1>13. QED
  BY <1>1, <1>2, <1>3, <1>4, <1>5, <1>6, <1>7, <1>8, <1>9, <1>10, <1>11, <1>12, <1>14 DEF Next

\* Numbers are given once.
LEMMA FreshKept == TypeOK /\ Fresh /\ [Next]_vars => Fresh'
<1> SUFFICES ASSUME TypeOK, Fresh, [Next]_vars PROVE Fresh'
  OBVIOUS
<1>1. ASSUME NEW m \in Metrics, Tick(m) PROVE Fresh'
  <2>1. /\ taken \in [Metrics -> 0..MaxSamples]
        /\ \A s \in collecting \cup pushed : s[1] \in Metrics /\ s[2] \in Int
    BY BoundsAssumption DEF TypeOK, Samples
  <2>2. taken' = [taken EXCEPT ![m] = @ + 1] /\ pushed' = pushed
        /\ collecting' = collecting \cup {<<m, taken[m] + 1>>}
    BY <1>1 DEF Tick, history
  <2>3. <<m, taken[m] + 1>> \notin pushed
    BY <2>1 DEF Fresh
  <2>4. \A s \in collecting' \cup pushed' : s[2] <= taken'[s[1]]
    BY <2>1, <2>2 DEF Fresh
  <2>5. QED BY <2>2, <2>3, <2>4 DEF Fresh
<1>2. ASSUME NEW s \in collecting, Push(s) PROVE Fresh'
  BY <1>2 DEF Push, Fresh
<1>3. ASSUME NEW s \in collecting, Drop(s) PROVE Fresh'
  BY <1>3 DEF Drop, history, Fresh
<1>4. ASSUME UNCHANGED <<collecting, pushed, taken>> PROVE Fresh'
  BY <1>4 DEF Fresh
<1>5. QED
  BY <1>1, <1>2, <1>3, <1>4 DEF Next, vars, work, history, Midnight, Average, MakeList,
     AverageFails, DayPasses, DeleteRouter, ReadRouter, ReplaceRouter, Replaced, UpdateFails

\* A new document has the lists of its metrics, and keeps them.
LEMMA ListsKept == TypeOK /\ ListsAreThere /\ [Next]_vars => ListsAreThere'
<1> SUFFICES ASSUME TypeOK, ListsAreThere, [Next]_vars, NEW m \in Averaged, m \notin older'
             PROVE  /\ stored' => Today(m) \in lists'
                    /\ averaging'[m] # NoList
                    /\ \A e \in Editors : edit'[e] # Nothing => Today(m) \in edit'[e].lists
  BY DEF ListsAreThere, Today
<1>0. older' = older
  BY DEF Next, vars, history, Tick, Push, Drop, Midnight, Average, MakeList, AverageFails,
     DayPasses, DeleteRouter, ReadRouter, ReplaceRouter, Replaced, UpdateFails
<1>1. /\ stored => Today(m) \in lists
      /\ averaging[m] # NoList
      /\ \A e \in Editors : edit[e] # Nothing => Today(m) \in edit[e].lists
  BY <1>0 DEF ListsAreThere
<1>2. Today(m) \in RoteadorLists
  BY DEF Today, RoteadorLists
<1>3. ASSUME NEW e \in Editors, ReadRouter(e) PROVE
        /\ UNCHANGED <<stored, lists, averaging>>
        /\ \A f \in Editors : edit'[f] # Nothing => Today(m) \in edit'[f].lists
  BY <1>1, <1>2, <1>3, EditIsRead DEF document
<1>4. ASSUME NEW e \in Editors, ReplaceRouter(e) PROVE
        /\ UNCHANGED <<stored, averaging>> /\ (stored => Today(m) \in lists')
        /\ \A f \in Editors : edit'[f] # Nothing => Today(m) \in edit'[f].lists
  BY <1>1, <1>4, EditIsWritten, EditEnds
<1>5. ASSUME NEW e \in Editors, UpdateFails(e) PROVE
        /\ UNCHANGED <<stored, lists, averaging>>
        /\ \A f \in Editors : edit'[f] # Nothing => Today(m) \in edit'[f].lists
  <2>1. UNCHANGED <<stored, lists, averaging>> /\ edit' = [edit EXCEPT ![e] = Nothing]
    BY <1>5 DEF UpdateFails, document
  <2>2. QED BY <1>1, <2>1, EditEnds
<1>6. ASSUME NEW n \in Averaged, Midnight(n) PROVE
        UNCHANGED <<stored, lists, edit>> /\ averaging'[m] # NoList
  <2>1. UNCHANGED <<stored, lists, edit>>
    BY <1>6 DEF Midnight, document
  <2>2. /\ averaging'[n] # Nothing => stored
        /\ averaging'[n] = NoList => Today(n) \notin lists
        /\ m # n => averaging'[m] = averaging[m]
    BY <1>6, MidnightReads
  <2>3. Nothing # NoList
    BY DEF Nothing, NoList
  <2>4. QED BY <1>1, <2>1, <2>2, <2>3
<1>7. ASSUME NEW n \in Averaged, averaging' = [averaging EXCEPT ![n] = Nothing] PROVE averaging'[m] # NoList
  BY <1>1, <1>7, CalculationEnds DEF Nothing, NoList
<1>8. ASSUME NEW n \in Averaged, Average(n) \/ MakeList(n) \/ AverageFails(n) PROVE
        /\ UNCHANGED <<stored, edit>> /\ lists \subseteq lists' /\ averaging'[m] # NoList
  BY <1>7, <1>8 DEF Average, MakeList, AverageFails, document
<1>9. ASSUME NEW s \in collecting, Push(s) \/ Drop(s) PROVE
        UNCHANGED <<stored, edit, averaging>> /\ lists \subseteq lists'
  BY <1>9 DEF Push, Drop, document
<1>10. ASSUME \/ \E n \in Metrics : Tick(n)
              \/ DayPasses \/ UNCHANGED vars
       PROVE  UNCHANGED <<stored, edit, averaging, lists>>
  BY <1>10 DEF Tick, DayPasses, vars, document, work
<1>11. ASSUME DeleteRouter PROVE UNCHANGED <<edit, averaging>> /\ ~stored'
  BY <1>11 DEF DeleteRouter, work
<1>12. QED
  BY <1>1, <1>3, <1>4, <1>5, <1>6, <1>8, <1>9, <1>10, <1>11 DEF Next

\* Lists keep the samples of their own metric.
LEMMA OwnKept == TypeOK /\ OwnSamples /\ ReadOwn /\ [Next]_vars => OwnSamples' /\ ReadOwn'
<1> SUFFICES ASSUME TypeOK, OwnSamples, ReadOwn, [Next]_vars PROVE OwnSamples' /\ ReadOwn'
  OBVIOUS
<1>t. /\ today \in [Metrics -> SUBSET Samples] /\ month \in [Metrics -> Seq(SUBSET Samples)]
      /\ averaging \in [Averaged -> DayRead \cup {NoList, Nothing}]
      /\ edit \in [Editors -> RouterRead \cup {Nothing}]
      /\ collecting \subseteq Samples
      /\ Averaged \subseteq Metrics /\ Cpu \in Averaged /\ Memory \in Averaged
  BY StatisticsAre
<1>1. ASSUME UNCHANGED <<today, month, lists, averaging, edit, pushed>> PROVE OwnSamples' /\ ReadOwn'
  BY <1>1 DEF OwnSamples, ReadOwn, DayOf
<1>2. ASSUME NEW m \in Averaged, Midnight(m) PROVE OwnSamples' /\ ReadOwn'
  <2>1. UNCHANGED <<today, month, lists, edit, pushed>>
    BY <1>2, MidnightReads DEF document, history
  <2>2. \A n \in Averaged : DayOf(n)' \subseteq DayOf(n) \/ DayOf(n)' \subseteq today[n]
    BY <1>2, MidnightReads
  <2>3. \A n \in Averaged : DayOf(n)' \subseteq pushed \cap Of(n)
    BY <1>t, <2>2 DEF OwnSamples, ReadOwn
  <2>4. QED BY <2>1, <2>3 DEF OwnSamples, ReadOwn
<1>3. ASSUME NEW m \in Averaged, Average(m) PROVE OwnSamples' /\ ReadOwn'
  <2>1. UNCHANGED <<edit, pushed>> /\ \A n \in Averaged : DayOf(n)' \subseteq DayOf(n)
    BY <1>3, CalculationEnds DEF Average, history
  <2>2. ReadOwn'
    BY <2>1 DEF ReadOwn
  <2>3. averaging[m].today \in SUBSET Samples /\ averaging[m].today \subseteq pushed \cap Of(m)
    <3>1. averaging[m].today = DayOf(m)
      BY <1>3, StatisticsAre DEF Average
    <3>2. QED BY <3>1, StatisticsAre DEF ReadOwn
  <2>4. In(Append(month[m], averaging[m].today)) = In(month[m]) \cup averaging[m].today
    BY <1>t, <2>3, InAppend
  <2>5. ASSUME NEW n \in Metrics
        PROVE  /\ today'[n] \cup In(month'[n]) \subseteq pushed \cap Of(n)
               /\ today'[n] # {} => Today(n) \in lists'
    <3>1. /\ today[n] \cup In(month[n]) \subseteq pushed \cap Of(n)
          /\ today[n] # {} => Today(n) \in lists
      BY DEF OwnSamples
    <3>2. CASE n = m /\ stored /\ Month(m) \notin nulls
      <4>1. today'[n] = {} /\ month'[n] = Append(month[m], averaging[m].today)
        BY <1>3, <1>t, <3>2 DEF Average
      <4>2. QED BY <2>3, <2>4, <3>1, <3>2, <4>1
    <3>3. CASE n # m \/ ~(stored /\ Month(m) \notin nulls)
      <4>1. today'[n] = today[n] /\ month'[n] = month[n] /\ lists \subseteq lists'
        BY <1>3, <1>t, <3>3 DEF Average
      <4>2. QED BY <3>1, <4>1
    <3>4. QED BY <3>2, <3>3
  <2>6. QED BY <2>1, <2>2, <2>5 DEF OwnSamples
<1>4. ASSUME NEW m \in Averaged, AverageFails(m) PROVE OwnSamples' /\ ReadOwn'
  <2>1. UNCHANGED <<today, month, lists, edit, pushed>> /\ \A n \in Averaged : DayOf(n)' \subseteq DayOf(n)
    BY <1>4, CalculationEnds DEF AverageFails, document, history
  <2>2. QED BY <2>1 DEF OwnSamples, ReadOwn
<1>11. ASSUME NEW m \in Averaged, MakeList(m) PROVE OwnSamples' /\ ReadOwn'
  <2>1. UNCHANGED <<month, edit, pushed>> /\ \A n \in Averaged : DayOf(n)' \subseteq DayOf(n)
    BY <1>11, CalculationEnds DEF MakeList
  <2>2. lists \subseteq lists' /\ \A n \in Metrics : today'[n] = today[n] \/ today'[n] = {}
    BY <1>11, <1>t DEF MakeList
  <2>3. QED BY <2>1, <2>2 DEF OwnSamples, ReadOwn
<1>5. ASSUME NEW s \in collecting, Push(s) PROVE OwnSamples' /\ ReadOwn'
  <2>1. UNCHANGED <<month, averaging, edit>> /\ pushed \subseteq pushed' /\ lists \subseteq lists'
    BY <1>5 DEF Push
  <2>2. s \in Of(s[1]) /\ s[1] \in Metrics
    BY <1>t DEF Samples, Of
  <2>3. ASSUME NEW n \in Metrics
        PROVE  today'[n] \subseteq pushed' \cap Of(n) /\ (today'[n] # {} => Today(n) \in lists')
    <3>1. today[n] \subseteq pushed \cap Of(n) /\ (today[n] # {} => Today(n) \in lists)
      BY DEF OwnSamples
    <3>2. CASE stored /\ Today(s[1]) \notin nulls /\ n = s[1]
      <4>1. /\ today'[n] = today[n] \cup {s} /\ pushed' = pushed \cup {s}
            /\ lists' = lists \cup {Today(n)}
        BY <1>5, <1>t, <2>2, <3>2 DEF Push
      <4>2. QED BY <2>2, <3>1, <3>2, <4>1
    <3>3. CASE ~(stored /\ Today(s[1]) \notin nulls) \/ n # s[1]
      <4>1. today'[n] = today[n]
        BY <1>5, <1>t, <3>3 DEF Push
      <4>2. QED BY <2>1, <3>1, <4>1
    <3>4. QED BY <3>2, <3>3
  <2>4. QED BY <2>1, <2>3 DEF OwnSamples, ReadOwn, DayOf
<1>6. CASE DeleteRouter
  <2>1. UNCHANGED <<averaging, edit, pushed>> /\ \A n \in Metrics : today'[n] = {} /\ month'[n] = <<>>
    BY <1>6 DEF DeleteRouter, work, history
  <2>2. QED BY <2>1, NothingInEmpty DEF OwnSamples, ReadOwn, DayOf
<1>7. ASSUME NEW e \in Editors, ReadRouter(e) PROVE OwnSamples' /\ ReadOwn'
  <2>1. UNCHANGED <<today, month, lists, averaging, pushed>>
    BY <1>7, EditIsRead DEF document, history
  <2>2. /\ edit'[e].today = [today EXCEPT ![Temperature] = {}] /\ edit'[e].month = month
        /\ edit'[e].lists = lists \cap RoteadorLists
        /\ \A f \in Editors : f # e => edit'[f] = edit[f]
    BY <1>7, EditIsRead
  <2>3. ASSUME NEW n \in Metrics
        PROVE  /\ edit'[e].today[n] \cup In(edit'[e].month[n]) \subseteq pushed \cap Of(n)
               /\ edit'[e].today[n] # {} => Today(n) \in edit'[e].lists
    <3>1. /\ today[n] \cup In(month[n]) \subseteq pushed \cap Of(n)
          /\ today[n] # {} => Today(n) \in lists
      BY DEF OwnSamples
    <3>2. CASE n = Temperature
      BY <1>t, <2>2, <3>1, <3>2
    <3>3. CASE n # Temperature
      <4>1. edit'[e].today[n] = today[n]
        BY <1>t, <2>2, <3>3
      <4>2. Today(n) \in RoteadorLists
        BY <3>3 DEF Today, RoteadorLists, Metrics
      <4>3. QED BY <2>2, <3>1, <4>1, <4>2
    <3>4. QED BY <3>2, <3>3
  <2>4. \A f \in Editors : edit'[f] # Nothing =>
          \A n \in Metrics :
            /\ edit'[f].today[n] \cup In(edit'[f].month[n]) \subseteq pushed \cap Of(n)
            /\ edit'[f].today[n] # {} => Today(n) \in edit'[f].lists
    BY <2>2, <2>3 DEF ReadOwn
  <2>5. QED BY <2>1, <2>4 DEF OwnSamples, ReadOwn, DayOf
<1>8. ASSUME NEW e \in Editors, ReplaceRouter(e) PROVE OwnSamples' /\ ReadOwn'
  <2>1. UNCHANGED <<averaging, pushed>> /\ \A f \in Editors : edit'[f] # Nothing => edit'[f] = edit[f]
    BY <1>8, EditIsWritten, EditEnds
  <2>2. edit[e] # Nothing /\ ((today' = edit[e].today /\ month' = edit[e].month /\ lists' = edit[e].lists)
                              \/ UNCHANGED <<today, month, lists>>)
    BY <1>8, EditIsWritten
  <2>3. QED BY <2>1, <2>2 DEF OwnSamples, ReadOwn, DayOf
<1>9. ASSUME NEW e \in Editors, UpdateFails(e) PROVE OwnSamples' /\ ReadOwn'
  <2>1. UNCHANGED <<today, month, lists, averaging, pushed>> /\ \A f \in Editors : edit'[f] # Nothing => edit'[f] = edit[f]
    BY <1>9, EditEnds DEF UpdateFails, document, history
  <2>2. QED BY <2>1 DEF OwnSamples, ReadOwn, DayOf
<1>10. QED
  BY <1>1, <1>2, <1>3, <1>4, <1>5, <1>6, <1>7, <1>8, <1>9, <1>11
     DEF Next, vars, Tick, Drop, DayPasses, document, work, history

\* Nothing counts twice, in the document or in what may be written back to it.
LEMMA OnceKept ==
  StatisticsInv /\ [Next]_vars => CountedOnce' /\ ReadOnce'
<1> SUFFICES ASSUME StatisticsInv, [Next]_vars PROVE CountedOnce' /\ ReadOnce'
  OBVIOUS
<1>t. /\ today \in [Metrics -> SUBSET Samples] /\ month \in [Metrics -> Seq(SUBSET Samples)]
      /\ averaging \in [Averaged -> DayRead \cup {NoList, Nothing}]
      /\ edit \in [Editors -> RouterRead \cup {Nothing}]
      /\ rested \in [Averaged -> BOOLEAN] /\ collecting \subseteq Samples
      /\ Averaged \subseteq Metrics /\ Cpu \in Averaged /\ Memory \in Averaged
      /\ TypeOK
  BY StatisticsAre DEF StatisticsInv
<1>o. CountedOnce /\ ReadOnce
  BY DEF StatisticsInv
<1>1. ASSUME UNCHANGED <<stored, today, month, averaging, rested, edit>> PROVE CountedOnce' /\ ReadOnce'
  BY <1>1, <1>o DEF CountedOnce, ReadOnce, AtRest, DayOf
<1>2. ASSUME NEW m \in Averaged, Midnight(m) PROVE CountedOnce' /\ ReadOnce'
  <2>1. UNCHANGED <<stored, today, month, edit>>
    BY <1>2, <1>t, MidnightReads DEF document
  <2>2. CountedOnce'
    BY <2>1, <1>o DEF CountedOnce
  <2>3. ASSUME NEW n \in Averaged, averaging'[n] # Nothing
        PROVE  ~rested'[n] /\ In(month[n]) \cap DayOf(n)' = {}
    <3>1. CASE n = m
      <4>1. ~rested'[n] /\ DayOf(n)' \subseteq today[n]
        BY <1>2, <1>t, <3>1, MidnightReads
      <4>2. QED BY <1>t, <1>o, <4>1 DEF CountedOnce, NoneTwice
    <3>2. CASE n # m
      <4>1. rested'[n] = rested[n] /\ DayOf(n)' = DayOf(n) /\ averaging'[n] = averaging[n]
        BY <1>2, <1>t, <3>2, MidnightReads
      <4>2. QED BY <1>o, <2>3, <4>1 DEF ReadOnce
    <3>3. QED BY <3>1, <3>2
  <2>4. \A n \in Metrics : AtRest(n)' => AtRest(n)
    <3>1. rested[m] /\ \A n \in Averaged : n # m => averaging'[n] = averaging[n] /\ rested'[n] = rested[n]
      BY <1>2, <1>t, MidnightReads DEF Midnight
    <3>2. QED BY <3>1 DEF AtRest
  <2>5. QED BY <1>o, <2>1, <2>2, <2>3, <2>4 DEF ReadOnce
<1>3. ASSUME NEW m \in Averaged, Average(m) PROVE CountedOnce' /\ ReadOnce'
  <2>1. /\ UNCHANGED <<stored, edit, rested>>
        /\ \A n \in Metrics \ {m} : month'[n] = month[n] /\ today'[n] = today[n]
        /\ \A n \in Averaged \ {m} : averaging'[n] = averaging[n] /\ DayOf(n)' = DayOf(n)
        /\ averaging'[m] = Nothing /\ averaging[m] # Nothing
    <3>1. \A n \in Metrics \ {m} : month'[n] = month[n] /\ today'[n] = today[n]
      BY <1>3, <1>t DEF Average
    <3>2. QED BY <1>3, <1>t, <3>1, CalculationEnds DEF Average
  <2>7. ~rested[m]
    BY <1>o, <2>1 DEF ReadOnce
  <2>2. NoneTwice(month'[m], today'[m])
    <3>1. CASE ~(stored /\ Month(m) \notin nulls)
      BY <1>3, <1>t, <1>o, <3>1 DEF Average, CountedOnce
    <3>2. CASE stored /\ Month(m) \notin nulls
      <4>1. averaging[m].today \in SUBSET Samples /\ In(month[m]) \cap averaging[m].today = {}
        <5>1. averaging[m].today = DayOf(m) /\ DayOf(m) \in SUBSET Samples
          BY <1>3, <1>t, StatisticsAre DEF Average
        <5>2. QED BY <1>o, <2>1, <5>1 DEF ReadOnce
      <4>2. \A i, j \in DOMAIN month[m] : i # j => month[m][i] \cap month[m][j] = {}
        BY <1>t, <1>o DEF CountedOnce, NoneTwice
      <4>3. month[m] \in Seq(SUBSET Samples)
        BY <1>t
      <4>4. NoneTwice(Append(month[m], averaging[m].today), {})
        BY <4>1, <4>2, <4>3, AppendCountsOnce
      <4>5. month'[m] = Append(month[m], averaging[m].today) /\ today'[m] = {}
        BY <1>3, <1>t, <3>2 DEF Average
      <4>6. QED BY <4>4, <4>5
    <3>3. QED BY <3>1, <3>2
  <2>3. CountedOnce'
    BY <1>o, <2>1, <2>2 DEF CountedOnce
  <2>4. ReadOnce'
    <3>1. \A n \in Averaged : averaging'[n] # Nothing => ~rested'[n] /\ In(month'[n]) \cap DayOf(n)' = {}
      BY <1>o, <1>t, <2>1 DEF ReadOnce
    <3>2. ~AtRest(m)'
      BY <2>1, <2>7 DEF AtRest
    <3>3. \A n \in Metrics : AtRest(n)' => AtRest(n) /\ month'[n] = month[n]
      BY <2>1, <3>2 DEF AtRest
    <3>4. QED BY <1>o, <2>1, <3>1, <3>3 DEF ReadOnce
  <2>5. QED BY <2>3, <2>4
<1>4. ASSUME NEW m \in Averaged, AverageFails(m) PROVE CountedOnce' /\ ReadOnce'
  <2>1. /\ UNCHANGED <<stored, today, month, edit, rested>>
        /\ \A n \in Averaged : averaging'[n] # Nothing => averaging'[n] = averaging[n]
        /\ \A n \in Averaged : DayOf(n)' \subseteq DayOf(n)
    BY <1>4, <1>t, CalculationEnds DEF AverageFails, document
  <2>2. \A n \in Metrics : AtRest(n)' => AtRest(n)
    BY <2>1 DEF AtRest
  <2>3. QED BY <1>o, <2>1, <2>2 DEF CountedOnce, ReadOnce
<1>12. ASSUME NEW m \in Averaged, MakeList(m) PROVE CountedOnce' /\ ReadOnce'
  <2>1. /\ UNCHANGED <<stored, month, edit, rested>>
        /\ \A n \in Averaged : averaging'[n] # Nothing => averaging'[n] = averaging[n]
        /\ \A n \in Averaged : DayOf(n)' \subseteq DayOf(n)
    BY <1>12, <1>t, CalculationEnds DEF MakeList
  <2>2. \A n \in Metrics : today'[n] = today[n] \/ today'[n] = {}
    BY <1>12, <1>t DEF MakeList
  <2>3. \A n \in Metrics : AtRest(n)' => AtRest(n)
    BY <2>1 DEF AtRest
  <2>4. CountedOnce'
    BY <1>o, <2>1, <2>2 DEF CountedOnce, NoneTwice
  <2>5. QED BY <1>o, <2>1, <2>3, <2>4 DEF ReadOnce
<1>5. ASSUME NEW s \in collecting, Push(s) PROVE CountedOnce' /\ ReadOnce'
  <2>1. UNCHANGED <<stored, month, averaging, rested, edit>>
    BY <1>5 DEF Push
  <2>2. s \notin pushed
    BY DEF StatisticsInv, Fresh
  <2>3. ASSUME NEW n \in Metrics PROVE NoneTwice(month[n], today'[n])
    <3>1. today'[n] \subseteq today[n] \cup {s}
      BY <1>5, <1>t DEF Push
    <3>2. s \notin In(month[n])
      BY <2>2 DEF StatisticsInv, OwnSamples
    <3>3. QED BY <1>o, <3>1, <3>2 DEF CountedOnce, NoneTwice
  <2>4. CountedOnce'
    BY <2>1, <2>3 DEF CountedOnce
  <2>5. QED BY <1>o, <2>1, <2>4 DEF ReadOnce, AtRest, DayOf
<1>6. CASE DayPasses
  <2>1. /\ UNCHANGED <<stored, today, month, edit, averaging>>
        /\ \A n \in Averaged : averaging[n] = Nothing
        /\ \A e \in Editors : edit[e] = Nothing
    BY <1>6 DEF DayPasses, document
  <2>2. QED BY <1>o, <2>1 DEF CountedOnce, ReadOnce
<1>7. CASE DeleteRouter
  <2>1. /\ UNCHANGED <<averaging, edit, rested>> /\ stored' = FALSE
        /\ \A n \in Metrics : today'[n] = {} /\ month'[n] = <<>>
    BY <1>7 DEF DeleteRouter, work
  <2>2. QED BY <1>o, <1>t, <2>1, NothingInEmpty DEF CountedOnce, ReadOnce, DayOf
<1>8. ASSUME NEW e \in Editors, ReadRouter(e) PROVE CountedOnce' /\ ReadOnce'
  <2>1. UNCHANGED <<stored, today, month, averaging, rested>>
    BY <1>8, <1>t, EditIsRead DEF document
  <2>2. /\ edit'[e].today = [today EXCEPT ![Temperature] = {}] /\ edit'[e].month = month
        /\ \A f \in Editors : f # e => edit'[f] = edit[f]
    BY <1>8, <1>t, EditIsRead
  <2>3. CountedOnce'
    BY <1>o, <2>1 DEF CountedOnce
  <2>7. \A n \in Metrics : NoneTwice(edit'[e].month[n], edit'[e].today[n])
    <3>1. \A n \in Metrics : edit'[e].today[n] \subseteq today[n]
      BY <1>t, <2>2
    <3>2. QED BY <1>o, <2>2, <3>1 DEF CountedOnce, NoneTwice
  <2>4. \A f \in Editors, n \in Metrics : edit'[f] # Nothing => NoneTwice(edit'[f].month[n], edit'[f].today[n])
    BY <1>o, <2>2, <2>7 DEF ReadOnce
  <2>5. \A f \in Editors, n \in Metrics : edit'[f] # Nothing /\ AtRest(n) /\ stored => edit'[f].month[n] = month[n]
    BY <1>o, <2>2 DEF ReadOnce
  <2>6. QED BY <1>o, <2>1, <2>3, <2>4, <2>5 DEF ReadOnce, AtRest, DayOf
<1>9. ASSUME NEW e \in Editors, ReplaceRouter(e) PROVE CountedOnce' /\ ReadOnce'
  <2>1. UNCHANGED <<stored, averaging, rested>> /\ \A f \in Editors : edit'[f] # Nothing => edit'[f] = edit[f]
    BY <1>9, <1>t, EditIsWritten, EditEnds
  <2>2. edit[e] # Nothing /\ ((stored /\ today' = edit[e].today /\ month' = edit[e].month)
                              \/ (~stored /\ UNCHANGED <<today, month>>))
    BY <1>9, <1>t, EditIsWritten
  <2>3. CountedOnce'
    BY <1>o, <2>2 DEF CountedOnce, ReadOnce
  <2>4. \A n \in Metrics : AtRest(n) => month'[n] = month[n]
    BY <1>o, <2>2 DEF ReadOnce
  <2>5. \A n \in Averaged : averaging[n] # Nothing => AtRest(n)
    BY DEF AtRest
  <2>6. QED BY <1>o, <1>t, <2>1, <2>3, <2>4, <2>5 DEF ReadOnce, AtRest, DayOf
<1>10. ASSUME NEW e \in Editors, UpdateFails(e) PROVE CountedOnce' /\ ReadOnce'
  <2>1. UNCHANGED <<stored, today, month, averaging, rested>> /\ \A f \in Editors : edit'[f] # Nothing => edit'[f] = edit[f]
    BY <1>10, <1>t, EditEnds DEF UpdateFails, document
  <2>2. QED BY <1>o, <2>1 DEF CountedOnce, ReadOnce, AtRest, DayOf
<1>11. QED
  BY <1>1, <1>2, <1>3, <1>4, <1>5, <1>6, <1>7, <1>8, <1>9, <1>10, <1>12
     DEF Next, vars, Tick, Drop, document, work, history

\* What is not at risk and not discarded is kept, in the document and in what may be written
\* back to it.
LEMMA NoneLost ==
  StatisticsInv /\ [Next]_vars => LostOnlyBetween' /\ ReadAll'
<1> SUFFICES ASSUME StatisticsInv, [Next]_vars PROVE LostOnlyBetween' /\ ReadAll'
  OBVIOUS
<1>t. /\ today \in [Metrics -> SUBSET Samples] /\ month \in [Metrics -> Seq(SUBSET Samples)]
      /\ averaging \in [Averaged -> DayRead \cup {NoList, Nothing}]
      /\ edit \in [Editors -> RouterRead \cup {Nothing}]
      /\ collecting \subseteq Samples
      /\ Averaged \subseteq Metrics /\ Cpu \in Averaged /\ Memory \in Averaged
      /\ Metrics = Averaged \cup {Temperature} /\ Temperature \notin Averaged
      /\ TypeOK
  BY StatisticsAre, MetricsAssumption DEF StatisticsInv, Metrics
<1>o. LostOnlyBetween /\ ReadAll /\ ReadOnce
  BY DEF StatisticsInv
<1>k. /\ stored => \A m \in Metrics : ToKeep(m) \subseteq today[m] \cup In(month[m])
      /\ discarded \subseteq Of(Temperature) \cup (IF Cpu \in older THEN Of(Memory) ELSE {})
  BY <1>o DEF LostOnlyBetween, ToKeep
<1>g. SUFFICES
        /\ stored' => \A m \in Metrics : ToKeep(m)' \subseteq today'[m] \cup In(month'[m])
        /\ discarded' \subseteq Of(Temperature) \cup (IF Cpu \in older' THEN Of(Memory) ELSE {})
        /\ ReadAll'
  BY <1>g DEF LostOnlyBetween, ToKeep
<1> DEFINE Goal ==
        /\ stored' => \A m \in Metrics : ToKeep(m)' \subseteq today'[m] \cup In(month'[m])
        /\ discarded' \subseteq Of(Temperature) \cup (IF Cpu \in older' THEN Of(Memory) ELSE {})
        /\ ReadAll'
<1>1. ASSUME UNCHANGED <<stored, today, month, edit, pushed, risked, discarded, older>>,
             \A n \in Averaged : averaging'[n] # Nothing => averaging'[n] = averaging[n]
      PROVE  Goal
  <2>1. \A m : ToKeep(m)' = ToKeep(m)
    BY <1>1 DEF ToKeep
  <2>2. \A m \in Averaged : averaging'[m] # Nothing => DayOf(m)' = DayOf(m)
    BY <1>1 DEF DayOf
  <2>3. ReadAll'
    BY <1>1, <1>o, <2>1, <2>2 DEF ReadAll
  <2>4. QED BY <1>1, <1>k, <2>1, <2>3
<1>2. ASSUME NEW m \in Averaged, Midnight(m) PROVE Goal
  <2>1. UNCHANGED <<stored, today, month, edit, pushed, risked, discarded, older>>
    BY <1>2, <1>t, MidnightReads DEF document, history
  <2>2. \A n : ToKeep(n)' = ToKeep(n)
    BY <2>1 DEF ToKeep
  <2>3. ASSUME NEW n \in Averaged, averaging'[n] # Nothing, stored
        PROVE  ToKeep(n) \subseteq DayOf(n)' \cup In(month[n])
    <3>1. CASE n # m
      BY <1>2, <1>t, <1>o, <2>3, <3>1, MidnightReads DEF ReadAll
    <3>2. CASE n = m
      <4>1. ToKeep(n) \subseteq today[n] \cup In(month[n])
        BY <1>t, <1>k, <2>3
      <4>2. DayOf(n)' = today[n] \/ Today(n) \notin lists
        BY <1>2, <1>t, <2>3, <3>2, MidnightReads
      <4>3. Today(n) \notin lists => today[n] = {}
        BY <1>t DEF StatisticsInv, OwnSamples
      <4>4. QED BY <4>1, <4>2, <4>3
    <3>3. QED BY <3>1, <3>2
  <2>4. ReadAll'
    BY <1>o, <2>1, <2>2, <2>3 DEF ReadAll
  <2>5. QED BY <1>k, <2>1, <2>2, <2>4
<1>3. ASSUME NEW m \in Averaged, Average(m), stored, Month(m) \notin nulls PROVE Goal
  <2>1. /\ UNCHANGED <<stored, edit, pushed, risked, discarded, older>>
        /\ \A n \in Metrics \ {m} : month'[n] = month[n] /\ today'[n] = today[n]
        /\ averaging[m] # Nothing
    BY <1>3, <1>t DEF Average, history
  <2>2. /\ averaging'[m] = Nothing
        /\ \A n \in Averaged \ {m} : averaging'[n] = averaging[n] /\ DayOf(n)' = DayOf(n)
    BY <1>3, <1>t, CalculationEnds DEF Average
  <2>3. In(month'[m]) = In(month[m]) \cup DayOf(m)
    <3>1. month'[m] = Append(month[m], averaging[m].today)
      BY <1>3, <1>t DEF Average
    <3>2. averaging[m].today = DayOf(m) /\ DayOf(m) \in SUBSET Samples /\ month[m] \in Seq(SUBSET Samples)
      BY <1>3, <1>t, StatisticsAre DEF Average
    <3>3. In(Append(month[m], DayOf(m))) = In(month[m]) \cup DayOf(m)
      BY <3>2, InAppend
    <3>4. QED BY <3>1, <3>2, <3>3
  <2>4. \A n : ToKeep(n)' = ToKeep(n)
    BY <2>1 DEF ToKeep
  <2>5. ToKeep(m) \subseteq In(month'[m])
    BY <1>3, <1>o, <2>1, <2>3 DEF ReadAll
  <2>6. ReadAll'
    BY <1>o, <1>t, <2>1, <2>2, <2>4 DEF ReadAll
  <2>7. QED BY <1>3, <1>k, <2>1, <2>4, <2>5, <2>6
<1>4. ASSUME NEW s \in collecting, Push(s), stored, Today(s[1]) \notin nulls PROVE Goal
  <2>1. /\ UNCHANGED <<stored, month, averaging, edit, discarded, older>>
        /\ pushed' = pushed \cup {s} /\ risked \subseteq risked'
    BY <1>4 DEF Push
  <2>a. today' = [today EXCEPT ![s[1]] = @ \cup {s}]
    BY <1>4 DEF Push
  <2>m. s[1] \in Metrics
    BY <1>4, <1>t DEF Samples
  <2>2. \A n \in Metrics : today[n] \subseteq today'[n]
    <3>1. today \in [Metrics -> SUBSET Samples]
      BY <1>t
    <3>2. QED BY ONLY <3>1, <2>a
  <2>3. s[1] \in Metrics /\ s \in today'[s[1]]
    <3>1. today \in [Metrics -> SUBSET Samples]
      BY <1>t
    <3>2. QED BY ONLY <3>1, <2>a, <2>m
  <2>4. \A n \in Metrics : s \in Of(n) => n = s[1]
    BY DEF Of
  <2>5. \A n \in Metrics : ToKeep(n)' \subseteq today'[n] \cup In(month'[n])
    <3>1. \A n \in Metrics : ToKeep(n)' \subseteq ToKeep(n) \cup ({s} \cap Of(n))
      BY <2>1 DEF ToKeep
    <3>2. QED BY <1>4, <1>k, <2>1, <2>2, <2>3, <2>4, <3>1
  <2>6. ASSUME NEW n \in Averaged, averaging[n] # Nothing \/ \E e \in Editors : edit[e] # Nothing
        PROVE  ToKeep(n)' \subseteq ToKeep(n)
    <3>1. CASE n = s[1]
      BY <1>4, <2>1, <2>6, <3>1 DEF Push, BeingRewritten, ToKeep
    <3>2. CASE n # s[1]
      BY <1>t, <2>1, <2>4, <3>2 DEF ToKeep
    <3>3. QED BY <3>1, <3>2
  <2>7. ReadAll'
    <3>1. \A n : DayOf(n)' = DayOf(n)
      BY <2>1 DEF DayOf
    <3>2. QED BY <1>4, <1>o, <2>1, <2>6, <3>1 DEF ReadAll
  <2>8. QED BY <1>k, <2>1, <2>5, <2>7
<1>5. ASSUME ~stored', UNCHANGED <<discarded, older>> PROVE Goal
  BY <1>5, <1>k DEF ReadAll
<1>6. ASSUME NEW e \in Editors, ReadRouter(e) PROVE Goal
  <2>1. UNCHANGED <<stored, today, month, averaging, pushed, risked, discarded, older>>
    BY <1>6, <1>t, EditIsRead DEF document, history
  <2>2. /\ edit'[e].today = [today EXCEPT ![Temperature] = {}] /\ edit'[e].month = month
        /\ \A f \in Editors : f # e => edit'[f] = edit[f]
    BY <1>6, <1>t, EditIsRead
  <2>3. \A n : ToKeep(n)' = ToKeep(n) /\ DayOf(n)' = DayOf(n)
    BY <2>1 DEF ToKeep, DayOf
  <2>4. \A n \in Averaged : edit'[e].today[n] = today[n] /\ edit'[e].month[n] = month[n]
    BY <1>t, <2>2
  <2>5. ReadAll'
    <3>1. \A f \in Editors, n \in Averaged : edit'[f] # Nothing /\ stored =>
              ToKeep(n) \subseteq edit'[f].today[n] \cup In(edit'[f].month[n])
      BY <1>t, <1>o, <1>k, <2>2, <2>4 DEF ReadAll
    <3>2. QED BY <1>o, <2>1, <2>3, <3>1 DEF ReadAll
  <2>6. QED BY <1>k, <2>1, <2>3, <2>5
<1>7. ASSUME NEW e \in Editors, ReplaceRouter(e), stored PROVE Goal
  <2>1. /\ UNCHANGED <<stored, averaging, pushed, risked, older>>
        /\ \A f \in Editors : edit'[f] # Nothing => edit'[f] = edit[f]
    BY <1>7, <1>t, EditIsWritten, EditEnds
  <2>2. /\ edit[e] # Nothing /\ today' = edit[e].today /\ month' = edit[e].month
        /\ discarded' = discarded \cup today[Temperature]
    BY <1>7, <1>t, EditIsWritten
  <2>3. \A n : ToKeep(n)' \subseteq ToKeep(n) \ today[Temperature] /\ DayOf(n)' = DayOf(n)
    BY <2>1, <2>2 DEF ToKeep, DayOf
  <2>4. \A n \in Metrics : AtRest(n) => month'[n] = month[n]
    BY <1>7, <1>o, <2>2 DEF ReadOnce
  <2>5. \A n \in Metrics : ToKeep(n)' \subseteq today'[n] \cup In(month'[n])
    <3>1. ASSUME NEW n \in Averaged PROVE ToKeep(n)' \subseteq today'[n] \cup In(month'[n])
      BY <1>7, <1>o, <2>2, <2>3 DEF ReadAll
    <3>2. ToKeep(Temperature)' \subseteq In(month'[Temperature])
      <4>1. month'[Temperature] = month[Temperature]
        BY <1>t, <2>4 DEF AtRest
      <4>2. ToKeep(Temperature) \subseteq today[Temperature] \cup In(month[Temperature])
        BY <1>7, <1>t, <1>k
      <4>3. QED BY <2>3, <4>1, <4>2
    <3>3. QED BY <1>t, <3>1, <3>2
  <2>6. today[Temperature] \subseteq Of(Temperature)
    BY <1>t DEF StatisticsInv, OwnSamples
  <2>7. ReadAll'
    <3>1. \A n \in Averaged : averaging[n] # Nothing => month'[n] = month[n]
      BY <1>t, <2>4 DEF AtRest
    <3>2. QED BY <1>7, <1>o, <2>1, <2>3, <3>1 DEF ReadAll
  <2>8. QED BY <1>k, <2>1, <2>2, <2>5, <2>6, <2>7
<1>8. ASSUME NEW e \in Editors, UpdateFails(e) PROVE Goal
  <2>1. /\ UNCHANGED <<stored, today, month, averaging, pushed, risked, discarded, older>>
        /\ \A f \in Editors : edit'[f] # Nothing => edit'[f] = edit[f]
    BY <1>8, <1>t, EditEnds DEF UpdateFails, document, history
  <2>2. \A n : ToKeep(n)' = ToKeep(n) /\ DayOf(n)' = DayOf(n)
    BY <2>1 DEF ToKeep, DayOf
  <2>3. ReadAll'
    BY <1>o, <2>1, <2>2 DEF ReadAll
  <2>4. QED BY <1>k, <2>1, <2>2, <2>3
<1>9. ASSUME NEW m \in Averaged, AverageFails(m) PROVE Goal
  <2>1. /\ UNCHANGED <<stored, today, month, edit, pushed, risked, discarded, older>>
        /\ \A n \in Averaged : averaging'[n] # Nothing => averaging'[n] = averaging[n]
    BY <1>9, <1>t, CalculationEnds DEF AverageFails, document, history
  <2>2. QED BY <1>1, <2>1
<1>12. ASSUME NEW m \in Averaged, Average(m), Month(m) \in nulls PROVE Goal
  <2>1. /\ UNCHANGED <<stored, today, month, edit, pushed, risked, discarded, older>>
        /\ \A n \in Averaged : averaging'[n] # Nothing => averaging'[n] = averaging[n]
    BY <1>12, <1>t, CalculationEnds DEF Average, history
  <2>2. QED BY <1>1, <2>1
<1>13. ASSUME NEW m \in Averaged, MakeList(m), stored PROVE Goal
  <2>1. /\ UNCHANGED <<stored, month, edit, pushed, risked, older>> /\ averaging[m] = NoList
        /\ today' = [today EXCEPT ![EmptiedBy(m)] = {}]
        /\ discarded' = IF m = Cpu THEN discarded \cup today[Memory] ELSE discarded
    BY <1>13 DEF MakeList
  <2>2. /\ \A n \in Averaged : averaging'[n] # Nothing => averaging'[n] = averaging[n]
    BY <1>13, <1>t, CalculationEnds DEF MakeList
  <2>3. \A n : ToKeep(n)' \subseteq ToKeep(n)
    BY <2>1 DEF ToKeep
  <2>4. \A n \in Averaged : averaging'[n] # Nothing => DayOf(n)' = DayOf(n)
    BY <2>2 DEF DayOf
  <2>5. ReadAll'
    BY <1>13, <1>o, <2>1, <2>2, <2>3, <2>4 DEF ReadAll
  <2>6. ASSUME NEW n \in Metrics PROVE ToKeep(n)' \subseteq today'[n] \cup In(month'[n])
    <3>1. ToKeep(n) \subseteq today[n] \cup In(month[n])
      BY <1>13, <1>k
    <3>2. CASE n # EmptiedBy(m)
      BY <1>t, <2>1, <2>3, <3>1, <3>2
    <3>3. CASE n = EmptiedBy(m) /\ m = Cpu
      <4>1. ToKeep(n)' \subseteq ToKeep(n) \ today[n]
        BY <2>1, <3>3 DEF ToKeep, EmptiedBy
      <4>2. QED BY <2>1, <3>1, <4>1
    <3>4. CASE n = EmptiedBy(m) /\ m # Cpu
      <4>1. n = m /\ DayOf(m) = {} /\ averaging[m] # Nothing
        BY <1>t, <2>1, <3>4, StatisticsAre DEF EmptiedBy, DayOf
      <4>2. ToKeep(m) \subseteq In(month[m])
        BY <1>13, <1>o, <4>1 DEF ReadAll
      <4>3. QED BY <2>1, <2>3, <4>1, <4>2
    <3>5. QED BY <3>2, <3>3, <3>4
  <2>7. discarded' \subseteq Of(Temperature) \cup (IF Cpu \in older THEN Of(Memory) ELSE {})
    <3>1. m = Cpu => Cpu \in older
      BY <1>t, <2>1 DEF StatisticsInv, ListsAreThere
    <3>2. today[Memory] \subseteq Of(Memory)
      BY <1>t DEF StatisticsInv, OwnSamples
    <3>3. QED BY <1>k, <2>1, <3>1, <3>2
  <2>8. QED BY <2>1, <2>5, <2>6, <2>7
<1>14. ASSUME ~stored, \/ \E m \in Averaged : Average(m) \/ MakeList(m)
                       \/ \E s \in collecting : Push(s)
                       \/ \E e \in Editors : ReplaceRouter(e)
       PROVE  Goal
  <2>1. ~stored' /\ UNCHANGED <<discarded, older>>
    BY <1>14 DEF Average, MakeList, Push, ReplaceRouter, Replaced, history
  <2>2. QED BY <1>5, <2>1
<1>15. ASSUME NEW s \in collecting, Push(s), Today(s[1]) \in nulls PROVE Goal
  <2>1. UNCHANGED <<stored, today, month, averaging, edit, pushed, risked, discarded, older>>
    BY <1>15 DEF Push
  <2>2. QED BY <1>1, <2>1
<1>16. ASSUME DeleteRouter PROVE Goal
  <2>1. ~stored' /\ UNCHANGED <<discarded, older>>
    BY <1>16 DEF DeleteRouter, history
  <2>2. QED BY <1>5, <2>1
<1>17. ASSUME \/ \E m \in Metrics : Tick(m)
              \/ \E s \in collecting : Drop(s)
              \/ DayPasses \/ UNCHANGED vars
       PROVE  Goal
  <2>1. UNCHANGED <<stored, today, month, averaging, edit, pushed, risked, discarded, older>>
    BY <1>17 DEF Tick, Drop, DayPasses, vars, document, work, history
  <2>2. QED BY <1>1, <2>1
<1> HIDE DEF Goal
<1>18. ASSUME NEW m \in Averaged, Average(m) \/ MakeList(m) PROVE Goal
  BY <1>3, <1>12, <1>13, <1>14, <1>18
<1>19. ASSUME NEW s \in collecting, Push(s) PROVE Goal
  BY <1>4, <1>14, <1>15, <1>19
<1>20. ASSUME NEW e \in Editors, ReplaceRouter(e) PROVE Goal
  BY <1>7, <1>14, <1>20
<1>21. ASSUME NEW m \in Averaged, Midnight(m) \/ Average(m) \/ MakeList(m) \/ AverageFails(m)
       PROVE  Goal
  BY <1>2, <1>9, <1>18, <1>21
<1>22. ASSUME NEW s \in collecting, Push(s) \/ Drop(s) PROVE Goal
  BY <1>17, <1>19, <1>22
<1>23. ASSUME NEW e \in Editors, ReadRouter(e) \/ ReplaceRouter(e) \/ UpdateFails(e) PROVE Goal
  BY <1>6, <1>8, <1>20, <1>23
<1>24. Goal
  BY <1>16, <1>17, <1>21, <1>22, <1>23 DEF Next
<1>25. QED BY <1>24 DEF Goal

-----------------------------------------------------------------------------
(* The theorems *)

\* The invariant is inductive.
LEMMA StatisticsInvariant == Spec => []StatisticsInv
<1>1. StatisticsInv /\ [Next]_vars => StatisticsInv'
  BY TypesKept, FreshKept, OwnKept, ListsKept, OnceKept, NoneLost DEF StatisticsInv
<1>2. QED BY InitStatistics, <1>1, PTL DEF Spec

\* For all metrics, samples and edits the router's statistics are well typed.
THEOREM StatisticsTypes == Spec => []TypeOK
<1>1. StatisticsInv => TypeOK
  BY DEF StatisticsInv
<1>2. QED BY StatisticsInvariant, <1>1, PTL

\* For all metrics, samples and edits no sample is counted in two averages, or in one
\* and once more at the next midnight.
THEOREM NeverTwice == Spec => []CountedOnce
<1>1. StatisticsInv => CountedOnce
  BY DEF StatisticsInv
<1>2. QED BY StatisticsInvariant, <1>1, PTL

\* For all metrics, samples and edits a sample of a router that exists is lost only if
\* it was stored while somebody had read its list and not written it back, if it is of the
\* temperature, which every edit takes away, or of the memory in a document that is older
\* than the list of the CPU.
THEOREM LossesOverlap == Spec => []LostOnlyBetween
<1>1. StatisticsInv => LostOnlyBetween
  BY DEF StatisticsInv
<1>2. QED BY StatisticsInvariant, <1>1, PTL

-----------------------------------------------------------------------------
(* The session and the tabs of the browser *)

\* What the site does is what the session does, or leaves it alone.
LEMMA SessionBehaves == SiteSpec => Sessions!Spec
<1>1. SiteInit => Sessions!Init
  BY DEF SiteInit
<1>2. [SiteNext]_siteVars => [Sessions!Next]_sessionVars
  BY DEF SiteNext, siteVars, sessionVars
<1>3. sessionVars = Sessions!vars
  BY DEF sessionVars, Sessions!vars
<1>4. [SiteNext]_siteVars => [Sessions!Next]_Sessions!vars
  BY <1>2 DEF sessionVars, Sessions!vars
<1>5. QED BY <1>1, <1>4, PTL DEF SiteSpec, Sessions!Spec

\* The paths a tab may show.
Paths == Sessions!LayoutPaths \cup {"/login", "/dashboard", None}
TabStates == [path : Paths, guard : {"none", "checking", "in", "out"}, user : Users \cup {None},
              asOf : Nat, sending : Users \cup {None}]

\* A guard has answered for a page of its own kind, and a menu that was rendered after the
\* last login has read the user who is stored.
RightTab(tt) ==
  /\ tt \in TabStates
  /\ tt.asOf <= Len(logins)
  /\ tt.asOf = Len(logins) => tt.user = storage.user
  /\ tt.guard = "in" => tt.path # "/login"
  /\ tt.guard = "out" => tt.path = "/login"

\* The token that is stored was given to the user who is stored with it.
SessionInv ==
  /\ logins \in Seq(Users) /\ tab \in [Tabs -> TabStates]
  /\ storage \in [token : 0..Len(logins), user : Users \cup {None}]
  /\ storage.token # 0 => storage.user = logins[storage.token]
  /\ \A t \in Tabs : RightTab(tab[t])

\* A path that is navigated to has a route, and only the login's own area is the login's.
LEMMA RoutesAndAreas ==
  ASSUME NEW p
  PROVE  /\ Sessions!Route(p) \in Paths
         /\ Sessions!Area(p) = "/login" <=> p = "/login"
         /\ Sessions!Route(p) = "/login" <=> p = "/login"
BY DEF Sessions!Route, Sessions!Area, Paths, Sessions!LayoutPaths, Sessions!RouterTabs

\* A tab that navigates keeps its guard's answer only within the guard's own pages.
LEMMA AtKeeps ==
  ASSUME SessionInv, NEW t \in Tabs, NEW p
  PROVE  RightTab(Sessions!At(t, p))
<1>1. /\ tab[t] \in TabStates /\ storage.user \in Users \cup {None} /\ Len(logins) \in Nat
      /\ tab[t].guard = "in" => tab[t].path # "/login"
      /\ tab[t].guard = "out" => tab[t].path = "/login"
  BY DEF SessionInv, RightTab
<1> DEFINE g == IF Sessions!Area(p) = Sessions!Area(tab[t].path)
                THEN tab[t].guard ELSE "checking"
<1>2. Sessions!At(t, p) = [tab[t] EXCEPT !.path = Sessions!Route(p), !.guard = g,
                                         !.user = storage.user, !.asOf = Len(logins)]
  BY DEF Sessions!At
<1>3. /\ g \in {"none", "checking", "in", "out"}
      /\ g = "in" => Sessions!Route(p) # "/login"
      /\ g = "out" => Sessions!Route(p) = "/login"
  BY <1>1, RoutesAndAreas DEF TabStates
<1>4. Sessions!Route(p) \in Paths
  BY RoutesAndAreas
<1> HIDE DEF g
<1> DEFINE tt == Sessions!At(t, p)
<1>5. /\ tt \in TabStates /\ tt.asOf = Len(logins) /\ tt.user = storage.user
      /\ tt.guard = g /\ tt.path = Sessions!Route(p)
  BY <1>1, <1>2, <1>3, <1>4 DEF TabStates
<1> HIDE DEF tt
<1>6. RightTab(tt)
  BY <1>1, <1>3, <1>5 DEF RightTab
<1>7. QED BY <1>6 DEF tt

\* One tab changes and nobody logs in: the new state of that tab is what matters.
LEMMA OneTab ==
  ASSUME SessionInv, NEW t \in Tabs, NEW tt, RightTab(tt), tab' = [tab EXCEPT ![t] = tt],
         logins' = logins, storage' = storage \/ storage' = [storage EXCEPT !.token = 0]
  PROVE  SessionInv'
<1>1. /\ storage'.token \in {0, storage.token} /\ storage'.user = storage.user
      /\ storage' \in [token : 0..Len(logins'), user : Users \cup {None}]
  BY DEF SessionInv
<1>2. storage'.token # 0 => storage'.user = logins'[storage'.token]
  BY <1>1 DEF SessionInv
<1>3. tab' \in [Tabs -> TabStates]
  BY DEF SessionInv, RightTab
<1>4. \A u \in Tabs : RightTab(tab'[u])
  BY DEF SessionInv
<1>6. \A u \in Tabs : RightTab(tab[u])'
  BY <1>1, <1>4 DEF RightTab
<1>7. QED BY <1>1, <1>2, <1>3, <1>6 DEF SessionInv

\* The session begins without a token, and every menu has yet to be rendered.
LEMMA SessionBegins == Sessions!Init => SessionInv
<1>1. Sessions!ClosedTab \in TabStates
  BY DEF Sessions!ClosedTab, TabStates, Paths
<1>2. QED BY <1>1 DEF Sessions!Init, SessionInv, RightTab, Sessions!ClosedTab, Sessions!NoToken

\* Whatever a tab does, the token, the stored user and the menus stay together.
LEMMA SessionKept == SessionInv /\ [Sessions!Next]_Sessions!vars => SessionInv'
<1> SUFFICES ASSUME SessionInv, [Sessions!Next]_Sessions!vars PROVE SessionInv'
  OBVIOUS
<1>i. /\ logins \in Seq(Users) /\ tab \in [Tabs -> TabStates] /\ Len(logins) \in Nat
      /\ storage \in [token : 0..Len(logins), user : Users \cup {None}]
      /\ \A t \in Tabs : RightTab(tab[t])
  BY DEF SessionInv
<1>1. ASSUME NEW t \in Tabs, NEW p, Sessions!Visit(t, p) PROVE SessionInv'
  <2> DEFINE closed == Sessions!ClosedTab
             tt == [closed EXCEPT !.path = Sessions!Route(p), !.guard = "checking",
                                  !.user = storage.user, !.asOf = Len(logins)]
  <2>1. closed \in TabStates
    BY DEF Sessions!ClosedTab, TabStates, Paths
  <2>2. tab' = [tab EXCEPT ![t] = tt] /\ UNCHANGED <<storage, logins>>
    BY <1>1 DEF Sessions!Visit
  <2> HIDE DEF closed
  <2>3. Sessions!Route(p) \in Paths
    BY RoutesAndAreas
  <2>4. /\ tt \in TabStates /\ tt.asOf = Len(logins) /\ tt.user = storage.user
        /\ tt.guard = "checking"
    BY <1>i, <2>1, <2>3 DEF TabStates
  <2> HIDE DEF tt
  <2>5. RightTab(tt)
    BY <1>i, <2>4 DEF RightTab
  <2>6. QED BY <2>2, <2>5, OneTab
<1>2. ASSUME NEW t \in Tabs, NEW p, tab' = [tab EXCEPT ![t] = Sessions!At(t, p)],
             logins' = logins, storage' = storage \/ storage' = [storage EXCEPT !.token = 0]
      PROVE  SessionInv'
  BY <1>2, AtKeeps, OneTab
<1>3. ASSUME NEW t \in Tabs, NEW p, Sessions!Back(t, p) PROVE SessionInv'
  BY <1>2, <1>3 DEF Sessions!Back
<1>4. ASSUME NEW t \in Tabs, NEW link, Sessions!Follow(t, link) PROVE SessionInv'
  BY <1>2, <1>4 DEF Sessions!Follow
<1>5. ASSUME NEW t \in Tabs, Sessions!Logout(t) PROVE SessionInv'
  BY <1>2, <1>5 DEF Sessions!Logout, Sessions!NoToken
<1>6. ASSUME NEW t \in Tabs, NEW g \in {"in", "out"},
             tab' = [tab EXCEPT ![t] = [tab[t] EXCEPT !.guard = g]],
             UNCHANGED <<storage, logins>>, g = "out" <=> tab[t].path = "/login"
      PROVE  SessionInv'
  <2> DEFINE tt == [tab[t] EXCEPT !.guard = g]
  <2>1. RightTab(tt)
    BY <1>6, <1>i DEF TabStates, RightTab
  <2>2. tab' = [tab EXCEPT ![t] = tt]
    BY <1>6
  <2> HIDE DEF tt
  <2>3. QED BY <1>6, <2>1, <2>2, OneTab
<1>7. ASSUME NEW t \in Tabs, Sessions!Check(t) PROVE SessionInv'
  <2>1. UNCHANGED <<storage, logins>>
    BY <1>7 DEF Sessions!Check
  <2>2. \/ tab' = [tab EXCEPT ![t] = [tab[t] EXCEPT !.guard = "out"]] /\ tab[t].path = "/login"
        \/ tab' = [tab EXCEPT ![t] = [tab[t] EXCEPT !.guard = "in"]] /\ tab[t].path # "/login"
        \/ tab' = [tab EXCEPT ![t] = Sessions!At(t, "/dashboard")]
        \/ tab' = [tab EXCEPT ![t] = Sessions!At(t, "/login")]
    BY <1>7 DEF Sessions!Check
  <2>3. QED BY <1>2, <1>6, <2>1, <2>2
<1>8. ASSUME NEW t \in Tabs, NEW u \in Users \cup {None}, UNCHANGED <<storage, logins>>,
             tab' = [tab EXCEPT ![t].sending = u]
      PROVE  SessionInv'
  <2> DEFINE tt == [tab[t] EXCEPT !.sending = u]
  <2>1. RightTab(tt)
    BY <1>i DEF TabStates, RightTab
  <2>2. tab' = [tab EXCEPT ![t] = tt]
    BY <1>8
  <2> HIDE DEF tt
  <2>3. QED BY <1>8, <2>1, <2>2, OneTab
<1>9. ASSUME NEW t \in Tabs, Sessions!Accepted(t) PROVE SessionInv'
  <2> DEFINE u == tab[t].sending
             a == Sessions!At(t, "/dashboard")
             tt == [a EXCEPT !.sending = None, !.user = u, !.asOf = Len(logins) + 1]
  <2>1. u \in Users
    BY <1>9, <1>i DEF Sessions!Accepted, TabStates
  <2>2. /\ logins' = Append(logins, u) /\ tab' = [tab EXCEPT ![t] = tt]
        /\ storage' = [storage EXCEPT !.token = Len(logins) + 1, !.user = u]
    BY <1>9 DEF Sessions!Accepted
  <2>3. RightTab(a)
    BY AtKeeps
  <2> HIDE DEF u, a
  <2>4. /\ logins' \in Seq(Users) /\ Len(logins') = Len(logins) + 1
        /\ logins'[Len(logins) + 1] = u
    BY <1>i, <2>1, <2>2
  <2>5. storage'.token = Len(logins) + 1 /\ storage'.user = u
    BY <1>i, <2>2
  <2>6. storage'.token \in 0..Len(logins')
    BY <1>i, <2>4, <2>5
  <2>7. storage' \in [token : 0..Len(logins'), user : Users \cup {None}]
    BY <1>i, <2>1, <2>2, <2>5, <2>6
  <2>a. a \in TabStates /\ Len(logins) + 1 \in Nat
    BY <1>i, <2>3 DEF RightTab
  <2>8. /\ tt \in TabStates /\ tt.asOf = Len(logins) + 1 /\ tt.user = u
        /\ tt.guard = a.guard /\ tt.path = a.path
    BY <2>1, <2>a DEF TabStates
  <2>9. tab' \in [Tabs -> TabStates] /\ \A v \in Tabs : tab'[v] = IF v = t THEN tt ELSE tab[v]
    BY <1>i, <2>2, <2>8
  <2> HIDE DEF tt
  <2>10. RightTab(tab[t])'
    BY <1>i, <2>3, <2>4, <2>5, <2>8, <2>9 DEF RightTab
  <2>11. ASSUME NEW v \in Tabs, v # t PROVE RightTab(tab[v])'
    <3>1. tab'[v] = tab[v] /\ tab[v].asOf \in Nat /\ RightTab(tab[v])
      BY <1>i, <2>9, <2>11 DEF TabStates
    <3>2. QED BY <1>i, <2>4, <3>1 DEF RightTab
  <2>12. QED BY <2>4, <2>5, <2>7, <2>9, <2>10, <2>11 DEF SessionInv
<1>10. CASE UNCHANGED Sessions!vars
  BY <1>10 DEF Sessions!vars, SessionInv, RightTab
<1>11. QED
  BY <1>1, <1>3, <1>4, <1>5, <1>7, <1>8, <1>9, <1>10
     DEF Sessions!Next, Sessions!Asked, Sessions!Submit, Sessions!Rejected

\* For any number of tabs, users and logins a guard's answer is shown for its own kind of
\* page, and the menu names the user whose token is used unless another tab has logged in.
THEOREM SessionsAgree == SiteSpec => []SessionIsRight
<1>1. SessionInv => SessionIsRight
  BY DEF SessionInv, RightTab, SessionIsRight, Sessions!GuardsAnswerForTheirPage,
         Sessions!MenuNamesTheUser, Sessions!NoToken
<1>2. Sessions!Spec => []SessionInv
  BY SessionBegins, SessionKept, PTL DEF Sessions!Spec
<1>3. QED BY SessionBehaves, <1>1, <1>2, PTL

-----------------------------------------------------------------------------
(* The form of a device *)

\* What the site does is what the form does, or leaves it alone.
LEMMA FormBehaves == SiteSpec => Form!Spec
<1>1. SiteInit => Form!Init
  BY DEF SiteInit
<1>2. [SiteNext]_siteVars => [Form!Next]_Form!vars
  BY DEF SiteNext, siteVars, formVars, Form!vars
<1>3. QED BY <1>1, <1>2, PTL DEF SiteSpec, Form!Spec

\* Drafts, and those with nothing in them of another device than d; without a device, None.
Drafts == [name : Names \cup {Blank}, needed : Form!Origins, rest : Form!Origins]
OwnDraft(d, f) ==
  /\ f \in Drafts
  /\ f.needed \in {Default, Typed} \cup ({d} \cap Ids)
  /\ f.rest \in {Default, Typed} \cup ({d} \cap Ids)

OwnRow(r) == r.id \in Ids \cup {None} /\ OwnDraft(r.id, r.data)

Saves == [what : {"create", "edit"}, id : Ids \cup {None}, form : Drafts,
          state : {"sent", "checked", "refused", "saved", "done"}]

\* A save that is not answered yet is of its own device, or of none if it creates one, and has
\* what the form demands.
OwnSave(s) ==
  s.state # "done" => /\ OwnDraft(s.id, s.form) /\ s.form.needed # Default
                      /\ s.what = "create" => s.id = None

\* No draft, row or save has anything of another device, and the devices have different names.
FormInv ==
  /\ formServer \in [Ids -> Drafts \cup {None}]
  /\ Form!Present \subseteq born /\ born \subseteq Ids
  /\ \A d \in Ids : OwnRow(rows[d])
  /\ modal \in [visible : BOOLEAN, row : {modal.row}] /\ modal.row.id \in Ids \cup {None}
  /\ OwnDraft(modal.row.id, form)
  /\ saves \in Seq(Saves)
  /\ \A i \in DOMAIN saves : OwnSave(saves[i])
  /\ Form!NoCrossover /\ Form!NamesUnique

\* The form that is empty and the rows the server's devices make are nobody else's.
LEMMA DefaultIsOwn == \A d : OwnDraft(d, Form!DefaultForm)
BY DEF OwnDraft, Drafts, Form!DefaultForm, Form!Origins

\* No row, and the modal that is closed, have nothing of any device.
LEMMA NoRowIsOwn == OwnRow(Form!NoRow) /\ Form!NoRow.id = None /\ Form!Closed.row = Form!NoRow
BY DefaultIsOwn DEF OwnRow, Form!NoRow, Form!Closed

\* The rows of a load are each of its own device.
LEMMA LoadedIsOwn ==
  ASSUME formServer \in [Ids -> Drafts \cup {None}], Form!NoCrossover, NEW n, NEW d \in Ids
  PROVE  OwnRow(Form!Loaded(n)[d])
<1>1. CASE formServer[d] = None
  BY <1>1, NoRowIsOwn DEF Form!Loaded
<1>2. CASE formServer[d] # None
  <2>1. d \in Form!Present /\ formServer[d] \in Drafts
    BY <1>2 DEF Form!Present
  <2>2. OwnDraft(d, formServer[d])
    BY <2>1 DEF Form!NoCrossover, OwnDraft
  <2>3. Form!Loaded(n)[d] = [id |-> d, load |-> n, data |-> formServer[d]]
    BY <1>2 DEF Form!Loaded
  <2>4. QED BY <2>2, <2>3 DEF OwnRow
<1>3. QED BY <1>1, <1>2

\* A row that is opened fills the form with what is its own, or finds it there.
LEMMA FilledIsOwn ==
  ASSUME NEW r, OwnRow(r), OwnDraft(modal.row.id, form)
  PROVE  OwnDraft(r.id, Form!Filled(r))
BY DEF Form!Filled, OwnRow

\* A device that is written gets what is its own and a name no other has.
LEMMA WrittenIsOwn ==
  ASSUME FormInv, NEW d \in Ids, NEW f, OwnDraft(d, f), f.needed # Default,
         ~Form!Taken(f.name, d), formServer' = [formServer EXCEPT ![d] = f]
  PROVE  /\ formServer' \in [Ids -> Drafts \cup {None}]
         /\ Form!NoCrossover' /\ Form!NamesUnique'
<1>1. formServer \in [Ids -> Drafts \cup {None}] /\ Form!NoCrossover /\ Form!NamesUnique
      /\ f \in Drafts
  BY DEF FormInv, OwnDraft
<1>2. formServer' \in [Ids -> Drafts \cup {None}]
      /\ \A e \in Ids : formServer'[e] = IF e = d THEN f ELSE formServer[e]
  BY <1>1
<1>3. Form!NoCrossover'
  BY <1>1, <1>2 DEF Form!NoCrossover, Form!Present, OwnDraft
<1>4. Form!NamesUnique'
  BY <1>1, <1>2 DEF Form!NamesUnique, Form!Present, Form!Taken
<1>5. QED BY <1>2, <1>3, <1>4

\* A save that goes on to another state is still its device's.
LEMMA SavesGoOn ==
  ASSUME FormInv, NEW i \in DOMAIN saves,
         NEW state \in {"sent", "checked", "refused", "saved", "done"}, saves[i].state # "done",
         saves' = [saves EXCEPT ![i].state = state]
  PROVE  saves' \in Seq(Saves) /\ \A j \in DOMAIN saves' : OwnSave(saves'[j])
<1>1. saves \in Seq(Saves) /\ saves[i] \in Saves /\ \A j \in DOMAIN saves : OwnSave(saves[j])
  BY DEF FormInv
<1> DEFINE s == [saves[i] EXCEPT !.state = state]
<1>2. s \in Saves /\ OwnSave(s)
  BY <1>1 DEF Saves, OwnSave
<1>3. saves' = [saves EXCEPT ![i] = s]
  OBVIOUS
<1> HIDE DEF s
<1>4. saves' \in Seq(Saves) /\ DOMAIN saves' = DOMAIN saves
      /\ \A j \in DOMAIN saves : saves'[j] = IF j = i THEN s ELSE saves[j]
  BY <1>1, <1>2, <1>3
<1>5. QED BY <1>1, <1>2, <1>4

\* A save that is answered keeps nothing of its draft.
LEMMA SavesEnd ==
  ASSUME FormInv, NEW i \in DOMAIN saves, saves' = Form!Settled(i)
  PROVE  /\ saves' \in Seq(Saves) /\ \A j \in DOMAIN saves' : OwnSave(saves'[j])
         /\ saves'[i].state = "done"
<1>1. saves \in Seq(Saves) /\ saves[i] \in Saves /\ \A j \in DOMAIN saves : OwnSave(saves[j])
  BY DEF FormInv
<1> DEFINE s == [saves[i] EXCEPT !.state = "done", !.form = Form!DefaultForm]
<1>2. Form!DefaultForm \in Drafts
  BY DefaultIsOwn DEF OwnDraft
<1>3. s \in Saves /\ OwnSave(s) /\ s.state = "done"
  BY <1>1, <1>2 DEF Saves, OwnSave
<1>4. saves' = [saves EXCEPT ![i] = s]
  BY <1>1 DEF Form!Settled
<1> HIDE DEF s
<1>5. saves' \in Seq(Saves) /\ DOMAIN saves' = DOMAIN saves
      /\ \A j \in DOMAIN saves : saves'[j] = IF j = i THEN s ELSE saves[j]
  BY <1>1, <1>3, <1>4
<1>6. QED BY <1>1, <1>3, <1>5

\* The form begins closed and empty, over the rows of the devices there are at first.
LEMMA FormBegins == Form!Init => FormInv
<1> SUFFICES ASSUME Form!Init PROVE FormInv
  OBVIOUS
<1>1. Existing \subseteq Ids
  BY PartsAssumption DEF Form!FormAssumption
<1>2. PICK name \in [Existing -> Names] :
        /\ \A d, e \in Existing : name[d] = name[e] => d = e
        /\ formServer = [d \in Ids |-> IF d \in Existing
                                       THEN [name |-> name[d], needed |-> d, rest |-> d] ELSE None]
  BY DEF Form!Init, Form!FirstServers
<1>3. formServer \in [Ids -> Drafts \cup {None}]
  BY <1>1, <1>2 DEF Drafts, Form!Origins
<1>4. Form!Present \subseteq Existing
  BY <1>2 DEF Form!Present
<1>5. Form!NoCrossover
  BY <1>1, <1>2, <1>4 DEF Form!NoCrossover
<1>6. Form!NamesUnique
  <2>1. \A d \in Form!Present : d \in Existing /\ d \in Ids /\ formServer[d].name = name[d]
    BY <1>1, <1>2, <1>4
  <2>2. QED BY <1>2, <2>1 DEF Form!NamesUnique
<1>7. \A d \in Ids : OwnRow(rows[d])
  BY <1>3, <1>5, LoadedIsOwn DEF Form!Init
<1>8. modal = [visible |-> FALSE, row |-> Form!NoRow]
  BY DEF Form!Init, Form!Closed
<1>9. modal \in [visible : BOOLEAN, row : {modal.row}] /\ modal.row.id = None
  BY <1>8, NoRowIsOwn
<1>10. OwnDraft(modal.row.id, form) /\ born = Existing /\ saves = <<>>
  BY DefaultIsOwn DEF Form!Init
<1>11. QED BY <1>1, <1>3, <1>4, <1>5, <1>6, <1>7, <1>9, <1>10 DEF FormInv

\* Steps that change the modal or its form only.
LEMMA FormStays ==
  ASSUME FormInv, UNCHANGED <<formServer, born, rows, saves>>,
         modal' \in [visible : BOOLEAN, row : {modal'.row}], modal'.row.id \in Ids \cup {None},
         OwnDraft(modal'.row.id, form')
  PROVE  FormInv'
BY DEF FormInv, Form!NoCrossover, Form!NamesUnique, Form!Present

\* Steps of the server: one device is written, deleted or left alone.
LEMMA ServerSteps ==
  ASSUME FormInv, UNCHANGED <<rows, modal, form>>,
         saves' \in Seq(Saves), \A i \in DOMAIN saves' : OwnSave(saves'[i]),
         formServer' \in [Ids -> Drafts \cup {None}], Form!Present' \subseteq born', born' \subseteq Ids,
         Form!NoCrossover', Form!NamesUnique'
  PROVE  FormInv'
BY DEF FormInv

\* Whatever is opened, saved, refused and deleted meanwhile, everything stays its device's own.
LEMMA FormKept == FormInv /\ [Form!Next]_Form!vars => FormInv'
<1> SUFFICES ASSUME FormInv, [Form!Next]_Form!vars PROVE FormInv'
  OBVIOUS
<1>i. /\ formServer \in [Ids -> Drafts \cup {None}] /\ Form!Present \subseteq born /\ born \subseteq Ids
      /\ \A d \in Ids : OwnRow(rows[d])
      /\ modal \in [visible : BOOLEAN, row : {modal.row}] /\ modal.row.id \in Ids \cup {None}
      /\ OwnDraft(modal.row.id, form)
      /\ saves \in Seq(Saves) /\ \A i \in DOMAIN saves : OwnSave(saves[i])
      /\ Form!NoCrossover /\ Form!NamesUnique
  BY DEF FormInv
<1>n. None \notin Ids
  BY PartsAssumption DEF Form!FormAssumption
<1>s. ASSUME UNCHANGED formServer
      PROVE  Form!NoCrossover' /\ Form!NamesUnique' /\ Form!Present' = Form!Present
  BY <1>s, <1>i DEF Form!NoCrossover, Form!NamesUnique, Form!Present
<1>l. ASSUME UNCHANGED <<formServer, born, saves>>, NEW n, rows' = Form!Loaded(n) \/ rows' = rows,
             modal' = modal, form' = form
      PROVE  FormInv'
  <2>1. \A d \in Ids : OwnRow(rows'[d])
    BY <1>l, <1>i, LoadedIsOwn
  <2>2. QED BY <1>l, <1>i, <1>s, <2>1 DEF FormInv
<1>1. CASE Form!Reload
  BY <1>1, <1>l DEF Form!Reload
<1>2. CASE Form!OpenCreate
  <2>1. /\ modal' = [visible |-> TRUE, row |-> Form!NoRow] /\ form' = Form!Filled(Form!NoRow)
        /\ UNCHANGED <<formServer, born, rows, saves>>
    BY <1>2 DEF Form!OpenCreate
  <2>2. OwnDraft(Form!NoRow.id, Form!Filled(Form!NoRow))
    BY <1>i, NoRowIsOwn, FilledIsOwn
  <2>3. modal'.row = Form!NoRow /\ modal' \in [visible : BOOLEAN, row : {modal'.row}]
    BY <2>1
  <2>4. QED BY <2>1, <2>2, <2>3, NoRowIsOwn, FormStays
<1>3. ASSUME NEW d \in Ids, Form!OpenEdit(d) PROVE FormInv'
  <2>1. /\ modal' = [visible |-> TRUE, row |-> rows[d]] /\ form' = Form!Filled(rows[d])
        /\ UNCHANGED <<formServer, born, rows, saves>>
    BY <1>3 DEF Form!OpenEdit
  <2>2. OwnRow(rows[d])
    BY <1>i
  <2>3. OwnDraft(rows[d].id, Form!Filled(rows[d])) /\ rows[d].id \in Ids \cup {None}
    BY <1>i, <2>2, FilledIsOwn DEF OwnRow
  <2>4. modal'.row = rows[d] /\ modal' \in [visible : BOOLEAN, row : {modal'.row}]
    BY <2>1
  <2>5. QED BY <2>1, <2>3, <2>4, FormStays
<1>4. CASE Form!Type
  <2>1. UNCHANGED <<formServer, born, rows, saves, modal>>
    BY <1>4 DEF Form!Type
  <2>2. OwnDraft(modal.row.id, form')
    BY <1>4, <1>i DEF Form!Type, OwnDraft, Drafts, Form!Origins
  <2>3. QED BY <1>i, <2>1, <2>2, FormStays
<1>5. CASE Form!Close
  <2>1. UNCHANGED <<formServer, born, rows, saves, form>> /\ modal' = [modal EXCEPT !.visible = FALSE]
    BY <1>5 DEF Form!Close
  <2>2. modal'.row = modal.row /\ modal' \in [visible : BOOLEAN, row : {modal'.row}]
    BY <1>i, <2>1
  <2>3. QED BY <1>i, <2>1, <2>2, FormStays
<1>6. CASE Form!Save
  <2> DEFINE what == IF modal.row = Form!NoRow THEN "create" ELSE "edit"
             s == [what |-> what, id |-> modal.row.id, form |-> form, state |-> "sent"]
  <2>1. /\ saves' = Append(saves, s) /\ form.needed # Default
        /\ UNCHANGED <<formServer, born, rows, modal, form>>
    BY <1>6 DEF Form!Save, Form!Valid
  <2>2. s \in Saves
    BY <1>i DEF Saves, OwnDraft
  <2>3. OwnSave(s)
    BY <1>i, <2>1, NoRowIsOwn DEF OwnSave
  <2> HIDE DEF s
  <2>4. saves' \in Seq(Saves) /\ \A i \in DOMAIN saves' : OwnSave(saves'[i])
    BY <1>i, <2>1, <2>2, <2>3
  <2>5. QED BY <1>i, <1>s, <2>1, <2>4, ServerSteps
<1>7. CASE Form!LeaveScreen
  <2>1. /\ modal' = Form!Closed /\ form' = Form!DefaultForm
        /\ rows' = [d \in Ids |-> Form!NoRow] /\ UNCHANGED <<formServer, born, saves>>
    BY <1>7 DEF Form!LeaveScreen
  <2>2. /\ modal'.row.id = None /\ modal' \in [visible : BOOLEAN, row : {modal'.row}]
    BY <2>1, NoRowIsOwn DEF Form!Closed
  <2>3. OwnDraft(modal'.row.id, form') /\ \A d \in Ids : OwnRow(rows'[d])
    BY <2>1, <2>2, DefaultIsOwn, NoRowIsOwn
  <2>4. QED BY <1>i, <1>s, <2>1, <2>2, <2>3 DEF FormInv
<1>8. CASE Form!Return
  BY <1>8, <1>l DEF Form!Return
<1>9. ASSUME NEW i \in DOMAIN saves, saves[i].state # "done", Form!Refuse(i),
             UNCHANGED <<formServer, born, rows, modal, form>>
      PROVE  FormInv'
  <2>1. saves' \in Seq(Saves) /\ \A j \in DOMAIN saves' : OwnSave(saves'[j])
    BY <1>9, SavesGoOn DEF Form!Refuse
  <2>2. QED BY <1>9, <1>i, <1>s, <2>1, ServerSteps
<1>10. ASSUME NEW i \in DOMAIN saves, Form!Check(i) PROVE FormInv'
  <2>1. UNCHANGED <<formServer, born, rows, modal, form>> /\ saves[i].state # "done"
    BY <1>10 DEF Form!Check
  <2>2. CASE saves' = [saves EXCEPT ![i].state = "checked"]
    <3>1. saves' \in Seq(Saves) /\ \A j \in DOMAIN saves' : OwnSave(saves'[j])
      BY <2>1, <2>2, SavesGoOn
    <3>2. QED BY <1>i, <1>s, <2>1, <3>1, ServerSteps
  <2>3. QED BY <1>9, <1>10, <2>1, <2>2 DEF Form!Check
<1>11. ASSUME NEW i \in DOMAIN saves, Form!Insert(i) PROVE FormInv'
  <2>1. UNCHANGED <<rows, modal, form>> /\ saves[i].state = "checked" /\ saves[i].what = "create"
    BY <1>11 DEF Form!Insert
  <2>2. CASE Form!Taken(saves[i].form.name, None)
    BY <1>9, <1>11, <2>1, <2>2 DEF Form!Insert
  <2>3. CASE ~Form!Taken(saves[i].form.name, None)
    <3>1. PICK d \in Ids \ born : /\ formServer' = [formServer EXCEPT ![d] = saves[i].form]
                                  /\ born' = born \cup {d}
                                  /\ saves' = [saves EXCEPT ![i].state = "saved"]
      BY <1>11, <2>3 DEF Form!Insert
    <3>2. OwnDraft(None, saves[i].form) /\ saves[i].form.needed # Default
      BY <1>i, <2>1 DEF OwnSave
    <3>3. OwnDraft(d, saves[i].form)
      BY <1>n, <3>2 DEF OwnDraft
    <3>4. ~Form!Taken(saves[i].form.name, d)
      BY <1>n, <2>3 DEF Form!Taken, Form!Present
    <3>5. /\ formServer' \in [Ids -> Drafts \cup {None}]
          /\ Form!NoCrossover' /\ Form!NamesUnique'
      BY <3>1, <3>2, <3>3, <3>4, WrittenIsOwn
    <3>6. Form!Present' \subseteq born' /\ born' \subseteq Ids
      BY <1>i, <3>1 DEF Form!Present
    <3>7. saves' \in Seq(Saves) /\ \A j \in DOMAIN saves' : OwnSave(saves'[j])
      BY <2>1, <3>1, SavesGoOn
    <3>8. QED BY <2>1, <3>5, <3>6, <3>7, ServerSteps
  <2>4. QED BY <2>2, <2>3
<1>12. ASSUME NEW i \in DOMAIN saves, Form!Replace(i) PROVE FormInv'
  <2> DEFINE d == saves[i].id
  <2>1. UNCHANGED <<born, rows, modal, form>> /\ saves[i].state = "checked"
    BY <1>12 DEF Form!Replace
  <2>2. CASE d \in Form!Present /\ Form!Taken(saves[i].form.name, d)
    BY <1>9, <1>12, <2>1, <2>2 DEF Form!Replace
  <2>3. CASE ~(d \in Form!Present /\ Form!Taken(saves[i].form.name, d))
    <3>1. /\ formServer' = IF d \in Form!Present THEN [formServer EXCEPT ![d] = saves[i].form]
                           ELSE formServer
          /\ saves' = [saves EXCEPT ![i].state = "saved"]
      BY <1>12, <2>3 DEF Form!Replace
    <3>2. saves' \in Seq(Saves) /\ \A j \in DOMAIN saves' : OwnSave(saves'[j])
      BY <2>1, <3>1, SavesGoOn
    <3>3. CASE d \notin Form!Present
      BY <1>i, <1>s, <2>1, <3>1, <3>2, <3>3, ServerSteps
    <3>4. CASE d \in Form!Present
      <4>1. d \in Ids /\ OwnDraft(d, saves[i].form) /\ saves[i].form.needed # Default
        BY <1>i, <2>1, <3>4 DEF OwnSave, Form!Present
      <4>2. formServer' = [formServer EXCEPT ![d] = saves[i].form]
        BY <3>1, <3>4
      <4>3. ~Form!Taken(saves[i].form.name, d)
        BY <2>3, <3>4
      <4>4. Form!Present' \subseteq born' /\ born' \subseteq Ids
        BY <1>i, <2>1, <3>4, <4>1, <4>2 DEF Form!Present
      <4> HIDE DEF d
      <4>5. /\ formServer' \in [Ids -> Drafts \cup {None}]
            /\ Form!NoCrossover' /\ Form!NamesUnique'
        BY <4>1, <4>2, <4>3, WrittenIsOwn
      <4>6. QED BY <2>1, <3>2, <4>4, <4>5, ServerSteps
    <3>5. QED BY <3>3, <3>4
  <2>4. QED BY <2>2, <2>3
<1>13. ASSUME NEW d \in Ids, Form!OthersChange(d) PROVE FormInv'
  <2>1. UNCHANGED <<born, rows, modal, form, saves>> /\ d \in Form!Present
    BY <1>13 DEF Form!OthersChange
  <2>2. CASE formServer' = [formServer EXCEPT ![d] = None]
    <3>1. /\ formServer' \in [Ids -> Drafts \cup {None}] /\ formServer'[d] = None
          /\ \A e \in Ids : formServer'[e] = IF e = d THEN None ELSE formServer[e]
      BY <1>i, <2>2
    <3>2. /\ Form!Present' \subseteq Form!Present
          /\ \A e \in Form!Present' : formServer'[e] = formServer[e]
      BY <3>1 DEF Form!Present
    <3>3. Form!NoCrossover' /\ Form!NamesUnique'
      BY <1>i, <3>2 DEF Form!NoCrossover, Form!NamesUnique
    <3>4. QED BY <1>i, <2>1, <3>1, <3>2, <3>3, ServerSteps
  <2>3. ASSUME NEW n \in Names, ~Form!Taken(n, d), formServer' = [formServer EXCEPT ![d].name = n]
        PROVE  FormInv'
    <3> DEFINE f == [formServer[d] EXCEPT !.name = n]
    <3>1. formServer[d] \in Drafts
      BY <1>i, <2>1 DEF Form!Present
    <3>2. f \in Drafts /\ f.name = n /\ f.needed = formServer[d].needed /\ f.rest = formServer[d].rest
      BY <3>1 DEF Drafts
    <3>3. formServer' = [formServer EXCEPT ![d] = f]
      BY <2>3
    <3>4. f.needed \in {d, Typed} /\ f.rest \in {d, Default, Typed}
      BY <1>i, <2>1, <3>2 DEF Form!NoCrossover
    <3> HIDE DEF f
    <3>5. /\ formServer' \in [Ids -> Drafts \cup {None}]
          /\ \A e \in Ids : formServer'[e] = IF e = d THEN f ELSE formServer[e]
      BY <1>i, <3>2, <3>3
    <3>6. Form!Present' \subseteq Form!Present
      BY <2>1, <3>5 DEF Form!Present
    <3>7. Form!NoCrossover'
      <4>1. ASSUME NEW e \in Form!Present'
            PROVE  formServer'[e].needed \in {e, Typed} /\ formServer'[e].rest \in {e, Default, Typed}
        <5>1. e \in Ids /\ e \in Form!Present
          BY <3>6 DEF Form!Present
        <5>2. CASE e = d
          BY <3>4, <3>5, <5>1, <5>2
        <5>3. CASE e # d
          BY <1>i, <3>5, <5>1, <5>3 DEF Form!NoCrossover
        <5>4. QED BY <5>2, <5>3
      <4>2. QED BY <4>1 DEF Form!NoCrossover
    <3>8. Form!NamesUnique'
      BY <1>i, <2>3, <3>2, <3>5, <3>6 DEF Form!NamesUnique, Form!Taken, Form!Present
    <3>9. QED BY <1>i, <2>1, <3>5, <3>6, <3>7, <3>8, ServerSteps
  <2>4. QED BY <1>13, <2>2, <2>3 DEF Form!OthersChange
<1>14. ASSUME NEW i \in DOMAIN saves, Form!Saved(i) PROVE FormInv'
  <2>1. /\ UNCHANGED <<formServer, born>> /\ saves' = Form!Settled(i)
        /\ rows' = IF place = "screen" THEN rows ELSE Form!Loaded(1)
        /\ \/ form' = Form!DefaultForm /\ modal' = [modal EXCEPT !.visible = FALSE]
           \/ UNCHANGED <<form, modal>>
    BY <1>14 DEF Form!Saved
  <2>2. saves' \in Seq(Saves) /\ \A j \in DOMAIN saves' : OwnSave(saves'[j])
    BY <2>1, SavesEnd
  <2>3. \A d \in Ids : OwnRow(rows'[d])
    BY <1>i, <2>1, LoadedIsOwn
  <2>4. modal' \in [visible : BOOLEAN, row : {modal'.row}] /\ modal'.row = modal.row
    BY <1>i, <2>1
  <2>5. OwnDraft(modal.row.id, form')
    BY <1>i, <2>1, DefaultIsOwn
  <2>6. QED BY <1>i, <1>s, <2>1, <2>2, <2>3, <2>4, <2>5 DEF FormInv
<1>15. ASSUME NEW i \in DOMAIN saves, Form!Refused(i) PROVE FormInv'
  <2>1. UNCHANGED <<formServer, born, rows, modal, form>> /\ saves' = Form!Settled(i)
    BY <1>15 DEF Form!Refused
  <2>2. saves' \in Seq(Saves) /\ \A j \in DOMAIN saves' : OwnSave(saves'[j])
    BY <2>1, SavesEnd
  <2>3. QED BY <1>i, <1>s, <2>1, <2>2, ServerSteps
<1>16. CASE UNCHANGED Form!vars
  BY <1>16, <1>i, <1>s DEF Form!vars, FormInv
<1>17. QED
  BY <1>1, <1>2, <1>3, <1>4, <1>5, <1>6, <1>7, <1>8, <1>10, <1>11, <1>12, <1>13, <1>14, <1>15, <1>16
     DEF Form!Next

\* A device that is deleted is written by nobody.
LEMMA DeletedStays ==
  FormInv /\ [Form!Next]_Form!vars =>
    \A d \in born : formServer[d] = None => formServer'[d] = None
<1> SUFFICES ASSUME FormInv, [Form!Next]_Form!vars, NEW d \in born, formServer[d] = None,
                    formServer' # formServer
             PROVE  formServer'[d] = None
  OBVIOUS
<1>1. formServer \in [Ids -> Drafts \cup {None}] /\ d \in Ids
  BY DEF FormInv
<1>2. PICK e : /\ e \in (Ids \ born) \cup Form!Present
               /\ formServer' = [formServer EXCEPT ![e] = formServer'[e]]
  <2>1. CASE \E i \in DOMAIN saves : Form!Insert(i) \/ Form!Replace(i)
    BY <1>1, <2>1 DEF Form!Insert, Form!Replace, Form!Present
  <2>2. CASE \E e \in Ids : Form!OthersChange(e)
    BY <1>1, <2>2 DEF Form!OthersChange, Form!Present
  <2>3. QED
    BY <2>1, <2>2 DEF Form!Next, Form!vars, Form!Reload, Form!OpenCreate, Form!Type, Form!Close,
       Form!Save, Form!LeaveScreen, Form!Return, Form!OpenEdit, Form!Check, Form!Saved, Form!Refused
<1>3. e # d
  BY <1>2 DEF Form!Present
<1>4. QED BY <1>1, <1>2, <1>3

\* A form with something in it is emptied by a save that succeeds, or by going on.
LEMMA DraftsSurvive ==
  FormInv /\ [Form!Next]_Form!vars =>
    (place' = place /\ modal'.row = modal.row /\ form' = Form!DefaultForm /\ form # Form!DefaultForm =>
      \/ modal.visible /\ modal'.visible
      \/ \E i \in DOMAIN saves : saves[i].state = "saved" /\ saves'[i].state = "done")
<1> SUFFICES ASSUME FormInv, [Form!Next]_Form!vars, place' = place, modal'.row = modal.row,
                    form' # form
             PROVE  \/ modal.visible /\ modal'.visible
                    \/ \E i \in DOMAIN saves : saves[i].state = "saved" /\ saves'[i].state = "done"
  OBVIOUS
<1>1. CASE Form!Type
  BY <1>1 DEF Form!Type
<1>2. ASSUME NEW i \in DOMAIN saves, Form!Saved(i)
      PROVE  saves[i].state = "saved" /\ saves'[i].state = "done"
  BY <1>2, SavesEnd DEF Form!Saved
<1>3. ~Form!OpenCreate
  BY DEF Form!OpenCreate, Form!Filled
<1>4. \A d \in Ids : ~Form!OpenEdit(d)
  BY DEF Form!OpenEdit, Form!Filled
<1>5. ~Form!LeaveScreen
  BY DEF Form!LeaveScreen
<1>6. QED
  BY <1>1, <1>2, <1>3, <1>4, <1>5 DEF Form!Next, Form!vars, Form!Reload, Form!Close, Form!Save,
     Form!Return, Form!Check, Form!Insert, Form!Replace, Form!OthersChange, Form!Refused

\* For any devices, names, saves, reloads and changes of others: no device gets another's
\* fields or name, none that was deleted comes back, and a draft that is refused stays.
THEOREM FormsKeep == SiteSpec => FormKeeps
<1>1. Form!Spec => []FormInv
  BY FormBegins, FormKept, PTL DEF Form!Spec
<1>2. FormInv => Form!NoCrossover /\ Form!NamesUnique
  BY DEF FormInv
<1>3. Form!Spec => [](Form!NoCrossover /\ Form!NamesUnique)
  BY <1>1, <1>2, PTL
<1>4. Form!Spec => Form!DeletedStaysDeleted
  BY <1>1, DeletedStays, PTL DEF Form!Spec, Form!DeletedStaysDeleted
<1>5. Form!Spec => Form!DraftsSurviveErrors
  BY <1>1, DraftsSurvive, PTL DEF Form!Spec, Form!DraftsSurviveErrors
<1>6. QED BY FormBehaves, <1>3, <1>4, <1>5 DEF FormKeeps

-----------------------------------------------------------------------------
(* The table *)

\* What the site does is what the table does, or leaves it alone.
LEMMA TableBehaves == SiteSpec => Table!Spec
<1>1. SiteInit => Table!Init
  BY DEF SiteInit
<1>2. [SiteNext]_siteVars => [Table!Next]_Table!vars
  BY DEF SiteNext, siteVars, tableVars, Table!vars
<1>3. QED BY <1>1, <1>2, PTL DEF SiteSpec, Table!Spec

\* The shapes of requests, of their list, of the table and of deletions.
IsRequest(r) == r = [query |-> r.query, reloadOf |-> r.reloadOf, state |-> r.state, answer |-> r.answer]
IsDeletion(r) == r = [state |-> r.state, query |-> r.query]
RequestsOf(s) == {s[i] : i \in DOMAIN s}
Requests(s) ==
  s \in Seq(RequestsOf(s)) /\ Len(s) > 0 /\ \A i \in DOMAIN s : IsRequest(s[i])
IsTable(t) == t = [rows |-> t.rows, count |-> t.count, loading |-> t.loading, error |-> t.error]
Shapes ==
  /\ Requests(loads)
  /\ IsTable(table)
  /\ deletion = [d \in Ids |-> deletion[d]] /\ \A d \in Ids : IsDeletion(deletion[d])

Newest == loads[Len(loads)]

\* Nothing is loading when nothing is on its way, and once everything is answered the table
\* shows the newest request's answer, if that came last.
QuietInv ==
  Table!OnItsWay = {} =>
    /\ Table!Deleting = {} => table.loading = FALSE
    /\ inTurn /\ table.error = None =>
         table.rows = Newest.answer.rows /\ table.count = Newest.answer.count

IsAsked == url \in Table!Queries /\ query \in Table!Queries

TableInv ==
  /\ Shapes /\ QuietInv
  /\ Table!Crashed => table.loading = FALSE
  /\ Table!UrlIsTheQuery /\ Table!NewestIsCurrent

\* The list of the requests when one is sent, and when one goes on.
LEMMA SentIsNewest ==
  ASSUME NEW s, Requests(s), NEW r, IsRequest(r)
  PROVE  /\ Requests(Append(s, r)) /\ Len(Append(s, r)) = Len(s) + 1
         /\ DOMAIN s = 1..Len(s) /\ DOMAIN Append(s, r) = 1..(Len(s) + 1)
         /\ Append(s, r)[Len(s) + 1] = r
         /\ \A i \in 1..Len(s) : Append(s, r)[i] = s[i]
<1> DEFINE S == RequestsOf(s) \cup {r}
           a == Append(s, r)
<1>1. s \in Seq(S) /\ r \in S /\ Len(s) \in Nat /\ DOMAIN s = 1..Len(s)
  BY DEF Requests
<1> HIDE DEF S
<1>2. /\ a \in Seq(S) /\ Len(a) = Len(s) + 1 /\ DOMAIN a = 1..(Len(s) + 1)
      /\ a[Len(s) + 1] = r /\ \A i \in 1..Len(s) : a[i] = s[i]
  BY <1>1
<1> HIDE DEF a
<1>3. a \in Seq(RequestsOf(a))
  <2>1. Len(a) \in Nat /\ DOMAIN a = 1..Len(a) /\ a = [i \in 1..Len(a) |-> a[i]]
    BY <1>1, <1>2
  <2>2. \A i \in 1..Len(a) : a[i] \in RequestsOf(a)
    BY <2>1 DEF RequestsOf
  <2>3. a \in [1..Len(a) -> RequestsOf(a)]
    BY <2>1, <2>2
  <2>4. QED BY <2>1, <2>3
<1>4. \A i \in DOMAIN a : IsRequest(a[i])
  BY <1>1, <1>2 DEF Requests
<1>5. QED BY <1>1, <1>2, <1>3, <1>4 DEF Requests, a

\* A list of requests whose members are changed is a list of requests.
LEMMA MappedRequests ==
  ASSUME NEW s, Requests(s), NEW f, DOMAIN f = DOMAIN s, f = [i \in DOMAIN s |-> f[i]],
         \A i \in DOMAIN s : IsRequest(f[i])
  PROVE  Requests(f) /\ Len(f) = Len(s) /\ DOMAIN f = 1..Len(s)
<1>1. Len(s) \in Nat /\ DOMAIN s = 1..Len(s) /\ Len(s) > 0
  BY DEF Requests
<1>2. f \in [1..Len(s) -> RequestsOf(f)]
  BY <1>1 DEF RequestsOf
<1>3. f \in Seq(RequestsOf(f)) /\ Len(f) = Len(s)
  BY <1>1, <1>2
<1>4. QED BY <1>1, <1>3 DEF Requests

\* Requests that are forgotten are no longer on their way; the newest stays as it is.
LEMMA RememberedKeeps ==
  ASSUME NEW s, Requests(s)
  PROVE  /\ Requests(Table!Remembered(s)) /\ Len(Table!Remembered(s)) = Len(s)
         /\ \A i \in 1..Len(s) : Table!Remembered(s)[i].state = s[i].state
<1> DEFINE f == Table!Remembered(s)
<1>1. f = [i \in DOMAIN s |-> IF s[i].state = "done" THEN Table!Past ELSE s[i]]
  BY DEF Table!Remembered
<1>2. DOMAIN s = 1..Len(s) /\ \A i \in DOMAIN s : IsRequest(s[i])
  BY DEF Requests
<1>3. IsRequest(Table!Past) /\ Table!Past.state = "done"
  BY DEF IsRequest, Table!Past
<1>4. DOMAIN f = DOMAIN s /\ f = [i \in DOMAIN s |-> f[i]]
      /\ \A i \in DOMAIN s : IsRequest(f[i]) /\ f[i].state = s[i].state
  BY <1>1, <1>2, <1>3
<1> HIDE DEF f
<1>5. Requests(f) /\ Len(f) = Len(s)
  BY <1>4, MappedRequests
<1>6. QED BY <1>2, <1>4, <1>5 DEF f

\* loadData: the new request is the newest and on its way.
LEMMA LoadSends ==
  ASSUME Requests(loads), NEW q, NEW d, Table!Load(q, d)
  PROVE  /\ Requests(loads') /\ Len(loads') \in DOMAIN loads'
         /\ Newest' = Table!Request(q, d)
         /\ Table!OnItsWay' # {}
<1> DEFINE s == Table!Remembered(loads)
           r == Table!Request(q, d)
<1>1. /\ Requests(s) /\ Len(s) = Len(loads) /\ Len(loads) \in Nat /\ DOMAIN loads = 1..Len(loads)
      /\ \A i \in 1..Len(loads) : s[i].state = loads[i].state
  BY RememberedKeeps DEF Requests
<1>2. IsRequest(r) /\ r.state = "sent"
  BY DEF IsRequest, Table!Request
<1>3. loads' = Append(s, r)
  BY DEF Table!Load
<1> HIDE DEF s, r
<1>4. /\ Requests(loads') /\ Len(loads') = Len(loads) + 1 /\ DOMAIN loads' = 1..(Len(loads) + 1)
      /\ loads'[Len(loads) + 1] = r /\ \A i \in 1..Len(loads) : loads'[i] = s[i]
  BY <1>1, <1>2, <1>3, SentIsNewest
<1>5. Newest' = r
  BY <1>4 DEF Newest
<1>6. Len(loads') \in Table!OnItsWay'
  BY <1>1, <1>2, <1>4 DEF Table!OnItsWay
<1>7. QED BY <1>1, <1>4, <1>5, <1>6 DEF r

\* Two requests are sent, one after the other: the second is the newest.
LEMMA SendsTwo ==
  ASSUME Requests(loads), NEW q, NEW d, NEW last,
         loads' = Append(Append(Table!Remembered(loads), Table!Request(q, d)), Table!Request(last, None))
  PROVE  /\ Requests(loads') /\ Newest' = Table!Request(last, None) /\ Table!OnItsWay' # {}
<1> DEFINE s == Table!Remembered(loads)
           r == Table!Request(q, d)
           x == Table!Request(last, None)
           a == Append(s, r)
<1>1. Requests(s) /\ IsRequest(r) /\ IsRequest(x) /\ x.state = "sent"
  BY RememberedKeeps DEF IsRequest, Table!Request
<1>2. loads' = Append(a, x)
  OBVIOUS
<1> HIDE DEF s, r, x
<1>3. Requests(a)
  BY <1>1, SentIsNewest
<1> HIDE DEF a
<1>4. /\ Requests(loads') /\ Len(loads') = Len(a) + 1 /\ DOMAIN loads' = 1..(Len(a) + 1)
      /\ loads'[Len(a) + 1] = x /\ Len(a) \in Nat
  BY <1>1, <1>2, <1>3, SentIsNewest DEF Requests
<1>5. Newest' = x
  BY <1>4 DEF Newest
<1>6. Len(a) + 1 \in Table!OnItsWay'
  BY <1>1, <1>4 DEF Table!OnItsWay
<1>7. QED BY <1>4, <1>5, <1>6 DEF x

\* loadData again: the newest request is of what the controls say, or it is the one that
\* was asked for.
LEMMA ReloadSends ==
  ASSUME Requests(loads), NEW q, NEW d, Table!Reload(q, d)
  PROVE  /\ Requests(loads') /\ Table!OnItsWay' # {}
         /\ \/ Newest' = Table!Request(query', None)
            \/ Newest' = Table!Request(q, d) /\ UNCHANGED <<url, query>>
         /\ Table!UrlIsTheQuery /\ UNCHANGED strayed => Table!UrlIsTheQuery'
<1> DEFINE last == [query EXCEPT !.page = Table!LastPage(table.count)]
<1>1. CASE Table!Outgrown
  <2>1. /\ query' = last /\ url' = [url EXCEPT !.page = Table!LastPage(table.count)]
        /\ loads' = Append(Append(Table!Remembered(loads), Table!Request(q, d)), Table!Request(last, None))
    BY <1>1 DEF Table!Reload
  <2>2. Table!UrlIsTheQuery /\ UNCHANGED strayed => Table!UrlIsTheQuery'
    BY <2>1 DEF Table!UrlIsTheQuery
  <2> HIDE DEF last
  <2>3. QED BY <2>1, <2>2, SendsTwo
<1>2. CASE ~Table!Outgrown
  <2>1. Table!Load(q, d) /\ UNCHANGED <<url, query>>
    BY <1>2 DEF Table!Reload
  <2>2. QED BY <2>1, LoadSends DEF Table!UrlIsTheQuery
<1>3. QED BY <1>1, <1>2

\* A request that goes on, or is forgotten, leaves the others as they are.
LEMMA GoesOn ==
  ASSUME Requests(loads), NEW i \in DOMAIN loads, NEW r, IsRequest(r),
         loads' = [loads EXCEPT ![i] = r]
  PROVE  /\ Requests(loads') /\ Len(loads') = Len(loads)
         /\ \A j \in DOMAIN loads : loads'[j] = IF j = i THEN r ELSE loads[j]
         /\ Newest' = IF i = Len(loads) THEN r ELSE Newest
<1>1. /\ Len(loads) \in Nat /\ DOMAIN loads = 1..Len(loads) /\ Len(loads) > 0
      /\ \A j \in DOMAIN loads : IsRequest(loads[j])
      /\ loads = [j \in DOMAIN loads |-> loads[j]]
  BY DEF Requests
<1>2. /\ DOMAIN loads' = DOMAIN loads
      /\ \A j \in DOMAIN loads : loads'[j] = IF j = i THEN r ELSE loads[j]
      /\ loads' = [j \in DOMAIN loads |-> loads'[j]]
  BY <1>1
<1>3. \A j \in DOMAIN loads : IsRequest(loads'[j])
  BY <1>1, <1>2
<1>4. Requests(loads') /\ Len(loads') = Len(loads)
  BY <1>2, <1>3, MappedRequests
<1>5. QED BY <1>1, <1>2, <1>4 DEF Newest

\* An answer, or a failure, that arrives: the newest keeps its query and its answer.
LEMMA SettledKeeps ==
  ASSUME Requests(loads), NEW i \in DOMAIN loads
  PROVE  LET s == Table!Settled(i)
         IN  /\ Requests(s) /\ Len(s) = Len(loads)
             /\ s[Len(loads)].query = Newest.query
             /\ s[Len(loads)].reloadOf = Newest.reloadOf
             /\ s[Len(loads)].answer = Newest.answer
             /\ \A j \in DOMAIN loads : s[j].state = IF j = i THEN "done" ELSE loads[j].state
<1> DEFINE s == Table!Settled(i)
           r == IF i = Len(loads) THEN [loads[i] EXCEPT !.state = "done"] ELSE Table!Past
<1>1. /\ Len(loads) \in Nat /\ DOMAIN loads = 1..Len(loads) /\ Len(loads) > 0
      /\ \A j \in DOMAIN loads : IsRequest(loads[j])
      /\ loads = [j \in DOMAIN loads |-> loads[j]]
  BY DEF Requests
<1>2. s = [loads EXCEPT ![i] = r]
  BY DEF Table!Settled
<1>3. /\ IsRequest(r) /\ r.state = "done"
      /\ i = Len(loads) => r.query = Newest.query /\ r.reloadOf = Newest.reloadOf /\ r.answer = Newest.answer
  <2>1. CASE i # Len(loads)
    BY <2>1 DEF IsRequest, Table!Past
  <2>2. CASE i = Len(loads)
    <3>1. IsRequest(loads[i]) /\ loads[i] = Newest
      BY <1>1, <2>2 DEF Newest
    <3>2. r = [loads[i] EXCEPT !.state = "done"]
      BY <2>2
    <3>3. QED BY <3>1, <3>2 DEF IsRequest
  <2>3. QED BY <2>1, <2>2
<1> HIDE DEF r
<1>4. /\ DOMAIN s = DOMAIN loads
      /\ \A j \in DOMAIN loads : s[j] = IF j = i THEN r ELSE loads[j]
      /\ s = [j \in DOMAIN loads |-> s[j]]
  BY <1>1, <1>2
<1>5. \A j \in DOMAIN loads : IsRequest(s[j])
  BY <1>1, <1>3, <1>4
<1> HIDE DEF s
<1>6. Requests(s) /\ Len(s) = Len(loads)
  BY <1>4, <1>5, MappedRequests
<1>7. s[Len(loads)] = IF i = Len(loads) THEN r ELSE Newest
  BY <1>1, <1>4 DEF Newest
<1>8. QED BY <1>3, <1>4, <1>6, <1>7 DEF s

\* The table begins with one request, of the query the controls and the URL have.
LEMMA TableBegins == Table!Init => TableInv
<1> SUFFICES ASSUME Table!Init PROVE TableInv
  OBVIOUS
<1> DEFINE r == Table!Request(query, None)
<1>1. /\ loads = <<r>> /\ url = query /\ strayed = FALSE
      /\ table = [rows |-> <<>>, count |-> 0, loading |-> TRUE, error |-> None]
      /\ deletion = [d \in Ids |-> Table!NoDeletion]
  BY DEF Table!Init
<1>2. IsRequest(r) /\ r.state = "sent" /\ r.query = query
  BY DEF IsRequest, Table!Request
<1>3. IsDeletion(Table!NoDeletion)
  BY DEF IsDeletion, Table!NoDeletion
<1> HIDE DEF r
<1>4. Len(loads) = 1 /\ DOMAIN loads = 1..1 /\ loads[1] = r /\ loads \in Seq({r}) /\ RequestsOf(loads) = {r}
  BY <1>1 DEF RequestsOf
<1>5. Requests(loads) /\ Newest = r /\ Table!OnItsWay = {1}
  BY <1>2, <1>4 DEF Requests, Newest, Table!OnItsWay
<1>6. Shapes
  BY <1>1, <1>3, <1>5 DEF Shapes, IsTable
<1>7. QuietInv
  BY <1>5 DEF QuietInv
<1>8. ~Table!Crashed
  BY <1>1, PartsAssumption DEF Table!TableAssumption, Table!Crashed
<1>9. Table!NewestIsCurrent /\ Table!UrlIsTheQuery
  BY <1>1, <1>2, <1>4 DEF Table!NewestIsCurrent, Table!UrlIsTheQuery, Table!Last
<1>10. QED BY <1>6, <1>7, <1>8, <1>9 DEF TableInv

\* What is drawn: nothing is loading over a page that crashed.
LEMMA DrawnKeeps ==
  ASSUME NEW t, IsTable(t), IsTable(table)
  PROVE  LET drawn == Table!Drawn(t)
         IN  /\ IsTable(drawn)
             /\ Table!Crashed => drawn = table
             /\ ~Table!Crashed => /\ drawn.rows = t.rows /\ drawn.count = t.count
                                  /\ \/ drawn.error = "crashed" /\ drawn.loading = FALSE
                                     \/ drawn = t
BY DEF Table!Drawn, IsTable

\* A table or a request of which a field is set.
NotLoading(t) == [t EXCEPT !.loading = FALSE]
HasError(t, e) == [t EXCEPT !.error = e]
InState(r, s) == [r EXCEPT !.state = s]
Answered(r, v) == [r EXCEPT !.answer = v]

\* The loading flag is reset, the rest of the table stays.
LEMMA LoadingIsReset ==
  ASSUME NEW t, IsTable(t)
  PROVE  /\ IsTable(NotLoading(t)) /\ NotLoading(t).loading = FALSE
         /\ NotLoading(t).error = t.error /\ NotLoading(t).rows = t.rows /\ NotLoading(t).count = t.count
<1> DEFINE no == FALSE
<1>1. NotLoading(t) = [t EXCEPT !.loading = no]
  BY DEF NotLoading
<1> HIDE DEF no
<1>2. NotLoading(t) = [rows |-> t.rows, count |-> t.count, loading |-> no, error |-> t.error]
  BY <1>1 DEF IsTable
<1>3. /\ IsTable(NotLoading(t)) /\ NotLoading(t).loading = no
      /\ NotLoading(t).error = t.error /\ NotLoading(t).rows = t.rows /\ NotLoading(t).count = t.count
  BY <1>2 DEF IsTable
<1>4. QED BY <1>3 DEF no

\* The error is set, the rest of the table stays.
LEMMA ErrorIsSet ==
  ASSUME NEW t, IsTable(t), NEW e
  PROVE  /\ IsTable(HasError(t, e)) /\ HasError(t, e).error = e
         /\ HasError(t, e).loading = t.loading
<1>1. HasError(t, e) = [rows |-> t.rows, count |-> t.count, loading |-> t.loading, error |-> e]
  BY DEF IsTable, HasError
<1>2. QED BY <1>1 DEF IsTable

\* The state of a request is set, its query stays.
LEMMA StateIsSet ==
  ASSUME NEW r, IsRequest(r), NEW s
  PROVE  LET u == InState(r, s)
         IN  IsRequest(u) /\ u.state = s /\ u.query = r.query /\ u.reloadOf = r.reloadOf
<1>1. InState(r, s) = [query |-> r.query, reloadOf |-> r.reloadOf, state |-> s, answer |-> r.answer]
  BY DEF IsRequest, InState
<1>2. QED BY <1>1 DEF IsRequest

\* The answer of a request is set, its query stays.
LEMMA AnswerIsSet ==
  ASSUME NEW r, IsRequest(r), NEW v
  PROVE  LET u == Answered(r, v)
         IN  IsRequest(u) /\ u.state = r.state /\ u.query = r.query /\ u.reloadOf = r.reloadOf
<1>1. Answered(r, v) = [query |-> r.query, reloadOf |-> r.reloadOf, state |-> r.state, answer |-> v]
  BY DEF IsRequest, Answered
<1>2. QED BY <1>1 DEF IsRequest

\* One deletion goes on, the others stay.
LEMMA DeletionGoesOn ==
  ASSUME Shapes, NEW d \in Ids, NEW x, IsDeletion(x), deletion' = [deletion EXCEPT ![d] = x]
  PROVE  /\ deletion' = [e \in Ids |-> deletion'[e]] /\ \A e \in Ids : IsDeletion(deletion'[e])
         /\ \A e \in Ids : deletion'[e] = IF e = d THEN x ELSE deletion[e]
<1>1. deletion = [e \in Ids |-> deletion[e]] /\ \A e \in Ids : IsDeletion(deletion[e])
  BY DEF Shapes
<1>2. \A e \in Ids : deletion'[e] = IF e = d THEN x ELSE deletion[e]
  BY <1>1
<1>3. deletion' = [e \in Ids |-> deletion'[e]]
  BY <1>1
<1>4. QED BY <1>1, <1>2, <1>3

\* A step after which a request is on its way, and the newest of them of what the controls
\* say, or a reload.
LEMMA AsksAnew ==
  ASSUME Requests(loads'), IsTable(table'), Table!OnItsWay' # {},
         deletion' = [d \in Ids |-> deletion'[d]] /\ \A d \in Ids : IsDeletion(deletion'[d]),
         Newest'.reloadOf = None => Newest'.query = query',
         Table!Crashed' => table'.loading = FALSE, Table!UrlIsTheQuery'
  PROVE  TableInv'
<1>1. Shapes'
  BY DEF Shapes
<1>2. Table!NewestIsCurrent'
  BY DEF Table!NewestIsCurrent, Newest, Table!Last
<1>3. QuietInv'
  BY DEF QuietInv
<1>4. QED BY <1>1, <1>2, <1>3 DEF TableInv

\* A change of the controls, or a refresh.
LEMMA LoadKeeps ==
  ASSUME TableInv, Requests(loads'), Table!OnItsWay' # {}, Newest' = Table!Request(query', None),
         table' = Table!Loading, UNCHANGED deletion, Table!UrlIsTheQuery'
  PROVE  TableInv'
<1>1. Shapes
  BY DEF TableInv
<1>2. Newest'.query = query'
  BY DEF Table!Request
<1>3. IsTable(table') /\ table'.error = None
  BY <1>1 DEF Table!Loading, IsTable, Shapes
<1>4. ~Table!Crashed'
  BY <1>3, PartsAssumption DEF Table!TableAssumption, Table!Crashed
<1>5. deletion' = [d \in Ids |-> deletion'[d]] /\ \A d \in Ids : IsDeletion(deletion'[d])
  BY <1>1 DEF Shapes
<1>6. QED BY <1>2, <1>3, <1>4, <1>5, AsksAnew

\* A change that sends one request.
LEMMA TurnKeeps ==
  ASSUME TableInv, NEW q, Table!Turn(q), q = query' => Table!UrlIsTheQuery'
  PROVE  TableInv'
<1>1. /\ query' = q /\ Table!Load(query', None) /\ table' = Table!Loading /\ UNCHANGED deletion
  BY DEF Table!Turn
<1>2. Requests(loads)
  BY DEF TableInv, Shapes
<1>3. Requests(loads') /\ Newest' = Table!Request(query', None) /\ Table!OnItsWay' # {}
  BY <1>1, <1>2, LoadSends
<1>4. QED BY <1>1, <1>3, LoadKeeps

\* A change that turns to the first page sends two.
LEMMA StartKeeps ==
  ASSUME TableInv, NEW q, NEW first, Table!TurnToStart(q, first), first = query' => Table!UrlIsTheQuery'
  PROVE  TableInv'
<1>1. /\ query' = first /\ table' = Table!Loading /\ UNCHANGED deletion
      /\ loads' = Append(Append(Table!Remembered(loads), Table!Request(q, None)), Table!Request(first, None))
  BY DEF Table!TurnToStart
<1>2. Requests(loads)
  BY DEF TableInv, Shapes
<1>3. Requests(loads') /\ Newest' = Table!Request(query', None) /\ Table!OnItsWay' # {}
  BY <1>1, <1>2, SendsTwo
<1>4. QED BY <1>1, <1>3, LoadKeeps

\* A filter or an order that is set on the first page leaves the page.
LEMMA FirstPage ==
  ASSUME NEW q \in Table!Queries, NEW v
  PROVE  /\ [[q EXCEPT !.filter = v] EXCEPT !.page = 0] = [q EXCEPT !.filter = v, !.page = 0]
         /\ [[q EXCEPT !.sort = v] EXCEPT !.page = 0] = [q EXCEPT !.sort = v, !.page = 0]
         /\ q.page = 0 => /\ [q EXCEPT !.filter = v, !.page = 0] = [q EXCEPT !.filter = v]
                          /\ [q EXCEPT !.sort = v, !.page = 0] = [q EXCEPT !.sort = v]
BY DEF Table!Queries

\* A step that leaves the requests, the table and the controls alone.
LEMMA TableStays ==
  ASSUME TableInv, UNCHANGED <<loads, table, query, inTurn, deletion>>, Table!UrlIsTheQuery'
  PROVE  TableInv'
BY DEF TableInv, Shapes, QuietInv, Newest, Table!OnItsWay, Table!Deleting, Table!Crashed,
       Table!NewestIsCurrent

\* Whatever overtakes what.
LEMMA TableKept == TableInv /\ IsAsked /\ [Table!Next]_Table!vars => TableInv'
<1> SUFFICES ASSUME TableInv, IsAsked, [Table!Next]_Table!vars PROVE TableInv'
  OBVIOUS
<1>s. Shapes /\ Requests(loads) /\ IsTable(table)
  BY DEF TableInv, Shapes
<1>c. QuietInv /\ (Table!Crashed => table.loading = FALSE)
  BY DEF TableInv
<1>u. Table!UrlIsTheQuery /\ Table!NewestIsCurrent
  BY DEF TableInv
<1>l. Len(loads) \in Nat /\ DOMAIN loads = 1..Len(loads) /\ Len(loads) \in DOMAIN loads
  BY <1>s DEF Requests
<1>n. None \notin Ids \cup {"error", "crashed"}
  BY PartsAssumption DEF Table!TableAssumption
<1>1. ASSUME NEW p, Table!TurnPage(p) PROVE TableInv'
  <2>1. /\ Table!Turn([query EXCEPT !.page = p])
        /\ [query EXCEPT !.page = p] = query' /\ url' = [url EXCEPT !.page = p] /\ UNCHANGED strayed
    BY <1>1 DEF Table!TurnPage, Table!Turn
  <2>2. Table!UrlIsTheQuery'
    BY <1>u, <2>1 DEF Table!UrlIsTheQuery
  <2>3. QED BY <2>1, <2>2, TurnKeeps
<1>2. ASSUME NEW f, Table!SetFilter(f) PROVE TableInv'
  <2> DEFINE q == [query EXCEPT !.filter = f]
             first == [q EXCEPT !.page = 0]
  <2>1. /\ url' = [url EXCEPT !.filter = f, !.page = 0]
        /\ \/ query.page = 0 /\ Table!Turn(q)
           \/ query.page # 0 /\ Table!TurnToStart(q, first)
    BY <1>2 DEF Table!SetFilter
  <2>2. first = [query EXCEPT !.filter = f, !.page = 0] /\ (query.page = 0 => first = q)
    BY FirstPage DEF IsAsked
  <2>3. query' = first /\ UNCHANGED strayed
    BY <2>1, <2>2 DEF Table!Turn, Table!TurnToStart
  <2>4. Table!UrlIsTheQuery'
    BY <1>u, <2>1, <2>2, <2>3 DEF Table!UrlIsTheQuery
  <2> HIDE DEF q, first
  <2>5. QED BY <2>1, <2>4, TurnKeeps, StartKeeps
<1>3. ASSUME NEW o, Table!SetSort(o) PROVE TableInv'
  <2> DEFINE q == [query EXCEPT !.sort = o]
             first == [q EXCEPT !.page = 0]
  <2>1. /\ url' = [url EXCEPT !.sort = o, !.page = 0]
        /\ \/ query.page = 0 /\ Table!Turn(q)
           \/ query.page # 0 /\ Table!TurnToStart(q, first)
    BY <1>3 DEF Table!SetSort
  <2>2. first = [query EXCEPT !.sort = o, !.page = 0] /\ (query.page = 0 => first = q)
    BY FirstPage DEF IsAsked
  <2>3. query' = first /\ UNCHANGED strayed
    BY <2>1, <2>2 DEF Table!Turn, Table!TurnToStart
  <2>4. Table!UrlIsTheQuery'
    BY <1>u, <2>1, <2>2, <2>3 DEF Table!UrlIsTheQuery
  <2> HIDE DEF q, first
  <2>5. QED BY <2>1, <2>4, TurnKeeps, StartKeeps
<1>4. CASE Table!Refresh
  <2>1. Table!Reload(query, None) /\ table' = Table!Loading /\ UNCHANGED <<deletion, strayed>>
    BY <1>4 DEF Table!Refresh
  <2>2. /\ Requests(loads') /\ Table!OnItsWay' # {} /\ Table!UrlIsTheQuery'
        /\ Newest' = Table!Request(query', None)
    BY <1>s, <1>u, <2>1, ReloadSends
  <2>3. QED BY <2>1, <2>2, LoadKeeps
<1>5. CASE Table!Stray
  BY <1>5, TableStays DEF Table!Stray, Table!UrlIsTheQuery
<1>6. CASE Table!LeaveAndReturn
  <2> DEFINE forgotten == [j \in DOMAIN loads |-> Table!Past]
             r == Table!Request(url, None)
  <2>1. /\ loads' = Append(forgotten, r) /\ query' = url /\ url' = url
        /\ table' = [rows |-> <<>>, count |-> 0, loading |-> TRUE, error |-> None]
        /\ UNCHANGED deletion
    BY <1>6 DEF Table!LeaveAndReturn, Table!Reopened
  <2>2. /\ IsRequest(Table!Past) /\ Table!Past.state = "done"
        /\ IsRequest(r) /\ r.state = "sent" /\ r.query = url
    BY DEF IsRequest, Table!Past, Table!Request
  <2>3. /\ DOMAIN forgotten = DOMAIN loads /\ forgotten = [j \in DOMAIN loads |-> forgotten[j]]
        /\ \A j \in DOMAIN loads : IsRequest(forgotten[j]) /\ forgotten[j].state = "done"
    BY <2>2
  <2> HIDE DEF forgotten, r
  <2>4. Requests(forgotten) /\ Len(forgotten) = Len(loads)
    BY <1>s, <2>3, MappedRequests
  <2> DEFINE a == Append(forgotten, r)
  <2>f. IsRequest(r)
    BY <2>2
  <2>a. /\ Requests(a) /\ Len(a) = Len(loads) + 1 /\ DOMAIN a = 1..(Len(loads) + 1)
        /\ a[Len(loads) + 1] = r /\ \A j \in 1..Len(loads) : a[j] = forgotten[j]
    BY <2>f, <2>4, SentIsNewest
  <2>5. /\ Requests(loads') /\ Len(loads') = Len(loads) + 1 /\ DOMAIN loads' = 1..(Len(loads) + 1)
        /\ loads'[Len(loads) + 1] = r /\ \A j \in 1..Len(loads) : loads'[j] = forgotten[j]
    BY <2>1, <2>a
  <2>6. Newest' = r /\ Len(loads') \in Table!OnItsWay'
    BY <1>l, <2>2, <2>3, <2>5 DEF Newest, Table!OnItsWay
  <2>7. IsTable(table') /\ ~Table!Crashed'
    BY <1>n, <2>1 DEF IsTable, Table!Crashed
  <2>8. Table!UrlIsTheQuery'
    BY <2>1 DEF Table!UrlIsTheQuery
  <2>9. deletion' = [d \in Ids |-> deletion'[d]] /\ \A d \in Ids : IsDeletion(deletion'[d])
    BY <1>s, <2>1 DEF Shapes
  <2>10. QED BY <2>1, <2>2, <2>5, <2>6, <2>7, <2>8, <2>9, AsksAnew
<1>7. ASSUME NEW i \in DOMAIN loads, Table!Serve(i) PROVE TableInv'
  <2>1. PICK r : /\ loads' = [loads EXCEPT ![i] = r] /\ IsRequest(r)
                 /\ r.query = loads[i].query /\ r.reloadOf = loads[i].reloadOf
                 /\ r.state \in {"answered", "refused"}
    <3>1. IsRequest(loads[i])
      BY <1>s DEF Requests
    <3> DEFINE a == [loads[i] EXCEPT !.state = "answered", !.answer = Table!Answer(tableServer, loads[i].query)]
               b == [loads[i] EXCEPT !.state = "refused"]
    <3>2. loads' = [loads EXCEPT ![i] = a] \/ loads' = [loads EXCEPT ![i] = b]
      BY <1>7 DEF Table!Serve
    <3>3. /\ IsRequest(a) /\ a.query = loads[i].query /\ a.reloadOf = loads[i].reloadOf /\ a.state = "answered"
          /\ IsRequest(b) /\ b.query = loads[i].query /\ b.reloadOf = loads[i].reloadOf /\ b.state = "refused"
      <4>1. /\ a = Answered(InState(loads[i], "answered"), Table!Answer(tableServer, loads[i].query))
            /\ b = InState(loads[i], "refused")
        BY DEF Answered, InState
      <4>2. QED BY <3>1, <4>1, StateIsSet, AnswerIsSet
    <3> HIDE DEF a, b
    <3>4. QED BY <3>2, <3>3
  <2>2. /\ UNCHANGED <<table, query, url, strayed, inTurn, deletion>> /\ loads[i].state = "sent"
    BY <1>7 DEF Table!Serve
  <2>3. /\ Requests(loads') /\ Len(loads') = Len(loads)
        /\ \A j \in DOMAIN loads : loads'[j] = IF j = i THEN r ELSE loads[j]
        /\ Newest' = IF i = Len(loads) THEN r ELSE Newest
    BY <1>s, <2>1, GoesOn
  <2>4. Newest'.query = Newest.query /\ Newest'.reloadOf = Newest.reloadOf
    BY <2>1, <2>3 DEF Newest
  <2>5. Table!OnItsWay' = Table!OnItsWay /\ Table!OnItsWay # {}
    <3>1. DOMAIN loads' = DOMAIN loads
      BY <2>3 DEF Requests
    <3>2. QED BY <2>1, <2>2, <2>3, <3>1 DEF Table!OnItsWay
  <2>6. QuietInv'
    BY <2>5 DEF QuietInv
  <2>7. Table!NewestIsCurrent'
    BY <1>u, <2>2, <2>3, <2>4 DEF Table!NewestIsCurrent, Newest, Table!Last
  <2>8. QED BY <2>2, <2>3, <2>6, <2>7 DEF TableInv, Shapes, Table!UrlIsTheQuery, Table!Crashed
<1>8. ASSUME NEW i \in DOMAIN loads, Table!Fail(i) PROVE TableInv'
  <2> DEFINE t == [table EXCEPT !.error = "error", !.loading = FALSE]
  <2>1. /\ UNCHANGED <<query, url, strayed, deletion>> /\ loads' = Table!Settled(i)
        /\ loads[i].state = "refused" /\ table' = Table!Drawn(t)
    BY <1>8 DEF Table!Fail
  <2>2. IsTable(t) /\ t.error = "error" /\ t.loading = FALSE
    <3>1. t = NotLoading(HasError(table, "error"))
      BY DEF NotLoading, HasError
    <3> HIDE DEF t
    <3>2. IsTable(HasError(table, "error")) /\ HasError(table, "error").error = "error"
      BY <1>s, ErrorIsSet
    <3>3. QED BY <3>1, <3>2, LoadingIsReset
  <2> HIDE DEF t
  <2>3. IsTable(table') /\ table'.loading = FALSE /\ table'.error # None
    BY <1>s, <1>c, <1>n, <2>1, <2>2, DrawnKeeps DEF Table!Crashed
  <2>4. /\ Requests(loads') /\ Len(loads') = Len(loads)
        /\ Newest'.query = Newest.query /\ Newest'.reloadOf = Newest.reloadOf
        /\ \A j \in DOMAIN loads : loads'[j].state = IF j = i THEN "done" ELSE loads[j].state
    BY <1>s, <2>1, SettledKeeps DEF Newest
  <2>6. QuietInv'
    BY <2>3 DEF QuietInv
  <2>7. Table!NewestIsCurrent'
    BY <1>u, <2>1, <2>4 DEF Table!NewestIsCurrent, Newest, Table!Last
  <2>8. QED BY <2>1, <2>3, <2>4, <2>6, <2>7 DEF TableInv, Shapes, Table!UrlIsTheQuery
<1>9. ASSUME NEW i \in DOMAIN loads, Table!Arrive(i) PROVE TableInv'
  <2> DEFINE count == loads[i].answer.count
             t == [rows |-> loads[i].answer.rows, count |-> count, loading |-> FALSE, error |-> table.error]
             last == [query EXCEPT !.page = Table!LastPage(count)]
             s == Table!Settled(i)
             r == Table!Request(last, None)
  <2>1. /\ UNCHANGED <<strayed, deletion>> /\ loads[i].state = "answered"
        /\ \/ /\ query' = last /\ url' = [url EXCEPT !.page = Table!LastPage(count)]
              /\ table' = [t EXCEPT !.loading = TRUE] /\ table.error = None
              /\ loads' = Append(Table!Remembered(s), r)
           \/ /\ table' = Table!Drawn(t) /\ loads' = s /\ UNCHANGED <<url, query>>
        /\ inTurn' = (i = Len(loads))
    BY <1>9 DEF Table!Arrive
  <2>2. /\ IsTable(t) /\ t.loading = FALSE /\ t.error = table.error
        /\ t.rows = loads[i].answer.rows /\ t.count = loads[i].answer.count
    BY DEF IsTable
  <2>3. /\ Requests(s) /\ Len(s) = Len(loads)
        /\ s[Len(loads)].query = Newest.query /\ s[Len(loads)].reloadOf = Newest.reloadOf
        /\ s[Len(loads)].answer = Newest.answer
        /\ \A j \in DOMAIN loads : s[j].state = IF j = i THEN "done" ELSE loads[j].state
    BY <1>s, SettledKeeps
  <2>4. IsRequest(r) /\ r.state = "sent" /\ r.query = last
    BY DEF IsRequest, Table!Request
  <2>5. CASE loads' = s /\ table' = Table!Drawn(t) /\ UNCHANGED <<url, query>>
    <3> HIDE DEF s, r, last, t, count
    <3>1. IsTable(table') /\ table'.loading = FALSE
      BY <1>s, <1>c, <2>2, <2>5, DrawnKeeps
    <3>2. inTurn' => loads[i] = Newest
      BY <2>1 DEF Newest
    <3>3. table'.error = None => table'.rows = loads[i].answer.rows /\ table'.count = loads[i].answer.count
      BY <1>s, <1>n, <2>2, <2>5, DrawnKeeps DEF Table!Crashed
    <3>4. /\ Newest'.query = Newest.query /\ Newest'.reloadOf = Newest.reloadOf
          /\ Newest'.answer = Newest.answer /\ Requests(loads') /\ Len(loads') = Len(loads)
      BY <2>3, <2>5 DEF Newest
    <3>6. QuietInv'
      BY <3>1, <3>2, <3>3, <3>4 DEF QuietInv
    <3>7. Table!NewestIsCurrent'
      BY <1>u, <2>5, <3>4 DEF Table!NewestIsCurrent, Newest, Table!Last
    <3>8. QED BY <2>1, <2>5, <3>1, <3>4, <3>6, <3>7 DEF TableInv, Shapes, Table!UrlIsTheQuery
  <2>6. CASE /\ query' = last /\ url' = [url EXCEPT !.page = Table!LastPage(count)]
             /\ table' = [t EXCEPT !.loading = TRUE] /\ table.error = None
             /\ loads' = Append(Table!Remembered(s), r)
    <3>1. IsTable(table') /\ table'.error = None
      BY <2>2, <2>6 DEF IsTable
    <3>2. ~Table!Crashed'
      BY <1>n, <3>1 DEF Table!Crashed
    <3>3. Table!UrlIsTheQuery'
      BY <1>u, <2>1, <2>6 DEF Table!UrlIsTheQuery
    <3> HIDE DEF s, r, last, t, count
    <3> DEFINE f == Table!Remembered(s)
    <3>4. /\ Requests(f) /\ Len(f) = Len(loads)
          /\ \A j \in DOMAIN loads : f[j].state = IF j = i THEN "done" ELSE loads[j].state
      BY <2>3, RememberedKeeps
    <3> HIDE DEF f
    <3>5. loads' = Append(f, r)
      BY <2>6 DEF f
    <3>6. /\ Requests(loads') /\ Len(loads') = Len(loads) + 1 /\ DOMAIN loads' = 1..(Len(loads) + 1)
          /\ loads'[Len(loads) + 1] = r /\ \A j \in 1..Len(loads) : loads'[j] = f[j]
      BY <2>4, <3>4, <3>5, SentIsNewest
    <3>7. Newest' = r
      BY <3>6 DEF Newest
    <3>8. Len(loads') \in Table!OnItsWay'
      BY <2>4, <3>6, <1>l DEF Table!OnItsWay
    <3>9. deletion' = [d \in Ids |-> deletion'[d]] /\ \A d \in Ids : IsDeletion(deletion'[d])
      BY <1>s, <2>1 DEF Shapes
    <3>10. Newest'.query = query'
      BY <2>4, <2>6, <3>7
    <3>11. QED BY <3>1, <3>2, <3>3, <3>6, <3>8, <3>9, <3>10, AsksAnew
  <2>7. QED BY <2>1, <2>5, <2>6
<1>10. ASSUME NEW d \in Ids, Table!Delete(d) PROVE TableInv'
  <2>1. /\ deletion' = [deletion EXCEPT ![d] = [state |-> "sent", query |-> query]]
        /\ table' = [table EXCEPT !.loading = TRUE]
        /\ table.error = None
        /\ UNCHANGED <<url, query, loads, inTurn, strayed>>
    BY <1>10 DEF Table!Delete, Table!Offered, Table!GridShown
  <2>2. /\ IsTable(table') /\ table'.error = None
        /\ table'.rows = table.rows /\ table'.count = table.count
    BY <1>s, <2>1 DEF IsTable
  <2>3. /\ deletion' = [e \in Ids |-> deletion'[e]] /\ \A e \in Ids : IsDeletion(deletion'[e])
        /\ Table!Deleting' # {}
    BY <1>s, <2>1 DEF Shapes, IsDeletion, Table!Deleting
  <2>4. Newest' = Newest /\ Table!OnItsWay' = Table!OnItsWay /\ ~Table!Crashed'
    BY <1>n, <2>1, <2>2 DEF Newest, Table!OnItsWay, Table!Crashed
  <2>5. QuietInv'
    BY <1>c, <2>1, <2>2, <2>3, <2>4 DEF QuietInv
  <2>6. QED BY <2>1, <2>2, <2>3, <2>4, <2>5 DEF TableInv, Shapes, Table!UrlIsTheQuery,
               Table!NewestIsCurrent
<1>11. ASSUME NEW d \in Ids, NEW state, state # "none", deletion[d].state # "none",
              deletion' = [deletion EXCEPT ![d].state = state],
              UNCHANGED <<url, query, table, loads, inTurn, strayed>>
       PROVE  TableInv'
  <2>1. /\ deletion' = [e \in Ids |-> deletion'[e]] /\ \A e \in Ids : IsDeletion(deletion'[e])
        /\ Table!Deleting' = Table!Deleting
    BY <1>s, <1>11 DEF Shapes, IsDeletion, Table!Deleting
  <2>2. QED BY <1>11, <2>1 DEF TableInv, Shapes, QuietInv, Newest, Table!OnItsWay, Table!Crashed,
               Table!UrlIsTheQuery, Table!NewestIsCurrent
<1>12. ASSUME NEW d \in Ids, Table!ServeDelete(d) PROVE TableInv'
  BY <1>11, <1>12 DEF Table!ServeDelete
<1>13. ASSUME NEW d \in Ids, Table!Deleted(d) PROVE TableInv'
  <2> DEFINE loading == Table!Outgrown
             t == [table EXCEPT !.loading = loading, !.error = None]
  <2>1. /\ Table!Reload(deletion[d].query, d) /\ table' = Table!Drawn(t)
        /\ deletion' = [deletion EXCEPT ![d] = Table!NoDeletion]
        /\ UNCHANGED strayed
    BY <1>13 DEF Table!Deleted
  <2>2. Table!Crashed => loading = FALSE
    BY DEF Table!Outgrown, Table!Crashed
  <2> HIDE DEF loading
  <2>a. HasError(table, None) =
          [rows |-> table.rows, count |-> table.count, loading |-> table.loading, error |-> None]
    BY <1>s DEF IsTable, HasError
  <2>b. t = [HasError(table, None) EXCEPT !.loading = loading]
    BY DEF HasError
  <2> HIDE DEF t
  <2>3. t = [rows |-> table.rows, count |-> table.count, loading |-> loading, error |-> None]
    BY <2>a, <2>b
  <2>4. IsTable(t) /\ t.loading = loading /\ t.error = None
    BY <2>3 DEF IsTable
  <2>5. IsTable(table') /\ (Table!Crashed' => table'.loading = FALSE)
    BY <1>s, <1>c, <1>n, <2>1, <2>4, DrawnKeeps DEF Table!Crashed
  <2>6. /\ deletion' = [e \in Ids |-> deletion'[e]] /\ \A e \in Ids : IsDeletion(deletion'[e])
    BY <1>s, <2>1 DEF Shapes, IsDeletion, Table!NoDeletion
  <2>7. /\ Requests(loads') /\ Table!OnItsWay' # {} /\ Table!UrlIsTheQuery'
        /\ Newest' = Table!Request(query', None) \/ Newest' = Table!Request(deletion[d].query, d)
    BY <1>s, <1>u, <2>1, ReloadSends
  <2>8. Newest'.reloadOf = None => Newest'.query = query'
    BY <1>n, <2>7 DEF Table!Request
  <2>9. QED BY <2>5, <2>6, <2>7, <2>8, AsksAnew
<1>14. ASSUME NEW d \in Ids, Table!DeleteFailed(d) PROVE TableInv'
  <2> DEFINE t == [table EXCEPT !.loading = FALSE]
  <2>1. /\ table' = Table!Drawn(t) /\ deletion' = [deletion EXCEPT ![d] = Table!NoDeletion]
        /\ UNCHANGED <<url, query, loads, inTurn, strayed>>
    BY <1>14 DEF Table!DeleteFailed
  <2>2. IsTable(t) /\ t.loading = FALSE /\ t.error = table.error /\ t.rows = table.rows /\ t.count = table.count
    <3>1. t = NotLoading(table)
      BY DEF NotLoading
    <3> HIDE DEF t
    <3>2. QED BY <1>s, <3>1, LoadingIsReset
  <2> HIDE DEF t
  <2>3. /\ IsTable(table') /\ table'.loading = FALSE
        /\ table'.error = None =>
             table.error = None /\ table'.rows = table.rows /\ table'.count = table.count
    BY <1>s, <1>c, <1>n, <2>1, <2>2, DrawnKeeps
  <2>4. /\ deletion' = [e \in Ids |-> deletion'[e]] /\ \A e \in Ids : IsDeletion(deletion'[e])
    BY <1>s, <2>1 DEF Shapes, IsDeletion, Table!NoDeletion
  <2>5. Newest' = Newest /\ Table!OnItsWay' = Table!OnItsWay
    BY <2>1 DEF Newest, Table!OnItsWay
  <2>6. QuietInv'
    BY <1>c, <2>1, <2>3, <2>5 DEF QuietInv
  <2>7. QED BY <2>1, <2>3, <2>4, <2>6 DEF TableInv, Shapes, Table!UrlIsTheQuery,
               Table!NewestIsCurrent
<1>15. ASSUME NEW d, Table!OthersChange(d) PROVE TableInv'
  BY <1>15, <1>u, TableStays DEF Table!OthersChange, Table!UrlIsTheQuery
<1>16. CASE UNCHANGED Table!vars
  BY <1>16, <1>u, TableStays DEF Table!vars, Table!UrlIsTheQuery
<1>17. QED
  BY <1>1, <1>2, <1>3, <1>4, <1>5, <1>6, <1>7, <1>8, <1>9, <1>10, <1>12, <1>13, <1>14, <1>15, <1>16
     DEF Table!Next, Table!Answers, Table!Deletions

-----------------------------------------------------------------------------
(* Numbers and lists *)

\* Induction over the numbers, by the least of those that are left.
LEMMA LeastNatural ==
  ASSUME NEW T, T \subseteq Nat, T # {}
  PROVE  \E n \in T : \A m \in T : n <= m
<1> DEFINE R == OpToRel(<, Nat)
<1>1. IsWellFoundedOn(R, Nat)
  BY NatLessThanWellFounded
<1>2. \A x, y \in Nat : x < y => <<x, y>> \in R
  BY DEF OpToRel
<1> HIDE DEF R
<1>3. \E n \in T : \A m \in T : ~ (<<m, n>> \in R)
  BY <1>1, WFMin, Zenon
<1>4. PICK n \in T : \A m \in T : ~ (<<m, n>> \in R)
  BY <1>3
<1>5. ASSUME NEW m \in T PROVE n <= m
  <2>1. m \in Nat /\ n \in Nat /\ ~ (<<m, n>> \in R)
    BY <1>4
  <2>2. QED BY <1>2, <2>1
<1>6. QED BY <1>5

\* What holds for 0 and for the next number holds for all: over sets of numbers.
LEMMA Induction ==
  ASSUME NEW S, 0 \in S, \A n \in Nat : n \in S => n + 1 \in S
  PROVE  \A n \in Nat : n \in S
<1> SUFFICES ASSUME ~(\A n \in Nat : n \in S) PROVE FALSE
  OBVIOUS
<1> DEFINE T == Nat \ S
<1>1. T \subseteq Nat /\ T # {}
  OBVIOUS
<1> HIDE DEF T
<1>2. PICK n \in T : \A m \in T : n <= m
  BY <1>1, LeastNatural
<1>3. n \in Nat /\ n # 0 /\ n \notin S
  BY <1>2 DEF T
<1>4. n - 1 \in Nat /\ n - 1 \notin T
  BY <1>2, <1>3
<1>5. QED BY <1>3, <1>4 DEF T

\* The sums that MapThenSumSet folds: an element is taken, whatever its value.

\* The quotient and its remainder.
LEMMA Division ==
  ASSUME NEW a \in Nat, NEW b \in Nat \ {0}
  PROVE  a \div b \in Nat /\ b * (a \div b) <= a /\ a < b * (a \div b) + b
<1>1. a \div b \in Nat
  BY SMT
<1>2. b * (a \div b) <= a
  BY SMT
<1>3. a < b * (a \div b) + b
  BY SMT
<1>4. QED BY <1>1, <1>2, <1>3

\* A function on the first numbers is a sequence.
LEMMA IsAList ==
  ASSUME NEW T, NEW n \in Nat, NEW f \in [1..n -> T]
  PROVE  f \in Seq(T) /\ Len(f) = n /\ DOMAIN f = 1..n
  OBVIOUS

\* One item more, of the same type.
LEMMA AppendedIs == ASSUME NEW T, NEW f \in Seq(T), NEW x \in T PROVE Append(f, x) \in Seq(T)
  OBVIOUS

\* The items of a sequence are of its type.
LEMMA IsOfTheList == ASSUME NEW T, NEW f \in Seq(T), NEW k \in DOMAIN f PROVE f[k] \in T /\ k \in 1..Len(f)
  OBVIOUS

-----------------------------------------------------------------------------
(* The dashboard of the traffic *)

\* The assumptions on the calendar, with numbers for names.
LEMMA Calendar ==
  /\ HoursOfDay \in Nat \ {0} /\ Offset \in 1..(HoursOfDay - 1) /\ WindowDays \in Nat
  /\ DaysOfMonth \in Nat \ {0} /\ Start \in Nat /\ MaxHours \in Nat
  BY PartsAssumption DEF Traffic!CalendarAssumption

\* Hours and days are numbers.
LEMMA DaysAreNumbers == Traffic!Hours \subseteq Nat /\ Traffic!Days \subseteq Nat /\ Traffic!DayOf(Start) \in Nat
<1>1. Traffic!Hours \subseteq Nat
  BY Calendar DEF Traffic!Hours
<1>2. \A h \in Nat : Traffic!DayOf(h) \in Nat
  BY Calendar, Division DEF Traffic!DayOf
<1>3. QED BY <1>1, <1>2, Calendar DEF Traffic!Days

\* A set of days in order, by the number of days looked at.
FirstOf == Traffic!DayOf(Start)
Orders(g, days, n) ==
  g = [k \in 0..n |-> IF k = 0 THEN <<>>
                      ELSE IF FirstOf + k - 1 \in days THEN Append(g[k - 1], FirstOf + k - 1) ELSE g[k - 1]]
OrdersAt(g, days, k) ==
  g[k] = IF k = 0 THEN <<>>
         ELSE IF FirstOf + k - 1 \in days THEN Append(g[k - 1], FirstOf + k - 1) ELSE g[k - 1]

\* There are the lists of the days up to a day, in order.
LEMMA OrdersExist ==
  ASSUME NEW days, NEW n \in Nat
  PROVE  \E g : Orders(g, days, n)
<1> DEFINE K == {k \in Nat : \E g : Orders(g, days, k)}
<1>1. 0 \in K
  <2>1. Orders([k \in 0..0 |-> <<>>], days, 0)
    BY DEF Orders
  <2>2. QED BY <2>1
<1>2. ASSUME NEW k \in Nat, k \in K PROVE k + 1 \in K
  <2>1. PICK g : Orders(g, days, k)
    BY <1>2
  <2> DEFINE last == IF FirstOf + (k + 1) - 1 \in days THEN Append(g[k], FirstOf + (k + 1) - 1) ELSE g[k]
             h == [j \in 0..(k + 1) |-> IF j = k + 1 THEN last ELSE g[j]]
  <2>2. \A j \in 0..k : OrdersAt(g, days, j)
    BY <2>1 DEF Orders, OrdersAt
  <2>3. h[k + 1] = last /\ \A j \in 0..k : h[j] = g[j]
    OBVIOUS
  <2> HIDE DEF last
  <2>4. h = [j \in 0..(k + 1) |-> h[j]]
    OBVIOUS
  <2> HIDE DEF h
  <2>5. ASSUME NEW j \in 0..(k + 1) PROVE OrdersAt(h, days, j)
    <3>1. CASE j = k + 1
      <4>1. j # 0 /\ j - 1 = k /\ h[j - 1] = g[k]
        BY <3>1, <2>3
      <4>2. QED BY <3>1, <4>1, <2>3 DEF last, OrdersAt
    <3>2. CASE j = 0
      BY <3>2, <2>2, <2>3 DEF OrdersAt
    <3>3. CASE j # 0 /\ j # k + 1
      <4>1. j \in 0..k /\ j - 1 \in 0..k /\ h[j] = g[j] /\ h[j - 1] = g[j - 1]
        BY <3>3, <2>3
      <4>2. QED BY <3>3, <4>1, <2>2 DEF OrdersAt
    <3>4. QED BY <3>1, <3>2, <3>3
  <2>6. Orders(h, days, k + 1)
    BY <2>4, <2>5 DEF Orders, OrdersAt
  <2>7. QED BY <2>6
<1> HIDE DEF K
<1>3. n \in K
  BY <1>1, <1>2, Induction
<1>4. QED BY <1>3 DEF K

\* One day more: it is added when it is of the set.
Joins(g, days, k) ==
  /\ FirstOf + k \in days => g[k + 1] = Append(g[k], FirstOf + k)
  /\ FirstOf + k \notin days => g[k + 1] = g[k]

\* The list of the days in order is built day by day.
LEMMA InOrderUnfolds ==
  ASSUME NEW days
  PROVE  \E g : /\ g[0] = <<>> /\ Traffic!InOrder(days) = g[MaxHours + 1]
                /\ \A k \in 0..MaxHours : Joins(g, days, k)
<1> DEFINE n == MaxHours + 1
           e(g) == [k \in 0..n |-> IF k = 0 THEN <<>>
                      ELSE IF FirstOf + k - 1 \in days THEN Append(g[k - 1], FirstOf + k - 1) ELSE g[k - 1]]
           g0 == CHOOSE g : g = e(g)
<1>1. Traffic!InOrder(days) = g0[n]
  BY DEF Traffic!InOrder, FirstOf
<1>2. PICK g : Orders(g, days, n)
  <2>1. n \in Nat
    BY Calendar
  <2>2. QED BY <2>1, OrdersExist
<1>3. \A h : Orders(h, days, n) <=> h = e(h)
  BY DEF Orders
<1>4. g0 = e(g0)
  BY <1>2, <1>3, Zenon
<1>5. Orders(g0, days, n)
  BY <1>3, <1>4
<1> HIDE DEF g0
<1>6. g0[0] = <<>>
  BY <1>5, Calendar DEF Orders
<1>7. ASSUME NEW k \in 0..MaxHours PROVE Joins(g0, days, k)
  <2>1. k + 1 \in 0..n /\ k + 1 # 0 /\ (k + 1) - 1 = k /\ FirstOf + (k + 1) - 1 = FirstOf + k
    BY Calendar, DaysAreNumbers DEF FirstOf
  <2>2. g0[k + 1] = IF FirstOf + (k + 1) - 1 \in days THEN Append(g0[(k + 1) - 1], FirstOf + (k + 1) - 1)
                    ELSE g0[(k + 1) - 1]
    BY <1>5, <2>1 DEF Orders
  <2>3. QED BY <2>1, <2>2 DEF Joins
<1>8. QED BY <1>1, <1>6, <1>7

\* A list of days in order has only those days.
LEMMA InOrderIsOfThem ==
  ASSUME NEW days
  PROVE  Traffic!InOrder(days) \in Seq(days)
<1>1. PICK g : /\ g[0] = <<>> /\ Traffic!InOrder(days) = g[MaxHours + 1]
               /\ \A k \in 0..MaxHours : Joins(g, days, k)
  BY InOrderUnfolds
<1> DEFINE K == {k \in Nat : k <= MaxHours + 1 => g[k] \in Seq(days)}
<1>2. 0 \in K
  <2>1. <<>> \in Seq(days)
    OBVIOUS
  <2>2. QED BY <1>1, <2>1
<1>3. ASSUME NEW k \in Nat, k \in K PROVE k + 1 \in K
  <2> SUFFICES ASSUME k + 1 <= MaxHours + 1 PROVE g[k + 1] \in Seq(days)
    OBVIOUS
  <2>1. k \in 0..MaxHours /\ Joins(g, days, k)
    BY <1>1, Calendar
  <2>2. g[k] \in Seq(days)
    BY <1>3, <2>1, Calendar
  <2> DEFINE d == FirstOf + k
  <2>3. /\ d \in days => g[k + 1] = Append(g[k], d)
        /\ d \notin days => g[k + 1] = g[k]
    BY <2>1 DEF Joins
  <2> HIDE DEF d
  <2>4. CASE d \in days
    <3>1. Append(g[k], d) \in Seq(days)
      BY <2>2, <2>4, AppendedIs
    <3>2. QED BY <2>3, <2>4, <3>1, Zenon
  <2>5. CASE d \notin days
    BY <2>2, <2>3, <2>5
  <2>6. QED BY <2>4, <2>5
<1> HIDE DEF K
<1>4. MaxHours + 1 \in K /\ MaxHours + 1 \in Nat
  BY <1>2, <1>3, Induction, Calendar
<1>5. QED BY <1>1, <1>4 DEF K

\* The days that are listed: each has an hour in the window with buckets.
Busy == {d \in Traffic!Days : Traffic!HoursInWindow(d) # {}}

\* The service lists the days that have buckets.
LEMMA DaysHaveBuckets == Traffic!DaysCounted \in Seq(Busy)
  BY InOrderIsOfThem DEF Traffic!DaysCounted, Busy

\* What the three lists have, whenever they were asked for.  The hours are in order, and each
\* is made of the buckets of that hour.
HoursRight(d, hours) ==
  /\ hours \in Seq(Traffic!HourRows)
  /\ \A k \in DOMAIN hours : hours[k].hour = k - 1 /\ hours[k].of \subseteq {d * HoursOfDay + k - 1}
BytesRows == [date : Traffic!Days, mb : {Traffic!NoMB}]

\* The answer by days has a row for each day that has buckets.
LEMMA FlowsPercentIsRight ==
  ASSUME counted \subseteq Traffic!Hours
  PROVE  Traffic!FlowsPercent \in Seq(Traffic!DayRows)
<1> DEFINE days == Traffic!DaysCounted
           n == Len(days)
           f == Traffic!FlowsPercent
<1>1. f = [k \in DOMAIN days |-> [date |-> days[k], row |-> Traffic!NoShares, of |-> Traffic!HoursInWindow(days[k])]]
  BY DEF Traffic!FlowsPercent
<1>2. days \in Seq(Busy)
  BY DaysHaveBuckets
<1> HIDE DEF days, f
<1>3. n \in Nat /\ DOMAIN days = 1..n /\ \A k \in 1..n : days[k] \in Traffic!Days
  BY <1>2 DEF Busy
<1> HIDE DEF n
<1>4. \A d : Traffic!HoursInWindow(d) \in SUBSET Traffic!Hours
  BY DEF Traffic!HoursInWindow
<1>5. \A k \in 1..n : [date |-> days[k], row |-> Traffic!NoShares, of |-> Traffic!HoursInWindow(days[k])] \in Traffic!DayRows
  BY <1>3, <1>4 DEF Traffic!DayRows
<1>6. f \in [1..n -> Traffic!DayRows]
  BY <1>1, <1>3, <1>5
<1>7. QED BY <1>3, <1>6, IsAList DEF f

\* The answer by bytes has a row for each of them too.
LEMMA BytesAreRight == Traffic!Bytes \in Seq(BytesRows)
<1> DEFINE days == Traffic!DaysCounted
           n == Len(days)
           f == Traffic!Bytes
<1>1. f = [k \in DOMAIN days |-> [date |-> days[k], mb |-> Traffic!NoMB]]
  BY DEF Traffic!Bytes
<1>2. days \in Seq(Busy)
  BY DaysHaveBuckets
<1> HIDE DEF days, f
<1>3. n \in Nat /\ DOMAIN days = 1..n /\ \A k \in 1..n : days[k] \in Traffic!Days
  BY <1>2 DEF Busy
<1> HIDE DEF n
<1>4. f \in [1..n -> BytesRows]
  BY <1>1, <1>3 DEF BytesRows
<1>5. QED BY <1>3, <1>4, IsAList DEF f

\* The answer by hours has a row for each hour of the day.
LEMMA HoursAreRight ==
  ASSUME counted \subseteq Traffic!Hours, NEW d
  PROVE  /\ HoursRight(d, Traffic!FlowsPercentByDay(d))
         /\ DOMAIN Traffic!FlowsPercentByDay(d) = 1..HoursOfDay
         /\ \A k \in 1..HoursOfDay : Traffic!FlowsPercentByDay(d)[k].of = counted \cap {d * HoursOfDay + k - 1}
<1> DEFINE n == HoursOfDay
           of(k) == counted \cap {d * HoursOfDay + k - 1}
           f == Traffic!FlowsPercentByDay(d)
<1>1. n \in Nat
  BY Calendar
<1>2. f = [k \in 1..n |-> [hour |-> k - 1, row |-> Traffic!NoShares, of |-> of(k)]]
  BY DEF Traffic!FlowsPercentByDay
<1>3. \A k : of(k) \in SUBSET Traffic!Hours /\ of(k) \subseteq {d * HoursOfDay + k - 1}
  OBVIOUS
<1>4. \A k \in 1..n : k - 1 \in 0..(n - 1)
  BY <1>1
<1> HIDE DEF of, f
<1>5. f \in [1..n -> Traffic!HourRows]
  BY <1>2, <1>3, <1>4 DEF Traffic!HourRows
<1> HIDE DEF n
<1>6. f \in Seq(Traffic!HourRows) /\ DOMAIN f = 1..n
  BY <1>1, <1>5, IsAList
<1>7. \A k \in 1..n : f[k].hour = k - 1 /\ f[k].of = of(k)
  BY <1>2
<1>8. QED BY <1>3, <1>6, <1>7 DEF HoursRight, f, n, of

\* What the site does is what the traffic does, or leaves it alone.
LEMMA TrafficBehaves == SiteSpec => Traffic!Spec
<1>1. SiteInit => Traffic!Init
  BY DEF SiteInit
<1>2. [SiteNext]_siteVars => [Traffic!Next]_Traffic!vars
  BY DEF SiteNext, siteVars, trafficVars, Traffic!vars
<1>3. QED BY <1>1, <1>2, PTL DEF SiteSpec, Traffic!Spec

\* What the browser keeps of a query, and that its data is right for the query it is of.
IsAnswer(a) ==
  /\ a = [status |-> a.status, fetching |-> a.fetching, has |-> a.has, data |-> a.data]
  /\ a.status \in {"pending", "success", "error"} /\ a.fetching \in BOOLEAN /\ a.has \in BOOLEAN
DataRight(q, data) ==
  /\ q = Traffic!FlowsQuery => data \in Seq(Traffic!DayRows)
  /\ q = Traffic!BytesQuery => data \in Seq(BytesRows)
  /\ \A d \in Traffic!Days : q = Traffic!HoursQuery(d) => HoursRight(d, data)

CacheRight ==
  /\ cache = [q \in Traffic!Queries |-> cache[q]]
  /\ \A q \in Traffic!Queries : IsAnswer(cache[q]) /\ DataRight(q, cache[q].data)

TrafficInv ==
  /\ now \in Traffic!Hours /\ counted \subseteq Traffic!Hours /\ CacheRight
  /\ open \in BOOLEAN /\ selected \in Traffic!Days \cup {Traffic!NoDay}

\* The queries are different, and those of two days too.
LEMMA QueriesDiffer ==
  /\ Traffic!FlowsQuery # Traffic!BytesQuery
  /\ \A d : Traffic!HoursQuery(d) # Traffic!FlowsQuery /\ Traffic!HoursQuery(d) # Traffic!BytesQuery
  /\ \A d, e : Traffic!HoursQuery(d) = Traffic!HoursQuery(e) => d = e
  /\ \A d : Traffic!HoursQuery(d).hoursOf = d
<1>1. Traffic!FlowsQuery.list = "flows" /\ Traffic!BytesQuery.list = "bytes"
  BY DEF Traffic!FlowsQuery, Traffic!BytesQuery
<1>2. /\ "list" \in DOMAIN Traffic!FlowsQuery /\ "list" \in DOMAIN Traffic!BytesQuery
      /\ \A d : "list" \notin DOMAIN Traffic!HoursQuery(d)
  BY DEF Traffic!FlowsQuery, Traffic!BytesQuery, Traffic!HoursQuery
<1>3. \A d : Traffic!HoursQuery(d).hoursOf = d
  BY DEF Traffic!HoursQuery
<1>4. QED BY <1>1, <1>2, <1>3

\* No data is right for any query.
LEMMA NothingIsRight == \A q : DataRight(q, <<>>)
<1>1. \A T : <<>> \in Seq(T)
  OBVIOUS
<1>2. DOMAIN <<>> = {}
  OBVIOUS
<1>3. QED BY <1>1, <1>2 DEF DataRight, HoursRight

\* What the server answers is right for the buckets it has.
LEMMA ServedIsRight ==
  ASSUME counted \subseteq Traffic!Hours, NEW q \in Traffic!Queries
  PROVE  DataRight(q, Traffic!Served(q))
<1>1. CASE q = Traffic!FlowsQuery
  BY <1>1, QueriesDiffer, FlowsPercentIsRight DEF DataRight, Traffic!Served
<1>2. CASE q = Traffic!BytesQuery
  BY <1>2, QueriesDiffer, BytesAreRight DEF DataRight, Traffic!Served
<1>3. ASSUME NEW d \in Traffic!Days, q = Traffic!HoursQuery(d) PROVE DataRight(q, Traffic!Served(q))
  <2>1. Traffic!Served(q) = Traffic!FlowsPercentByDay(d)
    BY <1>3, QueriesDiffer DEF Traffic!Served
  <2>2. HoursRight(d, Traffic!Served(q))
    BY <2>1, HoursAreRight
  <2>3. QED BY <1>3, <2>2, QueriesDiffer DEF DataRight
<1>4. QED BY <1>1, <1>2, <1>3 DEF Traffic!Queries

\* The dashboard begins with nothing in its cache.
LEMMA TrafficBegins == Traffic!Init => TrafficInv
<1> SUFFICES ASSUME Traffic!Init PROVE TrafficInv
  OBVIOUS
<1>1. now \in Traffic!Hours
  BY Calendar DEF Traffic!Init, Traffic!Hours
<1>2. CacheRight
  <2>1. cache = [q \in Traffic!Queries |-> Traffic!NoQuery]
    BY DEF Traffic!Init
  <2>2. IsAnswer(Traffic!NoQuery) /\ Traffic!NoQuery.data = <<>>
    BY DEF IsAnswer, Traffic!NoQuery
  <2>3. QED BY <2>1, <2>2, NothingIsRight DEF CacheRight
<1>3. QED BY <1>1, <1>2 DEF TrafficInv, Traffic!Init

\* A query that starts to be fetched keeps the rest.
LEMMA Fetching ==
  ASSUME NEW s, NEW f, NEW h, NEW x, NEW a, a = [status |-> s, fetching |-> f, has |-> h, data |-> x],
         NEW b, b = [a EXCEPT !.fetching = TRUE]
  PROVE  b = [status |-> s, fetching |-> TRUE, has |-> h, data |-> x]
  OBVIOUS

\* A query is put, or fails: what is kept of it stays.
LEMMA StartedKeeps ==
  ASSUME NEW a, IsAnswer(a)
  PROVE  IsAnswer(Traffic!Started(a)) /\ Traffic!Started(a).data = a.data
<1> DEFINE s == a.status
           f == a.fetching
           h == a.has
           x == a.data
           status == IF h THEN s ELSE "pending"
<1>1. a = [status |-> s, fetching |-> f, has |-> h, data |-> x] /\ s \in {"pending", "success", "error"} /\ h \in BOOLEAN
  BY DEF IsAnswer
<1>2. Traffic!Started(a) = [status |-> status, fetching |-> TRUE, has |-> h, data |-> x]
  <2> DEFINE b == [a EXCEPT !.fetching = TRUE]
  <2>1. b = [status |-> s, fetching |-> TRUE, has |-> h, data |-> x]
    <3>1. b = [a EXCEPT !.fetching = TRUE]
      OBVIOUS
    <3> HIDE DEF b
    <3>2. QED BY <1>1, <3>1, Fetching
  <2>2. b.status = s
    BY <2>1
  <2>3. Traffic!Started(a) = [b EXCEPT !.status = IF a.has THEN b.status ELSE "pending"]
    BY DEF Traffic!Started
  <2> HIDE DEF b
  <2>4. Traffic!Started(a) = [b EXCEPT !.status = status]
    BY <2>2, <2>3
  <2> HIDE DEF status, s, f, h, x
  <2>5. QED BY <2>1, <2>4
<1> HIDE DEF s, f, h, x
<1>3. status \in {"pending", "success", "error"}
  BY <1>1
<1> HIDE DEF status
<1>4. QED BY <1>1, <1>2, <1>3 DEF IsAnswer, x

\* A fetch that fails keeps the data.
LEMMA FailedKeeps ==
  ASSUME NEW a, IsAnswer(a), NEW b, b = [[a EXCEPT !.fetching = FALSE] EXCEPT !.status = "error"]
  PROVE  IsAnswer(b) /\ b.data = a.data
<1> DEFINE s == a.status
           f == a.fetching
           h == a.has
           x == a.data
<1>1. a = [status |-> s, fetching |-> f, has |-> h, data |-> x] /\ h \in BOOLEAN
  BY DEF IsAnswer
<1> HIDE DEF s, f, h, x
<1>2. b = [status |-> "error", fetching |-> FALSE, has |-> h, data |-> x]
  BY <1>1
<1>3. QED BY <1>1, <1>2 DEF IsAnswer, x

\* Whatever happens to the answers themselves, data that stays is right for its query.
LEMMA AnswersKeep ==
  ASSUME TrafficInv, cache' = [q \in Traffic!Queries |-> cache'[q]],
         \A q \in Traffic!Queries : IsAnswer(cache'[q]) /\ cache'[q].data = cache[q].data
  PROVE  CacheRight'
<1>1. \A q \in Traffic!Queries : DataRight(q, cache'[q].data)
  BY DEF TrafficInv, CacheRight
<1>2. QED BY <1>1 DEF CacheRight

\* What is looked at anew keeps its data.
LEMMA LookKeeps ==
  ASSUME TrafficInv, NEW qs, Traffic!Look(qs)
  PROVE  CacheRight'
<1>1. PICK stale : cache' = [q \in Traffic!Queries |->
                               IF q \in qs /\ (~cache[q].has \/ q \in stale) THEN Traffic!Started(cache[q])
                               ELSE cache[q]]
  BY DEF Traffic!Look
<1>2. \A q \in Traffic!Queries : IsAnswer(cache[q])
  BY DEF TrafficInv, CacheRight
<1>3. cache' = [q \in Traffic!Queries |-> cache'[q]]
  BY <1>1
<1>4. \A q \in Traffic!Queries : cache'[q] = Traffic!Started(cache[q]) \/ cache'[q] = cache[q]
  BY <1>1
<1>5. \A q \in Traffic!Queries : IsAnswer(cache'[q]) /\ cache'[q].data = cache[q].data
  BY <1>2, <1>4, StartedKeeps
<1>6. QED BY <1>3, <1>5, AnswersKeep

\* One answer is replaced by another that is right.
LEMMA AnswerReplaced ==
  ASSUME TrafficInv, NEW q \in Traffic!Queries, NEW a, cache' = [cache EXCEPT ![q] = a],
         IsAnswer(a), DataRight(q, a.data)
  PROVE  CacheRight'
<1>1. cache = [r \in Traffic!Queries |-> cache[r]]
  BY DEF TrafficInv, CacheRight
<1>2. /\ cache' = [r \in Traffic!Queries |-> cache'[r]] /\ cache'[q] = a
      /\ \A r \in Traffic!Queries : r # q => cache'[r] = cache[r]
  BY <1>1
<1>3. ASSUME NEW r \in Traffic!Queries PROVE IsAnswer(cache'[r]) /\ DataRight(r, cache'[r].data)
  <2>1. CASE r = q
    BY <1>2, <2>1
  <2>2. CASE r # q
    BY <1>2, <2>2 DEF TrafficInv, CacheRight
  <2>3. QED BY <2>1, <2>2
<1>4. QED BY <1>2, <1>3 DEF CacheRight

\* Whatever is counted and answered meanwhile, the data is right for what it was answered from.
LEMMA TrafficKept == TrafficInv /\ [Traffic!Next]_Traffic!vars => TrafficInv'
<1> SUFFICES ASSUME TrafficInv, [Traffic!Next]_Traffic!vars PROVE TrafficInv'
  OBVIOUS
<1>r. ASSUME counted' = counted PROVE (counted \subseteq Traffic!Hours)'
  BY <1>r DEF TrafficInv
<1>c. ASSUME cache' = cache PROVE CacheRight'
  BY <1>c DEF TrafficInv, CacheRight
<1>q. \A q \in Traffic!Queries : IsAnswer(cache[q]) /\ DataRight(q, cache[q].data)
  BY DEF TrafficInv, CacheRight
<1>1. CASE Traffic!Pass
  BY <1>1, <1>r, <1>c DEF Traffic!Pass, TrafficInv
<1>2. CASE Traffic!Count
  <2>1. counted' = counted \cup {now} /\ UNCHANGED <<now, cache, open, selected>>
    BY <1>2 DEF Traffic!Count
  <2>2. QED BY <2>1 DEF TrafficInv, CacheRight
<1>3. ASSUME NEW q \in Traffic!Queries, Traffic!Refetch(q) PROVE TrafficInv'
  <2>1. cache' = [cache EXCEPT ![q] = Traffic!Started(cache[q])] /\ UNCHANGED <<now, counted, open, selected>>
    BY <1>3 DEF Traffic!Refetch
  <2>2. CacheRight'
    BY <1>q, <2>1, StartedKeeps, AnswerReplaced
  <2>3. QED BY <1>r, <2>1, <2>2 DEF TrafficInv
<1>4. ASSUME NEW q \in Traffic!Queries, Traffic!Answered(q) PROVE TrafficInv'
  <2> DEFINE a == [status |-> "success", fetching |-> FALSE, has |-> TRUE, data |-> Traffic!Served(q)]
  <2>1. cache' = [cache EXCEPT ![q] = a] /\ UNCHANGED <<now, counted, open, selected>>
    BY <1>4 DEF Traffic!Answered
  <2>2. IsAnswer(a) /\ a.data = Traffic!Served(q)
    BY DEF IsAnswer
  <2>3. DataRight(q, Traffic!Served(q))
    BY ServedIsRight DEF TrafficInv
  <2> HIDE DEF a
  <2>4. CacheRight'
    BY <2>1, <2>2, <2>3, AnswerReplaced
  <2>5. QED BY <1>r, <2>1, <2>4 DEF TrafficInv
<1>5. ASSUME NEW q \in Traffic!Queries, Traffic!Failed(q) PROVE TrafficInv'
  <2> DEFINE b == [[cache[q] EXCEPT !.fetching = FALSE] EXCEPT !.status = "error"]
  <2>1. cache' = [cache EXCEPT ![q] = b] /\ UNCHANGED <<now, counted, open, selected>>
    <3>1. cache' = [[cache EXCEPT ![q].fetching = FALSE] EXCEPT ![q].status = "error"]
      BY <1>5 DEF Traffic!Failed
    <3>2. cache = [r \in Traffic!Queries |-> cache[r]]
      BY DEF TrafficInv, CacheRight
    <3>3. QED BY <1>5, <3>1, <3>2 DEF Traffic!Failed
  <2>2. IsAnswer(b) /\ b.data = cache[q].data
    BY <1>q, FailedKeeps
  <2> HIDE DEF b
  <2>3. CacheRight'
    BY <1>q, <2>1, <2>2, AnswerReplaced
  <2>4. QED BY <1>r, <2>1, <2>3 DEF TrafficInv
<1>6. ASSUME NEW q \in Traffic!Queries, Traffic!Forget(q) PROVE TrafficInv'
  <2>1. cache' = [cache EXCEPT ![q] = Traffic!NoQuery] /\ UNCHANGED <<now, counted, open, selected>>
    BY <1>6 DEF Traffic!Forget
  <2>2. IsAnswer(Traffic!NoQuery) /\ Traffic!NoQuery.data = <<>>
    BY DEF IsAnswer, Traffic!NoQuery
  <2>3. DataRight(q, Traffic!NoQuery.data)
    BY <2>2, NothingIsRight
  <2>4. CacheRight'
    BY <2>1, <2>2, <2>3, AnswerReplaced
  <2>5. QED BY <1>r, <2>1, <2>4 DEF TrafficInv
<1>7. CASE Traffic!Open
  <2>1. open' = TRUE /\ selected' = Traffic!NoDay /\ UNCHANGED <<now, counted>>
        /\ Traffic!Look({Traffic!FlowsQuery, Traffic!BytesQuery})
    BY <1>7 DEF Traffic!Open
  <2>2. CacheRight'
    BY <2>1, LookKeeps
  <2>3. QED BY <1>r, <2>1, <2>2 DEF TrafficInv
<1>8. CASE Traffic!Leave
  BY <1>8, <1>r, <1>c DEF Traffic!Leave, TrafficInv
<1>9. ASSUME NEW d \in Traffic!Days, Traffic!HandlePointClick(d) PROVE TrafficInv'
  <2>1. selected' = d /\ UNCHANGED <<now, counted, open>> /\ Traffic!Look({Traffic!HoursQuery(d)})
    BY <1>9 DEF Traffic!HandlePointClick
  <2>2. CacheRight'
    BY <2>1, LookKeeps
  <2>3. QED BY <1>r, <2>1, <2>2 DEF TrafficInv
<1>10. CASE Traffic!HandleBackToDaily
  BY <1>10, <1>r, <1>c DEF Traffic!HandleBackToDaily, TrafficInv
<1>11. CASE UNCHANGED Traffic!vars
  BY <1>11, <1>r, <1>c DEF Traffic!vars, TrafficInv
<1>12. QED
  BY <1>1, <1>2, <1>3, <1>4, <1>5, <1>6, <1>7, <1>8, <1>9, <1>10, <1>11 DEF Traffic!Next, Traffic!ServiceNext

\* The invariant of the traffic is inductive.
LEMMA TrafficInvariant == SiteSpec => []TrafficInv
<1>1. Traffic!Spec => []TrafficInv
  BY TrafficBegins, TrafficKept, PTL DEF Traffic!Spec
<1>2. QED BY <1>1, TrafficBehaves, PTL

\* The invariant has the types.
LEMMA TrafficTypes == TrafficInv => Traffic!TypeOK
<1> SUFFICES ASSUME TrafficInv PROVE Traffic!TypeOK
  OBVIOUS
<1>1. \A q \in Traffic!Queries : IsAnswer(cache[q]) /\ DataRight(q, cache[q].data)
  BY DEF TrafficInv, CacheRight
<1>2. \A q \in Traffic!Queries : /\ cache[q].status \in {"pending", "success", "error"}
                                 /\ cache[q].fetching \in BOOLEAN /\ cache[q].has \in BOOLEAN
  BY <1>1 DEF IsAnswer
<1>3. /\ Traffic!FlowsQuery \in Traffic!Queries /\ Traffic!BytesQuery \in Traffic!Queries
      /\ \A d \in Traffic!Days : Traffic!HoursQuery(d) \in Traffic!Queries
  BY DEF Traffic!Queries
<1>4. /\ Traffic!Data(Traffic!FlowsQuery) \in Seq(Traffic!DayRows)
      /\ Traffic!Data(Traffic!BytesQuery) \in Seq(BytesRows)
  BY <1>1, <1>3 DEF DataRight, Traffic!Data
<1>5. \A d \in Traffic!Days : Traffic!Data(Traffic!HoursQuery(d)) \in Seq(Traffic!HourRows)
  BY <1>1, <1>3 DEF DataRight, HoursRight, Traffic!Data
<1>6. QED BY <1>2, <1>4, <1>5 DEF Traffic!TypeOK, TrafficInv, BytesRows

\* The hours under a day.
LEMMA DetailIsRight == TrafficInv => Traffic!DetailIsOfItsDay
<1> SUFFICES ASSUME TrafficInv, selected # Traffic!NoDay, Traffic!EvolutionPanel.kind = "chart",
                    NEW k \in DOMAIN Traffic!EvolutionPanel.points
             PROVE  /\ Traffic!EvolutionPanel.points[k].label = k - 1
                    /\ Traffic!EvolutionPanel.points[k].of \subseteq {selected * HoursOfDay + k - 1}
  BY DEF Traffic!DetailIsOfItsDay
<1> DEFINE hours == cache[Traffic!HoursQuery(selected)].data
           points == [j \in DOMAIN hours |-> Traffic!FlowTooltip("hour", hours[j])]
<1>1. selected \in Traffic!Days /\ HoursRight(selected, hours)
  <2>1. selected \in Traffic!Days /\ Traffic!HoursQuery(selected) \in Traffic!Queries
    BY DEF TrafficInv, Traffic!Queries
  <2>2. QED BY <2>1 DEF TrafficInv, CacheRight, DataRight
<1>2. Traffic!EvolutionPanel = Traffic!EvolutionChart
  <2>1. [kind |-> "spinner"].kind # "chart" /\ [kind |-> "no data"].kind # "chart"
    OBVIOUS
  <2>2. \/ Traffic!EvolutionPanel = [kind |-> "spinner"] \/ Traffic!EvolutionPanel = [kind |-> "no data"]
        \/ Traffic!EvolutionPanel = Traffic!EvolutionChart
    BY DEF Traffic!EvolutionPanel
  <2>3. QED BY <2>1, <2>2
<1>3. Traffic!EvolutionChart.points = points
  BY DEF Traffic!EvolutionChart, Traffic!Data, Traffic!Detail
<1>4. k \in DOMAIN hours /\ Traffic!EvolutionPanel.points[k] = Traffic!FlowTooltip("hour", hours[k])
  BY <1>2, <1>3
<1> HIDE DEF hours
<1>5. Traffic!FlowTooltip("hour", hours[k]).label = hours[k].hour /\ Traffic!FlowTooltip("hour", hours[k]).of = hours[k].of
  BY DEF Traffic!FlowTooltip
<1>6. QED BY <1>1, <1>4, <1>5 DEF HoursRight

\* The dates under the charts: a day before the first of the month is in the same month.
LEMMA DateOfTheDayBefore ==
  ASSUME NEW d \in Nat, NEW m \in Nat \ {0}, d % m # 0
  PROVE  (d - 1) % m = (d % m) - 1 /\ (d - 1) \div m = d \div m
<1> DEFINE q == d \div m
           r == d % m
           p == (d - 1) \div m
           t == (d - 1) % m
<1>a. q = d \div m /\ r = d % m /\ p = (d - 1) \div m /\ t = (d - 1) % m /\ r # 0
  OBVIOUS
<1>3. d - 1 \in Nat
  <2>1. d # 0
    BY SMT
  <2>2. QED BY <2>1
<1> HIDE DEF q, r, p, t
<1>1. q \in Nat /\ r \in 0..(m - 1) /\ d = m * q + r /\ m * q \in Nat
  <2>1. q \in Nat
    BY <1>a, SMT
  <2>2. r \in Nat /\ r < m
    BY <1>a, SMT
  <2>3. d = m * q + r
    BY <1>a, SMT
  <2>4. QED BY <2>1, <2>2, <2>3
<1>2. d - 1 = m * q + (r - 1) /\ r - 1 \in 0..(m - 1)
  BY <1>1, <1>a
<1>4. p \in Nat /\ t \in 0..(m - 1) /\ d - 1 = m * p + t
  <2> DEFINE e == d - 1
  <2>0. e \in Nat /\ p = e \div m /\ t = e % m
    BY <1>a, <1>3
  <2> HIDE DEF e
  <2>1. p \in Nat
    BY <2>0, SMT
  <2>2. t \in Nat /\ t < m
    BY <2>0, SMT
  <2>3. e = m * p + t
    BY <2>0, SMT
  <2>4. p \in Nat /\ t \in 0..(m - 1) /\ e = m * p + t
    BY <2>1, <2>2, <2>3
  <2>5. QED BY <2>4 DEF e
<1>5. m * q + (r - 1) = m * p + t /\ q \in Nat /\ p \in Nat /\ t \in 0..(m - 1)
  BY <1>1, <1>2, <1>4
<1>6. ~(q < p)
  <2> SUFFICES ASSUME q < p PROVE FALSE
    OBVIOUS
  <2>1. m * q + m <= m * p
    <3>1. p - q - 1 \in Nat /\ m * (p - q - 1) \in Nat /\ m * p = m * q + m + m * (p - q - 1)
      BY <1>5
    <3>2. QED BY <1>5, <3>1
  <2>2. QED BY <1>2, <1>5, <2>1
<1>7. ~(p < q)
  <2> SUFFICES ASSUME p < q PROVE FALSE
    OBVIOUS
  <2>1. m * p + m <= m * q
    <3>1. q - p - 1 \in Nat /\ m * (q - p - 1) \in Nat /\ m * q = m * p + m + m * (q - p - 1)
      BY <1>5
    <3>2. QED BY <1>5, <3>1
  <2>2. QED BY <1>2, <1>5, <2>1
<1>8. q = p
  BY <1>5, <1>6, <1>7
<1>9. t = r - 1
  <2> DEFINE x == m * q
  <2>1. x \in Nat /\ x + (r - 1) = x + t
    BY <1>5, <1>8
  <2>2. r \in Int /\ t \in Int
    BY <1>1, <1>5
  <2> HIDE DEF x
  <2>3. QED BY <2>1, <2>2
<1>10. QED BY <1>8, <1>9 DEF p, q, r, t

\* The dates the dashboard prints are those of the days.
LEMMA DatesAreRight == TrafficInv => Traffic!DatesReadRight
<1> SUFFICES ASSUME TrafficInv, NEW k \in DOMAIN Traffic!BytesChart,
                    Traffic!DateOf(Traffic!BytesChart[k].bars.label)[1] # 1
             PROVE  Traffic!BytesChart[k].tick = Traffic!DateOf(Traffic!BytesChart[k].bars.label)
  BY DEF Traffic!DatesReadRight
<1> DEFINE data == Traffic!Data(Traffic!BytesQuery)
           d == data[k].date
<1>1. /\ k \in DOMAIN data
      /\ Traffic!BytesChart[k] = [tick |-> Traffic!FormatDate(d), bars |-> Traffic!BytesTooltip(data[k])]
  BY DEF Traffic!BytesChart
<1>2. Traffic!BytesTooltip(data[k]).label = d
  BY DEF Traffic!BytesTooltip
<1>3. Traffic!BytesChart[k].tick = Traffic!FormatDate(d) /\ Traffic!BytesChart[k].bars.label = d
  BY <1>1, <1>2
<1>4. d \in Nat
  <2>1. data \in Seq(BytesRows)
    <3>1. Traffic!BytesQuery \in Traffic!Queries
      BY DEF Traffic!Queries
    <3>2. QED BY <3>1 DEF TrafficInv, CacheRight, DataRight, Traffic!Data
  <2> HIDE DEF data
  <2>2. data[k] \in BytesRows
    BY <1>1, <2>1, IsOfTheList
  <2>3. d \in Traffic!Days
    BY <2>2 DEF BytesRows
  <2>4. QED BY <2>3, DaysAreNumbers
<1> HIDE DEF d
<1>5. \A n : /\ Traffic!DateOf(n) = <<(n % DaysOfMonth) + 1, n \div DaysOfMonth>>
             /\ Traffic!DateOf(n)[1] = (n % DaysOfMonth) + 1 /\ Traffic!DateOf(n)[2] = n \div DaysOfMonth
  BY DEF Traffic!DateOf
<1>6. d % DaysOfMonth # 0
  BY <1>3, <1>5
<1>7. (d - 1) % DaysOfMonth = (d % DaysOfMonth) - 1 /\ (d - 1) \div DaysOfMonth = d \div DaysOfMonth
  BY <1>4, <1>6, Calendar, DateOfTheDayBefore
<1>8. Traffic!FormatDate(d) = <<(((d - 1) % DaysOfMonth) + 1) + 1, (d - 1) \div DaysOfMonth>>
  BY <1>5 DEF Traffic!FormatDate
<1>9. d % DaysOfMonth \in Int
  BY <1>4, Calendar, SMT
<1>10. ((d % DaysOfMonth) - 1 + 1) + 1 = (d % DaysOfMonth) + 1
  BY <1>9
<1>11. Traffic!FormatDate(d) = Traffic!DateOf(d)
  BY <1>5, <1>7, <1>8, <1>10
<1>12. QED BY <1>3, <1>11
\* The days of the window but the first have all their hours in it.
LEMMA HoursOfADay ==
  ASSUME counted \subseteq Traffic!Hours, now \in Traffic!Hours, NEW d \in Traffic!Days, Traffic!HoursInWindow(d) # {}, d # Traffic!FirstDay
  PROVE  Traffic!HoursInWindow(d) = counted \cap (HoursOfDay * d)..(HoursOfDay * d + HoursOfDay - 1)
<1> DEFINE n == HoursOfDay
           first == Traffic!StartOfWindow
           f == Traffic!FirstDay
<1>1. n \in Nat \ {0} /\ d \in Nat /\ n * d \in Nat
  <2>1. n \in Nat \ {0} /\ d \in Nat
    BY Calendar, DaysAreNumbers
  <2>2. QED BY <2>1
<1>2. \A a \in Int : a \div n \in Int /\ n * (a \div n) <= a /\ a < n * (a \div n) + n
  <2> SUFFICES ASSUME NEW a \in Int PROVE a \div n \in Int /\ n * (a \div n) <= a /\ a < n * (a \div n) + n
    OBVIOUS
  <2> HIDE DEF n
  <2>1. a \div n \in Int
    BY <1>1, SMT
  <2>2. n * (a \div n) <= a
    BY <1>1, SMT
  <2>3. a < n * (a \div n) + n
    BY <1>1, SMT
  <2>4. QED BY <2>1, <2>2, <2>3
<1>3. first \in Int
  <2>1. now \in Int /\ Offset \in Int /\ WindowDays \in Int /\ WindowDays * n \in Int
    BY <1>1, Calendar, DaysAreNumbers
  <2> DEFINE w == (now - WindowDays * HoursOfDay + Offset) \div HoursOfDay
  <2>2. w \in Int
    BY <1>2, <2>1
  <2>3. first = w * HoursOfDay - Offset
    BY DEF Traffic!StartOfWindow
  <2> HIDE DEF w
  <2>4. w * HoursOfDay \in Int
    BY <1>1, <2>2
  <2>5. QED BY <2>1, <2>3, <2>4
<1>4. f = first \div n /\ f \in Int /\ n * f <= first /\ first < n * f + n
  BY <1>2, <1>3 DEF Traffic!FirstDay, Traffic!DayOf
<1>5. \A h \in Traffic!Hours : /\ h \in Nat /\ Traffic!DayOf(h) \in Nat
                               /\ n * Traffic!DayOf(h) <= h /\ h < n * Traffic!DayOf(h) + n
  <2>1. \A h \in Traffic!Hours : h \in Nat /\ Traffic!DayOf(h) \in Nat
    BY DaysAreNumbers DEF Traffic!Days
  <2>2. QED BY <1>2, <2>1 DEF Traffic!DayOf
<1> HIDE DEF n, first, f
\* Numbers of days are as far apart as their first hours.
<1>6. \A x, y \in Int : x < y => n * x + n <= n * y
  <2> SUFFICES ASSUME NEW x \in Int, NEW y \in Int, x < y PROVE n * x + n <= n * y
    OBVIOUS
  <2>1. y - x - 1 \in Nat /\ n * (y - x - 1) \in Nat /\ n * y = n * x + n + n * (y - x - 1)
    BY <1>1
  <2>2. n * x \in Int /\ n * y \in Int
    BY <1>1
  <2>3. QED BY <1>1, <2>1, <2>2
<1>7. \A h \in Traffic!Hours : Traffic!DayOf(h) = d <=> n * d <= h /\ h < n * d + n
  <2> SUFFICES ASSUME NEW h \in Traffic!Hours PROVE Traffic!DayOf(h) = d <=> n * d <= h /\ h < n * d + n
    OBVIOUS
  <2> DEFINE x == Traffic!DayOf(h)
  <2>1. x \in Nat /\ h \in Nat /\ n * x <= h /\ h < n * x + n /\ n * x \in Int
    <3>1. x \in Nat /\ h \in Nat /\ n * x <= h /\ h < n * x + n
      BY <1>5
    <3>2. \A y \in Nat : n * y \in Int
      BY <1>1
    <3>3. QED BY <3>1, <3>2
  <2> HIDE DEF x
  <2>2. x < d => h < n * d
    BY <1>1, <1>6, <2>1
  <2>3. d < x => n * d + n <= h
    BY <1>1, <1>6, <2>1
  <2>4. (x = d) <=> n * d <= h /\ h < n * d + n
    BY <1>1, <2>1, <2>2, <2>3
  <2>5. QED BY <2>4 DEF x
<1>8. first <= n * d
  <2>1. PICK h \in Traffic!Hours : h >= first /\ Traffic!DayOf(h) = d
    BY DEF Traffic!HoursInWindow, Traffic!InWindow, first
  <2>2. h \in Nat /\ h < n * d + n
    BY <1>5, <1>7, <2>1
  <2>3. ~(d < f)
    <3> SUFFICES ASSUME d < f PROVE FALSE
      OBVIOUS
    <3>1. n * d + n <= n * f /\ n * f \in Int
      BY <1>1, <1>4, <1>6
    <3>2. QED BY <1>1, <1>3, <1>4, <2>1, <2>2, <3>1
  <2>4. f < d
    BY <1>1, <1>4, <2>3 DEF f
  <2>5. n * f + n <= n * d /\ n * f \in Int
    BY <1>1, <1>4, <1>6, <2>4
  <2>6. QED BY <1>1, <1>3, <1>4, <2>5
<1>9. \A h \in Traffic!Hours : n * d <= h => h >= first
  BY <1>1, <1>3, <1>5, <1>8
<1>10. \A h \in Traffic!Hours : n * d <= h /\ h < n * d + n <=> h \in (n * d)..(n * d + n - 1)
  BY <1>1, <1>5
<1>11. \A h : h \in Traffic!HoursInWindow(d) <=> h \in counted /\ h \in (n * d)..(n * d + n - 1)
  BY <1>7, <1>9, <1>10 DEF Traffic!HoursInWindow, Traffic!InWindow, first
<1>12. QED BY <1>11 DEF n

\* Each day that is opened has the hours that were grouped into its row.
LEMMA DaysMatch == TrafficInv => Traffic!DaysMatchTheirHours
<1> SUFFICES ASSUME TrafficInv, NEW k \in DOMAIN Traffic!FlowsPercent,
                    Traffic!FlowsPercent[k].date # Traffic!FirstDay
             PROVE  Traffic!FlowsPercent[k].of
                      = UNION {hour.of : hour \in Traffic!ToSet(Traffic!FlowsPercentByDay(Traffic!FlowsPercent[k].date))}
  BY DEF Traffic!DaysMatchTheirHours, Traffic!ToSet
<1> DEFINE days == Traffic!DaysCounted
           d == days[k]
           f == Traffic!FlowsPercentByDay(d)
           n == HoursOfDay
           ofDay == Traffic!HoursInWindow(d)
<1>1. counted \subseteq Traffic!Hours /\ now \in Traffic!Hours
  BY DEF TrafficInv
<1>2. /\ k \in DOMAIN days
      /\ Traffic!FlowsPercent[k] = [date |-> d, row |-> Traffic!NoShares, of |-> ofDay]
  BY DEF Traffic!FlowsPercent
<1>3. d \in Traffic!Days /\ ofDay # {}
  <2>1. days \in Seq(Busy)
    BY DaysHaveBuckets
  <2> HIDE DEF days
  <2>2. d \in Busy
    BY <1>2, <2>1, IsOfTheList
  <2>3. QED BY <2>2 DEF Busy
<1>4. Traffic!FlowsPercent[k].date = d /\ Traffic!FlowsPercent[k].of = ofDay
  BY <1>2
<1> HIDE DEF days
<1>5. ofDay = counted \cap (n * d)..(n * d + n - 1)
  BY <1>1, <1>3, <1>4, HoursOfADay
<1>6. DOMAIN f = 1..n /\ \A j \in 1..n : f[j].of = counted \cap {d * n + j - 1}
  BY <1>1, HoursAreRight
<1>7. d \in Nat /\ n \in Nat
  BY <1>3, Calendar, DaysAreNumbers
<1> HIDE DEF d, f, n, ofDay
<1>8. \A j \in 1..n : d * n + j - 1 \in (n * d)..(n * d + n - 1)
  <2>1. d * n \in Nat /\ n * d = d * n
    BY <1>7
  <2> DEFINE m == d * n
  <2>2. m \in Nat /\ n * d = m
    BY <2>1
  <2> HIDE DEF m
  <2>3. \A j \in 1..n : m + j - 1 \in m..(m + n - 1)
    BY <1>7, <2>2
  <2>4. QED BY <2>2, <2>3 DEF m
<1>9. \A h \in (n * d)..(n * d + n - 1) : \E j \in 1..n : h = d * n + j - 1
  <2>1. d * n \in Nat /\ n * d = d * n
    BY <1>7
  <2> DEFINE m == d * n
  <2>2. m \in Nat /\ n * d = m
    BY <2>1
  <2> HIDE DEF m
  <2>3. \A h \in m..(m + n - 1) : h - m + 1 \in 1..n /\ h = m + (h - m + 1) - 1
    BY <1>7, <2>2
  <2>4. QED BY <2>2, <2>3 DEF m
<1>10. \A h : h \in ofDay <=> \E j \in DOMAIN f : h \in f[j].of
  BY <1>5, <1>6, <1>8, <1>9
<1>11. UNION {hour.of : hour \in Traffic!ToSet(f)} = ofDay
  BY <1>10, Zenon DEF Traffic!ToSet
<1>12. QED BY <1>4, <1>11 DEF f, d

\* The dashboard of the traffic: a day's row is made of the very hours its chart is made of,
\* the chart under a day is of that day however late its answer came, and the dates under the
\* charts are right, but on the first of a month (GetIPVersionFlowsPercent and
\* GetIPVersionFlowsPercentByDay of ipVersionMetricService.go, IPVersionDashboard.tsx).
THEOREM TrafficFollowsItsDays == SiteSpec => []TrafficIsRight
<1>1. TrafficInv => TrafficIsRight
  BY DetailIsRight, DaysMatch, DatesAreRight DEF TrafficIsRight
<1>2. QED BY <1>1, TrafficInvariant, PTL

-----------------------------------------------------------------------------
(* The pages of the table *)

\* What comes before what is a number: every element has its own, from 0 to one less than there
\* are elements, and every such number is one's.
Precede(S, R, a) == {b \in S : <<b, a>> \in R}
Rank(S, R, a) == Cardinality(Precede(S, R, a))

\* Whatever the order, the ranks of n elements are the numbers from 0 to n - 1, each once.
LEMMA RanksAreNumbers ==
  ASSUME NEW S, IsFiniteSet(S), NEW R, \A a \in S : <<a, a>> \notin R,
         \A a, b, c \in S : <<a, b>> \in R /\ <<b, c>> \in R => <<a, c>> \in R,
         \A a, b \in S : a # b => <<a, b>> \in R \/ <<b, a>> \in R
  PROVE  /\ \A a \in S : Rank(S, R, a) \in 0..(Cardinality(S) - 1)
         /\ \A a, b \in S : Rank(S, R, a) = Rank(S, R, b) => a = b
         /\ \A k \in 0..(Cardinality(S) - 1) : \E a \in S : Rank(S, R, a) = k
<1> DEFINE n == Cardinality(S)
           f == [a \in S |-> Rank(S, R, a)]
<1>1. n \in Nat
  BY FS_CardinalityType
<1>2. ASSUME NEW a \in S PROVE Rank(S, R, a) \in 0..(n - 1)
  <2> DEFINE p == Precede(S, R, a)
  <2>1. p \in SUBSET S /\ p # S
    BY DEF Precede
  <2> HIDE DEF p
  <2>2. IsFiniteSet(p) /\ Cardinality(p) <= n /\ Cardinality(p) # n
    BY <2>1, FS_Subset
  <2>3. Cardinality(p) \in Nat
    BY <2>2, FS_CardinalityType
  <2>4. QED BY <1>1, <2>2, <2>3 DEF Rank, p
<1>3. ASSUME NEW a \in S, NEW b \in S, <<a, b>> \in R PROVE Rank(S, R, a) < Rank(S, R, b)
  <2> DEFINE p == Precede(S, R, a)
             q == Precede(S, R, b)
  <2>1. q \in SUBSET S /\ p \in SUBSET q /\ a \in q /\ a \notin p
    BY <1>3 DEF Precede
  <2> HIDE DEF p, q
  <2>2. IsFiniteSet(q)
    BY <2>1, FS_Subset
  <2>3. IsFiniteSet(p) /\ Cardinality(p) <= Cardinality(q) /\ (Cardinality(q) = Cardinality(p) => q = p)
    BY <2>1, <2>2, FS_Subset
  <2>4. Cardinality(p) \in Nat /\ Cardinality(q) \in Nat
    BY <2>2, <2>3, FS_CardinalityType
  <2>5. QED BY <2>1, <2>3, <2>4 DEF Rank, p, q
<1>4. ASSUME NEW a \in S, NEW b \in S, Rank(S, R, a) = Rank(S, R, b) PROVE a = b
  <2>1. Rank(S, R, a) \in Int /\ Rank(S, R, b) \in Int
    BY <1>2
  <2>2. ~(<<a, b>> \in R) /\ ~(<<b, a>> \in R)
    BY <1>3, <1>4, <2>1
  <2>3. QED BY <2>2
<1>5. f \in Injection(S, 0..(n - 1))
  BY <1>2, <1>4 DEF Injection, IsInjective
<1>6. IsFiniteSet(0..(n - 1)) /\ Cardinality(0..(n - 1)) = n
  <2>1. 0 \in Int /\ n - 1 \in Int /\ (0 > n - 1 => n = 0) /\ (n - 1) - 0 + 1 = n
    BY <1>1
  <2> HIDE DEF n
  <2>2. QED BY <1>1, <2>1, FS_Interval
<1>7. f \in Surjection(S, 0..(n - 1))
  <2> HIDE DEF f, n
  <2>1. Cardinality(S) = n
    BY DEF n
  <2>2. QED BY <1>5, <1>6, <2>1, FS_Injection
<1>8. \A k \in 0..(n - 1) : \E a \in S : Rank(S, R, a) = k
  BY <1>7 DEF Surjection
<1>9. QED BY <1>2, <1>4, <1>8

\* The devices the server may have.
Devices == [id : Ids, name : Names, active : BOOLEAN]
IsServer(S) == S \subseteq Devices /\ IsFiniteSet(S) /\ \A r, s \in S : r.id = s.id => r = s

\* The table's module counts as this one does.
LEMMA SameCardinality == \A S : Table!Cardinality(S) = Cardinality(S)
  BY DEF Table!Cardinality, Cardinality
\* And calls the same sets finite.
LEMMA SameFiniteness == \A S : Table!IsFiniteSet(S) = IsFiniteSet(S)
  BY DEF Table!IsFiniteSet, IsFiniteSet

\* Sorting loses no device and shows none twice.
IsAllOf(o, S, n) ==
  /\ n \in Nat /\ o \in [1..n -> S]
  /\ \A j, k \in 1..n : o[j] = o[k] => j = k
  /\ \A r \in S : \E k \in 1..n : o[k] = r

\* The list the devices are sorted into has each of them once, whatever their names.
LEMMA SortedIsAll ==
  ASSUME NEW S, IsServer(S), NEW s \in {"none", "asc", "desc"}
  PROVE  IsAllOf(Table!Sorted(S, s), S, Cardinality(S))
<1> DEFINE o == Table!Sorted(S, s)
           n == Cardinality(S)
           R == {p \in S \X S : Table!Before(p[1], p[2], s)}
<1>1. IsFiniteSet(S) /\ n \in Nat
  BY FS_CardinalityType DEF IsServer
<1>2. \A r \in S : r.id \in Int /\ r.name \in Int
  BY PartsAssumption DEF IsServer, Devices, Table!TableAssumption
<1>3. \A a, b \in S : a # b => a.id # b.id
  BY DEF IsServer
<1>4. \A a, b \in S : <<a, b>> \in R <=> Table!Before(a, b, s)
  OBVIOUS
<1>5. \A a \in S : ~Table!Before(a, a, s)
  BY <1>2 DEF Table!Before
<1>6. ASSUME NEW a \in S, NEW b \in S, NEW c \in S, Table!Before(a, b, s), Table!Before(b, c, s)
      PROVE  Table!Before(a, c, s)
  BY <1>2, <1>6 DEF Table!Before
<1>7. \A a, b \in S : a # b => Table!Before(a, b, s) \/ Table!Before(b, a, s)
  BY <1>2, <1>3 DEF Table!Before
<1> HIDE DEF R
<1>8. /\ \A a \in S : Rank(S, R, a) \in 0..(n - 1)
      /\ \A a, b \in S : Rank(S, R, a) = Rank(S, R, b) => a = b
      /\ \A k \in 0..(n - 1) : \E a \in S : Rank(S, R, a) = k
  <2>1. /\ \A a \in S : <<a, a>> \notin R
        /\ \A a, b, c \in S : <<a, b>> \in R /\ <<b, c>> \in R => <<a, c>> \in R
        /\ \A a, b \in S : a # b => <<a, b>> \in R \/ <<b, a>> \in R
    BY <1>4, <1>5, <1>6, <1>7
  <2>2. QED BY <1>1, <2>1, RanksAreNumbers
<1>9. \A r \in S : Table!Preceding(r, S, s) = Rank(S, R, r)
  <2> SUFFICES ASSUME NEW r \in S PROVE Table!Preceding(r, S, s) = Rank(S, R, r)
    OBVIOUS
  <2>1. {t \in S : Table!Before(t, r, s)} = Precede(S, R, r)
    BY <1>4 DEF Precede
  <2>2. QED BY <2>1, SameCardinality, Zenon DEF Rank, Table!Preceding
<1>10. o = [k \in 1..n |-> CHOOSE x \in S : Table!Preceding(x, S, s) = k - 1]
  BY SameCardinality DEF Table!Sorted
<1> HIDE DEF o, n
<1>11. \A k \in 1..n : o[k] \in S /\ Rank(S, R, o[k]) = k - 1
  <2> SUFFICES ASSUME NEW k \in 1..n PROVE o[k] \in S /\ Rank(S, R, o[k]) = k - 1
    OBVIOUS
  <2>1. k - 1 \in 0..(n - 1)
    BY <1>1
  <2>2. PICK r \in S : Rank(S, R, r) = k - 1
    BY <1>8, <2>1
  <2>3. o[k] = CHOOSE x \in S : Table!Preceding(x, S, s) = k - 1
    BY <1>10
  <2>4. o[k] \in S /\ Table!Preceding(o[k], S, s) = k - 1
    BY <1>9, <2>2, <2>3
  <2>5. QED BY <1>9, <2>4
<1>12. \A j, k \in 1..n : o[j] = o[k] => j = k
  BY <1>1, <1>11
<1>13. \A r \in S : \E k \in 1..n : o[k] = r
  <2> SUFFICES ASSUME NEW r \in S PROVE \E k \in 1..n : o[k] = r
    OBVIOUS
  <2>1. Rank(S, R, r) + 1 \in 1..n /\ (Rank(S, R, r) + 1) - 1 = Rank(S, R, r)
    BY <1>1, <1>8
  <2>2. o[Rank(S, R, r) + 1] = r
    BY <1>8, <1>11, <2>1
  <2>3. QED BY <2>1, <2>2
<1>14. o \in [1..n -> S]
  BY <1>10, <1>11
<1>15. QED BY <1>1, <1>12, <1>13, <1>14 DEF IsAllOf, o, n

\* Page by page.
LEMMA PageNumbers ==
  ASSUME NEW n \in Nat \ {0}
  PROVE  /\ Table!LastPage(n) \in Nat
         /\ \A p \in 0..Table!LastPage(n) : p * PageSize < n
         /\ \A k \in 1..n : \E p \in 0..Table!LastPage(n) : \E i \in 1..PageSize : k = p * PageSize + i
<1> DEFINE b == PageSize
           q == Table!LastPage(n)
<1>1. b \in Nat \ {0}
  BY PartsAssumption DEF Table!TableAssumption
<1>2. q = (n - 1) \div b /\ n - 1 \in Nat
  BY DEF Table!LastPage
<1> HIDE DEF b, q
<1>3. q \in Nat /\ b * q <= n - 1 /\ n - 1 < b * q + b
  BY <1>1, <1>2, Division
<1>4. \A x, y \in Nat : x < y => b * x + b <= b * y
  <2> SUFFICES ASSUME NEW x \in Nat, NEW y \in Nat, x < y PROVE b * x + b <= b * y
    OBVIOUS
  <2>1. y - x - 1 \in Nat /\ b * (y - x - 1) \in Nat /\ b * y = b * x + b + b * (y - x - 1)
    BY <1>1
  <2>2. b * x \in Nat /\ b * y \in Nat
    BY <1>1
  <2>3. QED BY <1>1, <2>1, <2>2
<1>5. \A p \in Nat : p * b = b * p /\ b * p \in Nat
  BY <1>1
<1>6. ASSUME NEW p \in 0..q PROVE p * b < n
  <2>1. p \in Nat /\ (p < q \/ p = q)
    BY <1>3
  <2>2. p < q => b * p + b <= b * q
    BY <1>3, <1>4, <2>1
  <2>3. b * p <= b * q
    BY <1>1, <1>3, <1>5, <2>1, <2>2
  <2>4. QED BY <1>3, <1>5, <2>1, <2>3
<1>7. ASSUME NEW k \in 1..n PROVE \E p \in 0..q : \E i \in 1..b : k = p * b + i
  <2> DEFINE p == (k - 1) \div b
  <2>1. k - 1 \in Nat /\ k - 1 <= n - 1
    OBVIOUS
  <2>2. p \in Nat /\ b * p <= k - 1 /\ k - 1 < b * p + b
    BY <1>1, <2>1, Division
  <2> HIDE DEF p
  <2>3. ~(q < p)
    <3> SUFFICES ASSUME q < p PROVE FALSE
      OBVIOUS
    <3>1. b * q + b <= b * p
      BY <1>3, <1>4, <2>2
    <3>2. b * q \in Nat /\ b * p \in Nat
      BY <1>3, <1>5, <2>2
    <3>3. QED BY <1>1, <1>3, <2>1, <2>2, <3>1, <3>2
  <2>4. p \in 0..q
    BY <1>3, <2>2, <2>3
  <2>5. k - p * b \in 1..b /\ k = p * b + (k - p * b)
    BY <1>1, <1>5, <2>1, <2>2
  <2>6. QED BY <2>4, <2>5
<1>8. QED BY <1>3, <1>6, <1>7 DEF b, q

\* An item is on one page only.
LEMMA PagesApart ==
  ASSUME NEW p \in Nat, NEW q \in Nat, NEW i \in 1..PageSize, NEW j \in 1..PageSize,
         p * PageSize + i = q * PageSize + j
  PROVE  p = q
<1> DEFINE b == PageSize
<1>1. b \in Nat \ {0}
  BY PartsAssumption DEF Table!TableAssumption
<1>2. \A x, y \in Nat : x < y => x * b + b <= y * b
  <2> SUFFICES ASSUME NEW x \in Nat, NEW y \in Nat, x < y PROVE x * b + b <= y * b
    OBVIOUS
  <2> HIDE DEF b
  <2>1. y - x - 1 \in Nat /\ (y - x - 1) * b \in Nat /\ y * b = x * b + b + (y - x - 1) * b
    BY <1>1
  <2>2. x * b \in Nat /\ y * b \in Nat
    BY <1>1
  <2>3. QED BY <1>1, <2>1, <2>2
<1>3. p * b \in Nat /\ q * b \in Nat
  BY <1>1
<1> HIDE DEF b
<1>4. i \in 1..b /\ j \in 1..b /\ p * b + i = q * b + j
  BY DEF b
<1>5. ~(p < q) /\ ~(q < p)
  BY <1>1, <1>2, <1>3, <1>4
<1>6. QED BY <1>5

\* The items from the first of the page on, as many as there are.
IsCut(page, items, p) ==
  /\ DOMAIN page = {i \in 1..PageSize : p * PageSize + i <= Len(items)}
  /\ \A i \in DOMAIN page : p * PageSize + i \in 1..Len(items) /\ page[i] = items[p * PageSize + i]

\* A page has the items from its first on, as many as there are and it holds.
LEMMA PageIsCut ==
  ASSUME NEW T, NEW items \in Seq(T), NEW p \in Nat
  PROVE  LET page == Table!Page(items, p)
         IN  /\ page \in Seq(T) /\ Len(page) <= Len(items) /\ Len(page) <= PageSize
             /\ IsCut(page, items, p)
<1> DEFINE b == PageSize
           a == p * PageSize
           n == Len(items)
           left == n - a
           size == IF left < b THEN left ELSE b
           m == IF size < 0 THEN 0 ELSE size
           page == Table!Page(items, p)
<1>1. b \in Nat \ {0} /\ n \in Nat /\ DOMAIN items = 1..n
  BY PartsAssumption DEF Table!TableAssumption
<1>2. a \in Nat
  BY <1>1
<1>3. page = [i \in 1..size |-> items[a + i]]
  BY DEF Table!Page
<1> HIDE DEF page, a, b, n
<1>4. m \in Nat /\ m <= n /\ m <= b /\ 1..size = 1..m
  BY <1>1, <1>2
<1>5. \A i \in 1..m : i \in 1..b /\ a + i \in 1..n
  BY <1>1, <1>2
<1>6. 1..m = {i \in 1..b : a + i <= n}
  BY <1>1, <1>2
<1> HIDE DEF m, size
<1>7. \A x \in 1..n : items[x] \in T
  BY <1>1
<1>8. page \in [1..m -> T] /\ \A i \in 1..m : page[i] = items[a + i]
  BY <1>3, <1>4, <1>5, <1>7
<1>9. page \in Seq(T) /\ Len(page) = m /\ DOMAIN page = 1..m
  BY <1>4, <1>8, IsAList
<1>10. IsCut(page, items, p)
  BY <1>5, <1>6, <1>8, <1>9 DEF IsCut, a, b, n
<1>11. QED BY <1>4, <1>9, <1>10 DEF page, b, n

\* A list of all of them, each once.
Lists(items, S) ==
  /\ Len(items) \in Nat /\ Len(items) = Cardinality(S) /\ items \in Seq(S)
  /\ \A j, k \in 1..Len(items) : items[j] = items[k] => j = k
  /\ \A r \in S : \E k \in 1..Len(items) : items[k] = r

\* What the server's devices make of a query.
LEMMA ListedIsRight ==
  ASSUME NEW S, IsServer(S), NEW q \in Table!Queries
  PROVE  /\ Table!Listed(S, q) \in Seq(S \cup {Table!Nil}) /\ Len(Table!Listed(S, q)) \in Nat
         /\ S # {} => Lists(Table!Listed(S, q), Table!Filtered(S, q.filter))
<1> DEFINE items == Table!Listed(S, q)
           left == Table!Filtered(S, q.filter)
           n == Cardinality(left)
           o == Table!Sorted(left, q.sort)
<1>1. CASE S = {}
  <2>1. items = <<Table!Nil>>
    BY <1>1 DEF Table!Listed
  <2>2. <<Table!Nil>> \in Seq(S \cup {Table!Nil}) /\ Len(<<Table!Nil>>) \in Nat
    OBVIOUS
  <2>3. QED BY <1>1, <2>1, <2>2
<1>2. CASE S # {}
  <2>1. items = o
    BY <1>2 DEF Table!Listed
  <2>2. left \in SUBSET S
    BY DEF Table!Filtered
  <2>3. IsServer(left)
    <3> HIDE DEF left
    <3>1. IsFiniteSet(left)
      BY <2>2, FS_Subset DEF IsServer
    <3>2. QED BY <2>2, <3>1 DEF IsServer
  <2>4. q.sort \in {"none", "asc", "desc"}
    BY DEF Table!Queries
  <2> HIDE DEF left
  <2>a. IsAllOf(o, left, n)
    BY <2>3, <2>4, SortedIsAll
  <2> HIDE DEF o, items, n
  <2>5. /\ n \in Nat /\ o \in [1..n -> left]
        /\ \A j, k \in 1..n : o[j] = o[k] => j = k
        /\ \A r \in left : \E k \in 1..n : o[k] = r
    BY <2>a DEF IsAllOf
  <2>6. o \in Seq(left) /\ Len(o) = n
    BY <2>5, IsAList
  <2>7. o \in Seq(S \cup {Table!Nil})
    BY <2>2, <2>6
  <2>8. Lists(items, left)
    BY <2>1, <2>5, <2>6 DEF Lists, n
  <2>9. QED BY <2>1, <2>5, <2>6, <2>7, <2>8 DEF items, left
<1>3. QED BY <1>1, <1>2

\* The number of the last page, which is 0 for no rows.
LEMMA LastPageIsNumber == \A n \in Nat : Table!LastPage(n) \in Nat
<1> SUFFICES ASSUME NEW n \in Nat PROVE Table!LastPage(n) \in Nat
  OBVIOUS
<1>1. CASE n = 0
  BY <1>1 DEF Table!LastPage
<1>2. CASE n # 0
  BY <1>2, PageNumbers
<1>3. QED BY <1>1, <1>2

\* The pages of a list of which no item is there twice.
LEMMA PagesOfAList ==
  ASSUME NEW T, NEW items, Lists(items, T), NEW last \in Nat, last = Table!LastPage(Len(items)),
         NEW pages, pages = [p \in 0..last |-> Table!ToSet(Table!Page(items, p))]
  PROVE  /\ UNION {pages[p] : p \in DOMAIN pages} = T
         /\ \A p, q \in DOMAIN pages : p # q => pages[p] \cap pages[q] = {}
<1> DEFINE n == Len(items)
           page(p) == Table!Page(items, p)
<1>0. items \in Seq(T)
  BY DEF Lists
<1>1. n \in Nat /\ DOMAIN items = 1..n /\ \A k \in 1..n : items[k] \in T
  BY <1>0
<1>2. DOMAIN pages = 0..last /\ \A p \in 0..last : p \in Nat
  OBVIOUS
<1>3. ASSUME NEW p \in 0..last
      PROVE  /\ DOMAIN page(p) = {i \in 1..PageSize : p * PageSize + i <= n}
             /\ \A i \in DOMAIN page(p) : p * PageSize + i \in 1..n /\ page(p)[i] = items[p * PageSize + i]
  <2>1. p \in Nat
    BY <1>2
  <2>2. IsCut(Table!Page(items, p), items, p)
    BY <1>0, <2>1, PageIsCut
  <2> HIDE DEF page
  <2>3. IsCut(page(p), items, p)
    BY <2>2 DEF page
  <2>4. QED BY <2>3 DEF IsCut
<1> HIDE DEF page
<1>4. \A p \in 0..last : pages[p] = {page(p)[i] : i \in DOMAIN page(p)}
  BY DEF Table!ToSet, page
<1>5. \A p \in 0..last : \A x \in pages[p] :
         x \in T /\ \E i \in 1..PageSize : p * PageSize + i \in 1..n /\ x = items[p * PageSize + i]
  <2> SUFFICES ASSUME NEW p \in 0..last, NEW x \in pages[p]
               PROVE  x \in T /\ \E i \in 1..PageSize : p * PageSize + i \in 1..n /\ x = items[p * PageSize + i]
    OBVIOUS
  <2>1. PICK i \in DOMAIN page(p) : x = page(p)[i]
    BY <1>4
  <2>2. i \in 1..PageSize /\ p * PageSize + i \in 1..n /\ x = items[p * PageSize + i]
    BY <1>3, <2>1
  <2>3. QED BY <1>1, <2>2
<1>6. ASSUME NEW r \in T PROVE \E p \in 0..last : r \in pages[p]
  <2>1. PICK k \in 1..n : items[k] = r
    BY DEF Lists
  <2>2. n \in Nat \ {0}
    BY <1>1
  <2>3. PICK p \in 0..last, i \in 1..PageSize : k = p * PageSize + i
    BY <2>2, PageNumbers
  <2>4. p * PageSize + i <= n
    BY <1>1, <2>3
  <2>5. i \in DOMAIN page(p) /\ page(p)[i] = r
    BY <1>3, <2>1, <2>3, <2>4
  <2>6. QED BY <1>4, <2>5
<1>7. ASSUME NEW p \in 0..last, NEW q \in 0..last, NEW x \in pages[p], x \in pages[q] PROVE p = q
  <2>1. PICK i \in 1..PageSize : p * PageSize + i \in 1..n /\ x = items[p * PageSize + i]
    BY <1>5
  <2>2. PICK j \in 1..PageSize : q * PageSize + j \in 1..n /\ x = items[q * PageSize + j]
    BY <1>5, <1>7
  <2>3. p * PageSize + i = q * PageSize + j
    BY <2>1, <2>2 DEF Lists
  <2>4. QED BY <1>2, <2>3, PagesApart
<1>8. UNION {pages[p] : p \in DOMAIN pages} \subseteq T
  BY <1>2, <1>5
<1>9. T \subseteq UNION {pages[p] : p \in DOMAIN pages}
  <2> SUFFICES ASSUME NEW r \in T PROVE \E p \in DOMAIN pages : r \in pages[p]
    OBVIOUS
  <2>1. QED BY <1>2, <1>6
<1>10. UNION {pages[p] : p \in DOMAIN pages} = T
  BY <1>8, <1>9
<1>11. ASSUME NEW p \in DOMAIN pages, NEW q \in DOMAIN pages, p # q PROVE pages[p] \cap pages[q] = {}
  BY <1>2, <1>7, <1>11
<1>12. QED BY <1>10, <1>11

\* Turning the pages shows every device that matches once.
LEMMA PagesArePartition ==
  ASSUME IsServer(tableServer), query \in Table!Queries PROVE Table!PagesPartition
<1> SUFFICES ASSUME tableServer # {} PROVE Table!PagesPartition
  BY DEF Table!PagesPartition
<1> DEFINE S == tableServer
           items == Table!Listed(S, query)
           matching == {r \in tableServer : query.filter \in {NoFilter, r.name}}
           count == Table!Answer(tableServer, query).count
           pages == [p \in 0..Table!LastPage(count) |->
                       Table!ToSet(Table!Answer(tableServer, [query EXCEPT !.page = p]).rows)]
           cut == [p \in 0..Table!LastPage(count) |-> Table!ToSet(Table!Page(items, p))]
<1>1. matching = Table!Filtered(S, query.filter)
  BY DEF Table!Filtered
<1>2. Lists(items, matching)
  <2>1. Lists(Table!Listed(tableServer, query), Table!Filtered(tableServer, query.filter))
    BY ListedIsRight
  <2>2. QED BY <1>1, <2>1
<1>3. count = Len(items)
  BY DEF Table!Answer
<1>4. ASSUME NEW p \in 0..Table!LastPage(count) PROVE pages[p] = cut[p]
  <2> DEFINE q == [query EXCEPT !.page = p]
  <2>1. q.filter = query.filter /\ q.sort = query.sort /\ q.page = p
    BY DEF Table!Queries
  <2> HIDE DEF q
  <2>2. Table!Listed(S, q) = items
    BY <2>1 DEF Table!Listed
  <2>3. Table!Answer(tableServer, q).rows = Table!Page(items, p)
    BY <2>1, <2>2 DEF Table!Answer
  <2>4. QED BY <2>3 DEF q
<1>5. pages = cut
  BY <1>4
<1> HIDE DEF pages
<1>6. Table!LastPage(count) \in Nat
  BY <1>2, <1>3, LastPageIsNumber DEF Lists
<1> HIDE DEF items, matching, count
<1>7. /\ UNION {cut[p] : p \in DOMAIN cut} = matching
      /\ \A p, q \in DOMAIN cut : p # q => cut[p] \cap cut[q] = {}
  <2> DEFINE last == Table!LastPage(count)
  <2>1. last \in Nat /\ last = Table!LastPage(Len(items))
    BY <1>3, <1>6
  <2>2. cut = [p \in 0..last |-> Table!ToSet(Table!Page(items, p))]
    OBVIOUS
  <2> HIDE DEF last, cut
  <2>3. QED BY <1>2, <2>1, <2>2, PagesOfAList
<1> HIDE DEF cut
<1>8. /\ count = Table!Cardinality(matching)
      /\ UNION {pages[p] : p \in DOMAIN pages} = matching
      /\ \A p, q \in DOMAIN pages : p # q => pages[p] \cap pages[q] = {}
  BY <1>2, <1>3, <1>5, <1>7, SameCardinality DEF Lists
<1>9. QED BY <1>8 DEF Table!PagesPartition, pages, matching, count

\* Rows that the server's devices make up, with their count.
Shown == Devices \cup {Table!Nil}
IsRows(v) ==
  /\ v.rows \in Seq(Shown) /\ v.count \in Nat
  /\ Len(v.rows) <= v.count /\ Len(v.rows) <= PageSize

\* None of the devices, or rows, is d.
Without(d, S) == \A r \in S : r.id # d

\* No rows are rows.
LEMMA NoRowsAreRight == IsRows(Table!NoRows)
  BY PartsAssumption DEF IsRows, Table!NoRows, Table!TableAssumption

\* What the server answers has rows of devices it has.
LEMMA AnswersAreRight ==
  ASSUME NEW S, IsServer(S), NEW q \in Table!Queries
  PROVE  /\ IsRows(Table!Answer(S, q))
         /\ Table!ToSet(Table!Answer(S, q).rows) \subseteq S \cup {Table!Nil}
<1> DEFINE T == S \cup {Table!Nil}
           items == Table!Listed(S, q)
           p == q.page
           page == Table!Page(items, p)
           v == Table!Answer(S, q)
<1>1. items \in Seq(T) /\ Len(items) \in Nat
  BY ListedIsRight
<1>2. v.rows = page /\ v.count = Len(items)
  BY DEF Table!Answer
<1>3. T \subseteq Shown
  BY DEF IsServer, Shown
<1>4. p \in Nat
  BY DEF Table!Queries
<1> HIDE DEF items, v, T, p
<1>5. /\ page \in Seq(T) /\ Len(page) <= Len(items) /\ Len(page) <= PageSize
      /\ DOMAIN page = {i \in 1..PageSize : p * PageSize + i <= Len(items)}
  BY <1>1, <1>4, PageIsCut DEF IsCut
<1> HIDE DEF page
<1>6. page \in Seq(Shown)
  BY <1>3, <1>5
<1>8. IsRows(v)
  BY <1>1, <1>2, <1>5, <1>6 DEF IsRows
<1>9. Table!ToSet(v.rows) \subseteq T
  <2>1. \A i \in DOMAIN page : page[i] \in T
    BY <1>5, IsOfTheList
  <2>2. QED BY <1>2, <2>1 DEF Table!ToSet
<1>10. QED BY <1>8, <1>9 DEF v, T

\* No row is d when no device is.
LEMMA WithoutRows ==
  ASSUME NEW S, IsServer(S), NEW q \in Table!Queries, NEW d, d # None, Without(d, S)
  PROVE  Without(d, Table!ToSet(Table!Answer(S, q).rows))
<1>1. Table!Nil.id = None
  BY DEF Table!Nil
<1>2. QED BY <1>1, AnswersAreRight DEF Without

-----------------------------------------------------------------------------
(* What the table shows *)

RequestStates == {"sent", "answered", "refused", "done"}
RightRequest(r) ==
  r.query \in Table!Queries /\ r.state \in RequestStates /\ IsRows(r.answer)

\* The reload after the deletion of a device: as long as nobody else changes the devices, neither
\* the server nor the answer has it.
RightReload(r, S) ==
  r.reloadOf # None =>
    Without(r.reloadOf, S) /\ Without(r.reloadOf, Table!ToSet(r.answer.rows))

IsScreen == screen \in Screens /\ IsServer(tableServer) /\ tableChanges \in Nat
IsDrawn(t) == IsRows(t) /\ t.loading \in BOOLEAN /\ t.error \in {None, "error", "crashed"}
RightRequests == \A r \in RequestsOf(loads) : RightRequest(r)
RightDeletions ==
  \A d \in Ids : /\ deletion[d].query \in Table!Queries
                 /\ deletion[d].state \in {"none", "sent", "deleted", "refused"}
RightReloads ==
  tableChanges = 0 =>
    /\ \A r \in RequestsOf(loads) : RightReload(r, tableServer)
    /\ \A d \in Ids : deletion[d].state = "deleted" => Without(d, tableServer)

RowsInv ==
  IsScreen /\ IsAsked /\ IsDrawn(table) /\ RightRequests /\ RightDeletions /\ RightReloads

\* What is in the list of the requests after one is sent, and after one is done.
LEMMA PastIsRight ==
  /\ RightRequest(Table!Past) /\ RightReload(Table!Past, tableServer) /\ IsRequest(Table!Past)
  /\ Table!FirstQuery \in Table!Queries
  BY NoRowsAreRight DEF RightRequest, RightReload, Table!Past, Table!FirstQuery, Table!Queries, RequestStates, IsRequest

\* A request that is sent, and a reload after a deletion the server has done, are right.
LEMMA NewRequestIsRight ==
  ASSUME NEW q \in Table!Queries, NEW d,
         tableChanges' = 0 /\ d # None => Without(d, tableServer')
  PROVE  /\ RightRequest(Table!Request(q, d)) /\ IsRequest(Table!Request(q, d))
         /\ tableChanges' = 0 => RightReload(Table!Request(q, d), tableServer')
  BY NoRowsAreRight DEF RightRequest, RightReload, Table!Request, RequestStates, IsRequest, Table!NoRows,
     Without, Table!ToSet

\* Of the requests before, some are forgotten.
LEMMA RememberedHas ==
  ASSUME NEW s, Requests(s)
  PROVE  RequestsOf(Table!Remembered(s)) \subseteq RequestsOf(s) \cup {Table!Past}
  BY DEF RequestsOf, Table!Remembered

\* One that is sent joins them.
LEMMA AppendHas ==
  ASSUME NEW s, Requests(s), NEW r, IsRequest(r)
  PROVE  RequestsOf(Append(s, r)) \subseteq RequestsOf(s) \cup {r}
<1> DEFINE a == Append(s, r)
<1>1. /\ DOMAIN s = 1..Len(s) /\ DOMAIN a = 1..(Len(s) + 1) /\ Len(s) \in Nat
      /\ a[Len(s) + 1] = r /\ \A i \in 1..Len(s) : a[i] = s[i]
  BY SentIsNewest DEF Requests
<1> HIDE DEF a
<1>2. \A i \in DOMAIN a : a[i] \in RequestsOf(s) \cup {r}
  BY <1>1 DEF RequestsOf
<1>3. RequestsOf(a) \subseteq RequestsOf(s) \cup {r}
  BY <1>2 DEF RequestsOf
<1>4. QED BY <1>3 DEF a

\* loadData: some are forgotten, and the new one joins.
LEMMA LoadHas ==
  ASSUME Requests(loads), NEW q, NEW d, Table!Load(q, d)
  PROVE  RequestsOf(loads') \subseteq RequestsOf(loads) \cup {Table!Past, Table!Request(q, d)}
<1> DEFINE s == Table!Remembered(loads)
           r == Table!Request(q, d)
<1>1. Requests(s) /\ RequestsOf(s) \subseteq RequestsOf(loads) \cup {Table!Past}
  BY RememberedKeeps, RememberedHas
<1>2. IsRequest(r)
  BY DEF IsRequest, Table!Request
<1>3. loads' = Append(s, r)
  BY DEF Table!Load
<1> HIDE DEF s, r
<1>4. RequestsOf(loads') \subseteq RequestsOf(s) \cup {r}
  BY <1>1, <1>2, <1>3, AppendHas
<1>5. QED BY <1>1, <1>4 DEF r

\* Two are sent: some are forgotten, and they join.
LEMMA TwoHave ==
  ASSUME Requests(loads), NEW q, NEW d, NEW last,
         loads' = Append(Append(Table!Remembered(loads), Table!Request(q, d)), Table!Request(last, None))
  PROVE  RequestsOf(loads') \subseteq
           RequestsOf(loads) \cup {Table!Past, Table!Request(q, d), Table!Request(last, None)}
<1> DEFINE s == Table!Remembered(loads)
           r == Table!Request(q, d)
           x == Table!Request(last, None)
           a == Append(s, r)
<1>1. Requests(s) /\ RequestsOf(s) \subseteq RequestsOf(loads) \cup {Table!Past}
  BY RememberedKeeps, RememberedHas
<1>2. IsRequest(r) /\ IsRequest(x)
  BY DEF IsRequest, Table!Request
<1>3. loads' = Append(a, x)
  OBVIOUS
<1> HIDE DEF s, r, x
<1>4. Requests(a) /\ RequestsOf(a) \subseteq RequestsOf(s) \cup {r}
  BY <1>1, <1>2, SentIsNewest, AppendHas
<1> HIDE DEF a
<1>5. RequestsOf(loads') \subseteq RequestsOf(a) \cup {x}
  BY <1>2, <1>3, <1>4, AppendHas
<1>6. QED BY <1>1, <1>4, <1>5 DEF r, x

\* One that goes on takes its place.
LEMMA ChangedHas ==
  ASSUME NEW s, Requests(s), NEW i \in DOMAIN s, NEW r
  PROVE  RequestsOf([s EXCEPT ![i] = r]) \subseteq RequestsOf(s) \cup {r}
<1> DEFINE f == [s EXCEPT ![i] = r]
<1>1. DOMAIN f = DOMAIN s /\ \A j \in DOMAIN s : f[j] = IF j = i THEN r ELSE s[j]
  OBVIOUS
<1> HIDE DEF f
<1>2. \A j \in DOMAIN f : f[j] \in RequestsOf(s) \cup {r}
  BY <1>1 DEF RequestsOf
<1>3. RequestsOf(f) \subseteq RequestsOf(s) \cup {r}
  BY <1>2 DEF RequestsOf
<1>4. QED BY <1>3 DEF f

\* One that is done takes its place, or is forgotten.
LEMMA SettledHas ==
  ASSUME Requests(loads), NEW i \in DOMAIN loads
  PROVE  RequestsOf(Table!Settled(i)) \subseteq
           RequestsOf(loads) \cup {Table!Past, InState(loads[i], "done")}
<1> DEFINE r == IF i = Len(loads) THEN [loads[i] EXCEPT !.state = "done"] ELSE Table!Past
<1>1. Table!Settled(i) = [loads EXCEPT ![i] = r]
  BY DEF Table!Settled
<1>2. r \in {Table!Past, InState(loads[i], "done")}
  BY DEF InState
<1> HIDE DEF r
<1>3. RequestsOf(Table!Settled(i)) \subseteq RequestsOf(loads) \cup {r}
  BY <1>1, ChangedHas
<1>4. QED BY <1>2, <1>3

\* The requests are right after a step that leaves them or adds right ones.
LEMMA RequestsStay ==
  ASSUME RightRequests, NEW N, \A r \in N : RightRequest(r),
         RequestsOf(loads') \subseteq RequestsOf(loads) \cup N
  PROVE  RightRequests'
<1>1. \A r \in RequestsOf(loads') : RightRequest(r)
  BY DEF RightRequests
<1>2. RequestsOf(loads)' = RequestsOf(loads')
  BY DEF RequestsOf
<1>3. QED BY <1>1, <1>2 DEF RightRequests

\* So are the reloads, as long as the server has no device it did not have.
LEMMA ReloadsStay ==
  ASSUME RightReloads, tableChanges' = tableChanges, tableServer' \subseteq tableServer,
         NEW N, RequestsOf(loads') \subseteq RequestsOf(loads) \cup N,
         tableChanges = 0 => \A r \in N : RightReload(r, tableServer'),
         tableChanges = 0 => \A d \in Ids : deletion'[d].state = "deleted" =>
                                deletion[d].state = "deleted" \/ Without(d, tableServer')
  PROVE  RightReloads'
<1> SUFFICES ASSUME tableChanges = 0
             PROVE  /\ \A r \in RequestsOf(loads') : RightReload(r, tableServer')
                    /\ \A d \in Ids : deletion'[d].state = "deleted" => Without(d, tableServer')
  BY DEF RightReloads, RequestsOf, Without
<1>1. \A r \in RequestsOf(loads) : RightReload(r, tableServer')
  BY DEF RightReloads, RightReload, Without
<1>2. \A d \in Ids : deletion[d].state = "deleted" => Without(d, tableServer')
  BY DEF RightReloads, Without
<1>3. QED BY <1>1, <1>2

\* Any page may be asked.
LEMMA PagesAsked ==
  ASSUME IsAsked, NEW p \in Nat
  PROVE  [query EXCEPT !.page = p] \in Table!Queries /\ [url EXCEPT !.page = p] \in Table!Queries
  BY DEF IsAsked, Table!Queries

\* What the user sets, the controls and the URL can have.
LEMMA ControlsAsked ==
  ASSUME IsAsked
  PROVE  /\ \A f \in Filters : /\ [query EXCEPT !.filter = f] \in Table!Queries
                               /\ [url EXCEPT !.filter = f] \in Table!Queries
         /\ \A o \in Sorts : /\ [query EXCEPT !.sort = o] \in Table!Queries
                             /\ [url EXCEPT !.sort = o] \in Table!Queries
         /\ \A q \in Table!Queries : [q EXCEPT !.page = 0] \in Table!Queries
<1>1. ASSUME NEW f \in Filters
      PROVE  [query EXCEPT !.filter = f] \in Table!Queries /\ [url EXCEPT !.filter = f] \in Table!Queries
  <2>1. f \in Names \cup {NoFilter}
    BY PartsAssumption DEF Table!TableAssumption
  <2>2. QED BY <2>1 DEF IsAsked, Table!Queries
<1>2. ASSUME NEW o \in Sorts
      PROVE  [query EXCEPT !.sort = o] \in Table!Queries /\ [url EXCEPT !.sort = o] \in Table!Queries
  <2>1. o \in {"none", "asc", "desc"}
    BY PartsAssumption DEF Table!TableAssumption
  <2>2. QED BY <2>1 DEF IsAsked, Table!Queries
<1>3. \A q \in Table!Queries : [q EXCEPT !.page = 0] \in Table!Queries
  BY DEF Table!Queries
<1>4. QED BY <1>1, <1>2, <1>3

\* Requests of what the controls say, or of what they said when a deletion was clicked.
LEMMA SentAreRight ==
  ASSUME TableInv, RowsInv, NEW q \in Table!Queries, NEW d, NEW last \in Table!Queries,
         RequestsOf(loads') \subseteq
           RequestsOf(loads) \cup {Table!Past, Table!Request(q, d), Table!Request(last, None)},
         UNCHANGED <<tableServer, tableChanges>>,
         d # None /\ tableChanges = 0 => Without(d, tableServer),
         \A e \in Ids : deletion'[e].state = "deleted" => deletion[e].state = "deleted"
  PROVE  RightRequests' /\ RightReloads'
<1> DEFINE N == {Table!Past, Table!Request(q, d), Table!Request(last, None)}
<1>1. RequestsOf(loads') \subseteq RequestsOf(loads) \cup N
  OBVIOUS
<1>2. \A r \in N : RightRequest(r)
  BY PastIsRight, NewRequestIsRight
<1>3. tableChanges = 0 => \A r \in N : RightReload(r, tableServer')
  <2>1. RightReload(Table!Past, tableServer')
    BY DEF RightReload, Table!Past
  <2>2. tableChanges = 0 => RightReload(Table!Request(q, d), tableServer')
    BY NewRequestIsRight
  <2>3. RightReload(Table!Request(last, None), tableServer')
    BY DEF RightReload, Table!Request
  <2>4. QED BY <2>1, <2>2, <2>3
<1> HIDE DEF N
<1>4. RightRequests'
  BY <1>1, <1>2, RequestsStay DEF RowsInv
<1>5. RightReloads'
  BY <1>1, <1>3, ReloadsStay DEF RowsInv
<1>6. QED BY <1>4, <1>5

\* One that loads again also asks the page it turns to.
LEMMA ReloadIsRight ==
  ASSUME TableInv, RowsInv, NEW q \in Table!Queries, NEW d, Table!Reload(q, d),
         UNCHANGED <<tableServer, tableChanges>>,
         d # None /\ tableChanges = 0 => Without(d, tableServer),
         \A e \in Ids : deletion'[e].state = "deleted" => deletion[e].state = "deleted"
  PROVE  RightRequests' /\ RightReloads' /\ IsAsked'
<1> DEFINE p == Table!LastPage(table.count)
           last == [query EXCEPT !.page = p]
<1>1. Requests(loads) /\ IsAsked /\ p \in Nat
  BY LastPageIsNumber DEF TableInv, Shapes, RowsInv, IsDrawn, IsRows
<1> HIDE DEF p
<1>2. last \in Table!Queries /\ [url EXCEPT !.page = p] \in Table!Queries
  BY <1>1, PagesAsked
<1>3. CASE Table!Outgrown
  <2>1. /\ query' = last /\ url' = [url EXCEPT !.page = p]
        /\ loads' = Append(Append(Table!Remembered(loads), Table!Request(q, d)), Table!Request(last, None))
    BY <1>3 DEF Table!Reload, p
  <2> HIDE DEF last
  <2>2. RequestsOf(loads') \subseteq
          RequestsOf(loads) \cup {Table!Past, Table!Request(q, d), Table!Request(last, None)}
    BY <1>1, <2>1, TwoHave
  <2>3. RightRequests' /\ RightReloads'
    BY <1>2, <2>2, SentAreRight
  <2>4. QED BY <1>2, <2>1, <2>3 DEF IsAsked
<1>4. CASE ~Table!Outgrown
  <2>1. Table!Load(q, d) /\ UNCHANGED <<url, query>>
    BY <1>4 DEF Table!Reload
  <2>2. RequestsOf(loads') \subseteq RequestsOf(loads) \cup {Table!Past, Table!Request(q, d)}
    BY <1>1, <2>1, LoadHas
  <2>3. RequestsOf(loads') \subseteq
          RequestsOf(loads) \cup {Table!Past, Table!Request(q, d), Table!Request(q, None)}
    BY <2>2
  <2>4. RightRequests' /\ RightReloads'
    BY <2>3, SentAreRight
  <2>5. QED BY <1>1, <2>1, <2>4 DEF IsAsked
<1>5. QED BY <1>3, <1>4

\* What is shown stays when it loads, or is drawn again.
LEMMA DrawnIsRight ==
  ASSUME NEW t, IsTable(t), IsDrawn(t), IsTable(table), IsDrawn(table)
  PROVE  IsDrawn(Table!Drawn(t))
<1> DEFINE drawn == Table!Drawn(t)
<1>1. \/ drawn = table \/ drawn = t
      \/ drawn.rows = t.rows /\ drawn.count = t.count /\ drawn.error = "crashed" /\ drawn.loading = FALSE
  BY DrawnKeeps
<1>2. QED BY <1>1 DEF IsDrawn, IsRows

\* A table with the same rows is as right.
LEMMA SameRows ==
  ASSUME NEW t, IsDrawn(table), t.rows = table.rows, t.count = table.count,
         t.loading \in BOOLEAN, t.error \in {None, "error", "crashed"}
  PROVE  IsDrawn(t)
  BY DEF IsDrawn, IsRows

\* A table that loads has the rows it had.
LEMMA LoadingIsDrawn ==
  ASSUME IsTable(table), IsDrawn(table)
  PROVE  /\ IsDrawn(Table!Loading) /\ Table!Loading.count = table.count /\ Table!Loading.error = None
  <1>1. /\ Table!Loading.rows = table.rows /\ Table!Loading.count = table.count
        /\ Table!Loading.loading = TRUE /\ Table!Loading.error = None
    BY DEF Table!Loading, IsTable
  <1>2. QED BY <1>1, SameRows

\* The table begins without rows, and asks for the first page.
LEMMA RowsBegin == Table!Init => RowsInv /\ Table!PageExists
<1> SUFFICES ASSUME Table!Init PROVE RowsInv /\ Table!PageExists
  OBVIOUS
<1> DEFINE r == Table!Request(query, None)
<1>1. /\ screen \in Screens /\ tableServer \in Table!FirstServers /\ tableChanges = 0
      /\ url \in Table!Queries /\ query = url /\ loads = <<r>>
      /\ table = [rows |-> <<>>, count |-> 0, loading |-> TRUE, error |-> None]
      /\ deletion = [d \in Ids |-> Table!NoDeletion]
  BY PartsAssumption DEF Table!Init, Table!TableAssumption
<1>2. IsServer(tableServer)
  <2>1. /\ tableServer \subseteq [id : Ids, name : Names, active : {TRUE}]
        /\ IsFiniteSet(tableServer) /\ \A a, b \in tableServer : a.id = b.id => a = b
    BY <1>1, SameFiniteness DEF Table!FirstServers
  <2>2. [id : Ids, name : Names, active : {TRUE}] \subseteq Devices
    BY DEF Devices
  <2> HIDE <1>1
  <2>3. QED BY <2>1, <2>2 DEF IsServer
<1>3. /\ RightRequest(r) /\ r.reloadOf = None
  BY <1>1, NewRequestIsRight DEF Table!Request
<1> HIDE DEF r
<1>4. RequestsOf(loads) = {r}
  BY <1>1 DEF RequestsOf
<1>5. IsAsked
  BY <1>1 DEF IsAsked
<1>6. IsDrawn(table) /\ table.count = 0 /\ table.error = None
  BY <1>1, PartsAssumption DEF IsDrawn, IsRows, Table!TableAssumption
<1>7. RightDeletions /\ RightReloads
  BY <1>1, <1>3, <1>4, PastIsRight DEF RightDeletions, RightReloads, RightReload, Table!NoDeletion
<1>8. RowsInv
  BY <1>1, <1>2, <1>3, <1>4, <1>5, <1>6, <1>7 DEF RowsInv, IsScreen, RightRequests
<1>9. Table!PageExists
  BY <1>6 DEF Table!PageExists
<1>10. QED BY <1>8, <1>9

\* A change of the controls, or a refresh.
LEMMA TurnsKeepRows ==
  ASSUME TableInv, RowsInv, RightRequests', RightReloads', table' = Table!Loading, IsAsked',
         UNCHANGED <<screen, tableServer, tableChanges, deletion>>
  PROVE  RowsInv'
<1>1. IsDrawn(table')
  BY LoadingIsDrawn DEF RowsInv, TableInv, Shapes
<1>2. IsScreen' /\ RightDeletions' /\ IsDrawn(table)'
  BY <1>1 DEF RowsInv, IsScreen, RightDeletions, IsDrawn, IsRows
<1>3. QED BY <1>2 DEF RowsInv

\* A change that sends one request.
LEMMA TurnKeepsRows ==
  ASSUME TableInv, RowsInv, NEW q \in Table!Queries, Table!Turn(q), url' \in Table!Queries
  PROVE  RowsInv'
<1>1. /\ query' = q /\ Table!Load(q, None) /\ table' = Table!Loading
      /\ UNCHANGED <<screen, tableServer, tableChanges, deletion>>
  BY DEF Table!Turn
<1>2. Requests(loads)
  BY DEF TableInv, Shapes
<1>3. RequestsOf(loads') \subseteq RequestsOf(loads) \cup {Table!Past, Table!Request(q, None)}
  BY <1>1, <1>2, LoadHas
<1>4. RequestsOf(loads') \subseteq
        RequestsOf(loads) \cup {Table!Past, Table!Request(q, None), Table!Request(q, None)}
  BY <1>3
<1>5. RightRequests' /\ RightReloads'
  BY <1>1, <1>4, SentAreRight
<1>6. IsAsked'
  BY <1>1 DEF IsAsked
<1>7. QED BY <1>1, <1>5, <1>6, TurnsKeepRows

\* A change that turns to the first page sends two.
LEMMA StartKeepsRows ==
  ASSUME TableInv, RowsInv, NEW q \in Table!Queries, NEW first \in Table!Queries,
         Table!TurnToStart(q, first), url' \in Table!Queries
  PROVE  RowsInv'
<1>1. /\ query' = first /\ table' = Table!Loading
      /\ loads' = Append(Append(Table!Remembered(loads), Table!Request(q, None)), Table!Request(first, None))
      /\ UNCHANGED <<screen, tableServer, tableChanges, deletion>>
  BY DEF Table!TurnToStart
<1>2. Requests(loads)
  BY DEF TableInv, Shapes
<1>3. RequestsOf(loads') \subseteq
        RequestsOf(loads) \cup {Table!Past, Table!Request(q, None), Table!Request(first, None)}
  BY <1>1, <1>2, TwoHave
<1>4. RightRequests' /\ RightReloads'
  BY <1>1, <1>3, SentAreRight
<1>5. IsAsked'
  BY <1>1 DEF IsAsked
<1>6. QED BY <1>1, <1>4, <1>5, TurnsKeepRows

\* A step that leaves the requests alone.
LEMMA RowsStay ==
  ASSUME RowsInv, IsAsked', IsDrawn(table'), RightDeletions', IsScreen',
         UNCHANGED <<loads, tableChanges>>, tableServer' \subseteq tableServer,
         tableChanges = 0 => \A d \in Ids : deletion'[d].state = "deleted" =>
                                deletion[d].state = "deleted" \/ Without(d, tableServer')
  PROVE  RowsInv'
<1>1. PICK N : N = {} /\ RequestsOf(loads') \subseteq RequestsOf(loads) \cup N
  OBVIOUS
<1>2. RightRequests'
  BY <1>1, RequestsStay DEF RowsInv
<1>3. RightReloads'
  BY <1>1, ReloadsStay DEF RowsInv
<1>4. IsDrawn(table)'
  BY DEF IsDrawn, IsRows
<1>5. QED BY <1>2, <1>3, <1>4 DEF RowsInv

\* A request that goes on asks what it asked, and has its answer.
LEMMA GoingOnIsRight ==
  ASSUME NEW r, IsRequest(r), RightRequest(r), NEW s \in RequestStates
  PROVE  /\ IsRequest(InState(r, s)) /\ RightRequest(InState(r, s))
         /\ \A S : RightReload(r, S) => RightReload(InState(r, s), S)
<1>1. InState(r, s) = [query |-> r.query, reloadOf |-> r.reloadOf, state |-> s, answer |-> r.answer]
  BY DEF IsRequest, InState
<1>2. IsRequest(InState(r, s)) /\ RightRequest(InState(r, s))
  BY <1>1 DEF IsRequest, RightRequest
<1>3. InState(r, s).answer = r.answer /\ InState(r, s).reloadOf = r.reloadOf
  BY <1>1
<1>4. \A S : RightReload(r, S) => RightReload(InState(r, s), S)
  BY <1>3 DEF RightReload
<1>5. QED BY <1>2, <1>4

\* A request that the server answers, or refuses.
LEMMA ServedRows ==
  ASSUME TableInv, RowsInv, NEW i \in DOMAIN loads, Table!Serve(i) PROVE RowsInv'
<1> DEFINE r == loads[i]
           v == Table!Answer(tableServer, r.query)
           a == [r EXCEPT !.state = "answered", !.answer = v]
           b == [r EXCEPT !.state = "refused"]
<1>1. /\ UNCHANGED <<screen, tableServer, tableChanges, url, query, table, deletion>>
      /\ loads' = [loads EXCEPT ![i] = a] \/ loads' = [loads EXCEPT ![i] = b]
  BY DEF Table!Serve
<1>2. Requests(loads) /\ IsRequest(r) /\ r \in RequestsOf(loads)
  BY DEF TableInv, Shapes, Requests, RequestsOf
<1>3. /\ RightRequest(r) /\ IsServer(tableServer)
      /\ tableChanges = 0 => RightReload(r, tableServer)
  BY <1>2 DEF RowsInv, RightRequests, RightReloads, IsScreen
<1>4. RightRequest(a) /\ (tableChanges = 0 => RightReload(a, tableServer'))
  <2>1. a = [query |-> r.query, reloadOf |-> r.reloadOf, state |-> "answered", answer |-> v]
    <3> HIDE DEF r, v
    <3>1. InState(r, "answered") =
            [query |-> r.query, reloadOf |-> r.reloadOf, state |-> "answered", answer |-> r.answer]
      BY <1>2 DEF IsRequest, InState
    <3>2. a = Answered(InState(r, "answered"), v)
      BY DEF InState, Answered
    <3>3. QED BY <3>1, <3>2 DEF Answered
  <2>2. a.query = r.query /\ a.reloadOf = r.reloadOf /\ a.state = "answered" /\ a.answer = v
    BY <2>1
  <2> HIDE DEF a
  <2>3. r.query \in Table!Queries
    BY <1>3 DEF RightRequest
  <2>4. IsRows(v)
    BY <1>3, <2>3, AnswersAreRight
  <2>5. RightRequest(a)
    BY <2>2, <2>3, <2>4 DEF RightRequest, RequestStates
  <2>6. ASSUME tableChanges = 0, r.reloadOf # None
        PROVE  Without(r.reloadOf, tableServer) /\ Without(r.reloadOf, Table!ToSet(v.rows))
    <3>1. Without(r.reloadOf, tableServer)
      BY <1>3, <2>6 DEF RightReload
    <3>2. QED BY <1>3, <2>3, <2>6, <3>1, WithoutRows
  <2> HIDE DEF v
  <2>7. tableChanges = 0 => RightReload(a, tableServer')
    BY <1>1, <2>2, <2>6 DEF RightReload, Without
  <2>8. QED BY <2>5, <2>7
<1>5. RightRequest(b) /\ (tableChanges = 0 => RightReload(b, tableServer'))
  <2>1. b = InState(r, "refused")
    BY DEF InState
  <2>2. tableChanges = 0 => RightReload(r, tableServer')
    BY <1>1, <1>3 DEF RightReload, Without
  <2>3. QED BY <1>2, <1>3, <2>1, <2>2, GoingOnIsRight DEF RequestStates
<1> HIDE DEF a, b, r, v
<1> DEFINE N == {a, b}
<1>6. RequestsOf(loads') \subseteq RequestsOf(loads) \cup N
  <2>1. RequestsOf([loads EXCEPT ![i] = a]) \subseteq RequestsOf(loads) \cup {a}
    BY <1>2, ChangedHas
  <2>2. RequestsOf([loads EXCEPT ![i] = b]) \subseteq RequestsOf(loads) \cup {b}
    BY <1>2, ChangedHas
  <2>3. CASE loads' = [loads EXCEPT ![i] = a]
    BY <2>1, <2>3
  <2>4. CASE loads' = [loads EXCEPT ![i] = b]
    BY <2>2, <2>4
  <2>5. QED BY <1>1, <2>3, <2>4
<1>7. /\ \A x \in N : RightRequest(x)
      /\ tableChanges = 0 => \A x \in N : RightReload(x, tableServer')
  BY <1>4, <1>5
<1> HIDE DEF N
<1>8. RightRequests'
  BY <1>6, <1>7, RequestsStay DEF RowsInv
<1>9. RightReloads'
  BY <1>1, <1>6, <1>7, ReloadsStay DEF RowsInv
<1>10. QED BY <1>1, <1>8, <1>9 DEF RowsInv, IsScreen, IsAsked, IsDrawn, IsRows, RightDeletions

\* The requests after one is done.
LEMMA SettledIsRight ==
  ASSUME TableInv, RowsInv, NEW i \in DOMAIN loads,
         UNCHANGED <<tableServer, tableChanges>>
  PROVE  \E N : /\ RequestsOf(Table!Settled(i)) \subseteq RequestsOf(loads) \cup N
                /\ Table!Past \in N /\ \A x \in N : RightRequest(x)
                /\ tableChanges = 0 => \A x \in N : RightReload(x, tableServer')
<1> DEFINE r == loads[i]
           N == {Table!Past, InState(r, "done")}
<1>1. Requests(loads) /\ IsRequest(r) /\ r \in RequestsOf(loads)
  BY DEF TableInv, Shapes, Requests, RequestsOf
<1>2. RightRequest(r) /\ (tableChanges = 0 => RightReload(r, tableServer'))
  BY <1>1 DEF RowsInv, RightRequests, RightReloads, RightReload, Without
<1>3. RequestsOf(Table!Settled(i)) \subseteq RequestsOf(loads) \cup N
  BY <1>1, SettledHas
<1>4. RightReload(Table!Past, tableServer')
  BY DEF RightReload, Table!Past
<1>5. /\ RightRequest(InState(r, "done"))
      /\ tableChanges = 0 => RightReload(InState(r, "done"), tableServer')
  BY <1>1, <1>2, GoingOnIsRight DEF RequestStates
<1>6. /\ \A x \in N : RightRequest(x)
      /\ tableChanges = 0 => \A x \in N : RightReload(x, tableServer')
  BY <1>4, <1>5, PastIsRight
<1>7. Table!Past \in N
  OBVIOUS
<1> HIDE DEF N
<1>8. QED BY <1>3, <1>6, <1>7

\* A failure that arrives.
LEMMA FailedRows ==
  ASSUME TableInv, RowsInv, NEW i \in DOMAIN loads, Table!Fail(i) PROVE RowsInv'
<1> DEFINE t == [table EXCEPT !.error = "error", !.loading = FALSE]
<1>1. /\ UNCHANGED <<screen, tableServer, tableChanges, url, query, deletion>>
      /\ loads' = Table!Settled(i) /\ table' = Table!Drawn(t)
  BY DEF Table!Fail
<1>2. IsTable(table) /\ IsDrawn(table)
  BY DEF RowsInv, TableInv, Shapes
<1>3. IsTable(t) /\ IsDrawn(t)
  <2>1. t = [rows |-> table.rows, count |-> table.count, loading |-> FALSE, error |-> "error"]
    <3>1. HasError(table, "error") =
            [rows |-> table.rows, count |-> table.count, loading |-> table.loading, error |-> "error"]
      BY <1>2 DEF IsTable, HasError
    <3> DEFINE no == FALSE
    <3>2. t = [HasError(table, "error") EXCEPT !.loading = no]
      BY DEF HasError
    <3> HIDE DEF no, t
    <3>3. t = [rows |-> table.rows, count |-> table.count, loading |-> no, error |-> "error"]
      BY <3>1, <3>2
    <3>4. QED BY <3>3 DEF no
  <2> HIDE DEF t
  <2>2. QED BY <1>2, <2>1, SameRows DEF IsTable
<1> HIDE DEF t
<1>4. IsDrawn(table')
  BY <1>1, <1>2, <1>3, DrawnIsRight
<1>5. PICK N : /\ RequestsOf(loads') \subseteq RequestsOf(loads) \cup N
               /\ \A x \in N : RightRequest(x)
               /\ tableChanges = 0 => \A x \in N : RightReload(x, tableServer')
  BY <1>1, SettledIsRight
<1>6. RightRequests'
  BY <1>5, RequestsStay DEF RowsInv
<1>7. RightReloads'
  BY <1>1, <1>5, ReloadsStay DEF RowsInv
<1>8. QED BY <1>1, <1>4, <1>6, <1>7 DEF RowsInv, IsScreen, IsAsked, IsDrawn, IsRows, RightDeletions

\* An answer that arrives.
LEMMA ArrivedRows ==
  ASSUME TableInv, RowsInv, NEW i \in DOMAIN loads, Table!Arrive(i) PROVE RowsInv'
<1> DEFINE count == loads[i].answer.count
           t == [rows |-> loads[i].answer.rows, count |-> count, loading |-> FALSE, error |-> table.error]
           u == [t EXCEPT !.loading = TRUE]
           p == Table!LastPage(count)
           last == [query EXCEPT !.page = p]
           s == Table!Settled(i)
           r == Table!Request(last, None)
<1>1. /\ UNCHANGED <<screen, tableServer, tableChanges, deletion>>
      /\ \/ /\ query' = last /\ url' = [url EXCEPT !.page = p] /\ table' = u
            /\ loads' = Append(Table!Remembered(s), r)
         \/ /\ table' = Table!Drawn(t) /\ loads' = s /\ UNCHANGED <<url, query>>
  BY DEF Table!Arrive
<1>2. Requests(loads) /\ loads[i] \in RequestsOf(loads) /\ IsTable(table) /\ IsDrawn(table) /\ IsAsked
  BY DEF RowsInv, TableInv, Shapes, RequestsOf
<1>3. IsRows(loads[i].answer)
  BY <1>2 DEF RowsInv, RightRequests, RightRequest
<1>4. IsTable(t) /\ IsDrawn(t) /\ IsTable(u) /\ IsDrawn(u)
  <2>1. u = [rows |-> loads[i].answer.rows, count |-> count, loading |-> TRUE, error |-> table.error]
    <3> DEFINE yes == TRUE
    <3> HIDE DEF yes
    <3>1. [t EXCEPT !.loading = yes] =
            [rows |-> loads[i].answer.rows, count |-> count, loading |-> yes, error |-> table.error]
      OBVIOUS
    <3>2. QED BY <3>1 DEF yes
  <2>2. /\ IsTable(t) /\ t.rows = loads[i].answer.rows /\ t.count = loads[i].answer.count
        /\ t.loading = FALSE /\ t.error = table.error
        /\ IsTable(u) /\ u.rows = loads[i].answer.rows /\ u.count = loads[i].answer.count
        /\ u.loading = TRUE /\ u.error = table.error
    BY <2>1 DEF IsTable
  <2> HIDE DEF t, u
  <2>3. QED BY <1>2, <1>3, <2>2 DEF IsDrawn, IsRows
<1>5. PICK N : /\ RequestsOf(s) \subseteq RequestsOf(loads) \cup N
               /\ Table!Past \in N /\ \A x \in N : RightRequest(x)
               /\ tableChanges = 0 => \A x \in N : RightReload(x, tableServer')
  BY <1>1, SettledIsRight
<1>6. p \in Nat
  BY <1>3, LastPageIsNumber DEF IsRows
<1>7. last \in Table!Queries /\ [url EXCEPT !.page = p] \in Table!Queries
  BY <1>2, <1>6, PagesAsked
<1>8. Requests(s)
  BY <1>2, SettledKeeps
<1>9. IsRequest(r) /\ RightRequest(r) /\ RightReload(r, tableServer')
  BY <1>7, NewRequestIsRight DEF Table!Request, RightReload
<1> HIDE DEF s, r, t, u, last
<1>10. CASE table' = Table!Drawn(t) /\ loads' = s /\ UNCHANGED <<url, query>>
  <2>1. IsDrawn(table')
    BY <1>2, <1>4, <1>10, DrawnIsRight
  <2>2. RightRequests'
    BY <1>5, <1>10, RequestsStay DEF RowsInv
  <2>3. RightReloads'
    BY <1>1, <1>5, <1>10, ReloadsStay DEF RowsInv
  <2>4. QED BY <1>1, <1>10, <2>1, <2>2, <2>3 DEF RowsInv, IsScreen, IsAsked, IsDrawn, IsRows, RightDeletions
<1>11. CASE /\ query' = last /\ url' = [url EXCEPT !.page = p] /\ table' = u
            /\ loads' = Append(Table!Remembered(s), r)
  <2> DEFINE M == N \cup {r}
  <2>1. Requests(Table!Remembered(s)) /\ RequestsOf(Table!Remembered(s)) \subseteq RequestsOf(s) \cup {Table!Past}
    BY <1>8, RememberedKeeps, RememberedHas
  <2>2. RequestsOf(loads') \subseteq RequestsOf(Table!Remembered(s)) \cup {r}
    BY <1>9, <1>11, <2>1, AppendHas
  <2>3. RequestsOf(loads') \subseteq RequestsOf(loads) \cup M
    BY <1>5, <2>1, <2>2
  <2>4. /\ \A x \in M : RightRequest(x)
        /\ tableChanges = 0 => \A x \in M : RightReload(x, tableServer')
    BY <1>5, <1>9
  <2> HIDE DEF M
  <2>5. RightRequests'
    BY <2>3, <2>4, RequestsStay DEF RowsInv
  <2>6. RightReloads'
    BY <1>1, <2>3, <2>4, ReloadsStay DEF RowsInv
  <2>7. QED BY <1>1, <1>4, <1>7, <1>11, <2>5, <2>6 DEF RowsInv, IsScreen, IsAsked, IsDrawn, IsRows, RightDeletions
<1>12. QED BY <1>1, <1>10, <1>11

\* The page is left and the user comes back.
LEMMA ReopenedRows ==
  ASSUME TableInv, RowsInv, Table!LeaveAndReturn PROVE RowsInv'
<1> DEFINE f == [j \in DOMAIN loads |-> Table!Past]
           r == Table!Request(url, None)
<1>1. /\ UNCHANGED <<screen, tableServer, url, tableChanges, deletion>>
      /\ query' = url /\ loads' = Append(f, r)
      /\ table' = [rows |-> <<>>, count |-> 0, loading |-> TRUE, error |-> None]
  BY DEF Table!LeaveAndReturn, Table!Reopened
<1>2. Requests(loads) /\ url \in Table!Queries
  BY DEF RowsInv, TableInv, Shapes, IsAsked
<1>3. IsRequest(r) /\ RightRequest(r) /\ RightReload(r, tableServer')
  BY <1>2, NewRequestIsRight DEF Table!Request, RightReload
<1>4. Requests(f) /\ RequestsOf(f) \subseteq {Table!Past}
  <2> DEFINE past == Table!Past
  <2>1. IsRequest(past)
    BY PastIsRight
  <2> HIDE DEF past
  <2>2. /\ DOMAIN f = DOMAIN loads /\ f = [j \in DOMAIN loads |-> f[j]]
        /\ \A j \in DOMAIN loads : IsRequest(f[j]) /\ f[j] = past
    BY <2>1 DEF past
  <2> HIDE DEF f
  <2>3. Requests(f)
    BY <1>2, <2>2, MappedRequests
  <2>4. QED BY <2>2, <2>3 DEF RequestsOf, past
<1> HIDE DEF f, r
<1>5. RequestsOf(loads') \subseteq RequestsOf(f) \cup {r}
  BY <1>1, <1>3, <1>4, AppendHas
<1> DEFINE N == {Table!Past, r}
<1>6. RequestsOf(loads') \subseteq RequestsOf(loads) \cup N
  BY <1>4, <1>5
<1>7. /\ \A x \in N : RightRequest(x)
      /\ tableChanges = 0 => \A x \in N : RightReload(x, tableServer')
  BY <1>3, PastIsRight DEF RightReload, Table!Past
<1> HIDE DEF N
<1>8. RightRequests'
  BY <1>6, <1>7, RequestsStay DEF RowsInv
<1>9. RightReloads'
  BY <1>1, <1>6, <1>7, ReloadsStay DEF RowsInv
<1>10. IsDrawn(table')
  BY <1>1, PastIsRight, PartsAssumption DEF IsDrawn, IsRows, Table!TableAssumption
<1>11. QED BY <1>1, <1>2, <1>8, <1>9, <1>10 DEF RowsInv, IsScreen, IsAsked, IsDrawn, IsRows, RightDeletions

\* A deletion that is clicked, served or failed.
LEMMA DeletionsAre ==
  ASSUME TableInv, RowsInv, NEW d \in Ids, NEW x, x.query \in Table!Queries,
         x.state \in {"none", "sent", "deleted", "refused"},
         deletion' = [deletion EXCEPT ![d] = x]
  PROVE  /\ RightDeletions' /\ deletion'[d] = x
         /\ \A e \in Ids : e # d => deletion'[e] = deletion[e]
<1>1. deletion = [e \in Ids |-> deletion[e]]
  BY DEF TableInv, Shapes
<1>2. deletion'[d] = x /\ \A e \in Ids : e # d => deletion'[e] = deletion[e]
  BY <1>1
<1>3. QED BY <1>2 DEF RightDeletions, RowsInv

\* A deletion that is clicked changes no rows.
LEMMA ClickedRows ==
  ASSUME TableInv, RowsInv, NEW d \in Ids, Table!Delete(d) PROVE RowsInv'
<1> DEFINE x == [state |-> "sent", query |-> query]
           t == [table EXCEPT !.loading = TRUE]
<1>1. /\ deletion' = [deletion EXCEPT ![d] = x] /\ table' = t
      /\ UNCHANGED <<screen, tableServer, url, query, loads, tableChanges>>
  BY DEF Table!Delete
<1>2. /\ x.query \in Table!Queries /\ x.state = "sent"
  BY DEF RowsInv, IsAsked
<1> HIDE DEF x
<1>3. RightDeletions' /\ deletion'[d] = x /\ \A e \in Ids : e # d => deletion'[e] = deletion[e]
  BY <1>1, <1>2, DeletionsAre
<1>4. IsDrawn(table')
  <2>1. IsTable(table) /\ IsDrawn(table)
    BY DEF RowsInv, TableInv, Shapes
  <2> DEFINE yes == TRUE
  <2>2. t = [table EXCEPT !.loading = yes]
    OBVIOUS
  <2> HIDE DEF yes, t
  <2>3. t = [rows |-> table.rows, count |-> table.count, loading |-> yes, error |-> table.error]
    BY <2>1, <2>2 DEF IsTable
  <2>4. QED BY <1>1, <2>1, <2>3, SameRows DEF yes, IsDrawn
<1>5. IsScreen' /\ IsAsked'
  BY <1>1 DEF RowsInv, IsScreen, IsAsked
<1>6. QED BY <1>1, <1>2, <1>3, <1>4, <1>5, RowsStay

\* A deletion the server does leaves the other devices, and not the one.
LEMMA ServedDeletionRows ==
  ASSUME TableInv, RowsInv, NEW d \in Ids, Table!ServeDelete(d) PROVE RowsInv'
<1>1. /\ UNCHANGED <<screen, url, query, table, loads, tableChanges>>
      /\ \/ /\ tableServer' = {r \in tableServer : r.id # d}
            /\ deletion' = [deletion EXCEPT ![d].state = "deleted"]
         \/ deletion' = [deletion EXCEPT ![d].state = "refused"] /\ UNCHANGED tableServer
  BY DEF Table!ServeDelete
<1>2. /\ IsDeletion(deletion[d]) /\ deletion[d].query \in Table!Queries
      /\ deletion = [e \in Ids |-> deletion[e]]
  BY DEF TableInv, RowsInv, Shapes, RightDeletions
<1>3. PICK x : /\ x.query \in Table!Queries /\ x.state \in {"deleted", "refused"}
               /\ deletion' = [deletion EXCEPT ![d] = x]
               /\ x.state = "deleted" => tableServer' = {r \in tableServer : r.id # d}
  <2> DEFINE y(s) == InState(deletion[d], s)
  <2>1. \A s : [deletion EXCEPT ![d].state = s] = [deletion EXCEPT ![d] = y(s)]
    BY DEF InState
  <2>2. ASSUME NEW s PROVE y(s).state = s /\ y(s).query = deletion[d].query
    <3> DEFINE r == deletion[d]
    <3>1. r = [state |-> r.state, query |-> r.query]
      BY <1>2 DEF IsDeletion
    <3> HIDE DEF r
    <3>2. [r EXCEPT !.state = s].state = s /\ [r EXCEPT !.state = s].query = r.query
      BY <3>1
    <3>3. QED BY <3>2 DEF InState, r
  <2> HIDE DEF y
  <2>3. CASE deletion' = [deletion EXCEPT ![d].state = "deleted"]
               /\ tableServer' = {r \in tableServer : r.id # d}
    <3>1. deletion' = [deletion EXCEPT ![d] = y("deleted")]
      BY <2>1, <2>3
    <3>2. QED BY <1>2, <2>2, <2>3, <3>1
  <2>4. CASE deletion' = [deletion EXCEPT ![d].state = "refused"]
    <3>1. deletion' = [deletion EXCEPT ![d] = y("refused")]
      BY <2>1, <2>4
    <3>2. y("refused").state # "deleted"
      BY <2>2
    <3>3. QED BY <1>2, <2>2, <3>1, <3>2
  <2>5. QED BY <1>1, <2>3, <2>4
<1>4. RightDeletions' /\ deletion'[d] = x /\ \A e \in Ids : e # d => deletion'[e] = deletion[e]
  BY <1>3, DeletionsAre
<1>5. tableServer' \subseteq tableServer /\ (deletion'[d].state = "deleted" => Without(d, tableServer'))
  BY <1>1, <1>3, <1>4 DEF Without
<1>6. IsScreen'
  <2>1. IsServer(tableServer')
    BY <1>5, FS_Subset DEF RowsInv, IsScreen, IsServer
  <2>2. QED BY <1>1, <2>1 DEF RowsInv, IsScreen, IsServer
<1>7. IsAsked' /\ IsDrawn(table')
  BY <1>1 DEF RowsInv, IsAsked
<1>8. QED BY <1>1, <1>4, <1>5, <1>6, <1>7, RowsStay

\* A deletion that is answered sends the reload, of a device the server does not have.
LEMMA DeletedRows ==
  ASSUME TableInv, RowsInv, NEW d \in Ids, Table!Deleted(d) PROVE RowsInv'
<1> DEFINE loading == Table!Outgrown
           t == [table EXCEPT !.loading = loading, !.error = None]
<1>1. /\ Table!Reload(deletion[d].query, d) /\ table' = Table!Drawn(t)
      /\ deletion' = [deletion EXCEPT ![d] = Table!NoDeletion] /\ deletion[d].state = "deleted"
      /\ UNCHANGED <<screen, tableServer, tableChanges>>
  BY DEF Table!Deleted
<1>2. IsTable(table) /\ IsDrawn(table)
  BY DEF RowsInv, TableInv, Shapes
<1>3. IsTable(t) /\ IsDrawn(t)
  <2>1. loading \in BOOLEAN
    BY DEF Table!Outgrown
  <2> HIDE DEF loading
  <2>2. HasError(table, None) = [rows |-> table.rows, count |-> table.count, loading |-> table.loading, error |-> None]
    BY <1>2 DEF IsTable, HasError
  <2>3. t = [HasError(table, None) EXCEPT !.loading = loading]
    BY DEF HasError
  <2> HIDE DEF t
  <2>4. t = [rows |-> table.rows, count |-> table.count, loading |-> loading, error |-> None]
    BY <2>2, <2>3
  <2>5. QED BY <1>2, <2>1, <2>4, SameRows DEF IsTable
<1> HIDE DEF t
<1>4. IsDrawn(table')
  BY <1>1, <1>2, <1>3, DrawnIsRight
<1>5. Table!NoDeletion.query \in Table!Queries /\ Table!NoDeletion.state = "none"
  BY PastIsRight DEF Table!NoDeletion
<1>6. RightDeletions' /\ deletion'[d] = Table!NoDeletion /\ \A e \in Ids : e # d => deletion'[e] = deletion[e]
  BY <1>1, <1>5, DeletionsAre
<1>7. deletion[d].query \in Table!Queries /\ (tableChanges = 0 => Without(d, tableServer))
  BY <1>1 DEF RowsInv, RightDeletions, RightReloads
<1>8. \A e \in Ids : deletion'[e].state = "deleted" => deletion[e].state = "deleted"
  BY <1>1
<1>9. RightRequests' /\ RightReloads' /\ IsAsked'
  BY <1>1, <1>7, <1>8, ReloadIsRight
<1>10. IsScreen' /\ IsDrawn(table)'
  BY <1>1, <1>4 DEF RowsInv, IsScreen, IsDrawn, IsRows
<1>11. QED BY <1>6, <1>9, <1>10 DEF RowsInv

\* A deletion that failed changes no rows.
LEMMA DeleteFailedRows ==
  ASSUME TableInv, RowsInv, NEW d \in Ids, Table!DeleteFailed(d) PROVE RowsInv'
<1> DEFINE no == FALSE
           t == [table EXCEPT !.loading = no]
<1>1. /\ table' = Table!Drawn(t) /\ deletion' = [deletion EXCEPT ![d] = Table!NoDeletion]
      /\ UNCHANGED <<screen, tableServer, url, query, loads, tableChanges>>
  BY DEF Table!DeleteFailed
<1>2. IsTable(table) /\ IsDrawn(table)
  BY DEF RowsInv, TableInv, Shapes
<1>3. IsTable(t) /\ IsDrawn(t)
  <2> HIDE DEF no
  <2>1. t = [rows |-> table.rows, count |-> table.count, loading |-> no, error |-> table.error]
    BY <1>2 DEF IsTable
  <2> HIDE DEF t
  <2>2. QED BY <1>2, <2>1, SameRows DEF no, IsTable, IsDrawn
<1> HIDE DEF no, t
<1>4. IsDrawn(table')
  BY <1>1, <1>2, <1>3, DrawnIsRight
<1>5. Table!NoDeletion.query \in Table!Queries /\ Table!NoDeletion.state = "none"
  BY PastIsRight DEF Table!NoDeletion
<1>6. RightDeletions' /\ deletion'[d] = Table!NoDeletion /\ \A e \in Ids : e # d => deletion'[e] = deletion[e]
  BY <1>1, <1>5, DeletionsAre
<1>7. IsScreen' /\ IsAsked'
  BY <1>1 DEF RowsInv, IsScreen, IsAsked
<1>8. QED BY <1>1, <1>4, <1>5, <1>6, <1>7, RowsStay

\* Somebody else changes a device.
LEMMA ChangedRows ==
  ASSUME TableInv, RowsInv, NEW d \in Ids, Table!OthersChange(d) PROVE RowsInv'
<1>1. PICK S \in {{}} \cup {{r} : r \in [id : {d}, name : Names, active : BOOLEAN]} :
        tableServer' = {r \in tableServer : r.id # d} \cup S
  BY Zenon DEF Table!OthersChange
<1>2. /\ tableChanges' = tableChanges + 1
      /\ UNCHANGED <<screen, url, query, table, loads, deletion>>
  BY DEF Table!OthersChange
<1>3. tableChanges' \in Nat /\ tableChanges' # 0
  BY <1>2 DEF RowsInv, IsScreen
<1>4. IsServer(tableServer')
  <2> DEFINE L == {r \in tableServer : r.id # d}
  <2>1. L \subseteq tableServer /\ IsServer(tableServer)
    BY DEF RowsInv, IsScreen
  <2>2. IsFiniteSet(L)
    BY <2>1, FS_Subset DEF IsServer
  <2>3. CASE S = {}
    BY <1>1, <2>1, <2>2, <2>3 DEF IsServer
  <2>4. CASE S # {}
    <3>1. PICK x \in [id : {d}, name : Names, active : BOOLEAN] : S = {x}
      BY <1>1, <2>4, Zenon
    <3>2. x \in Devices /\ x.id = d
      BY DEF Devices
    <3>3. tableServer' = L \cup {x}
      BY <1>1, <3>1
    <3>4. \A r \in L : r.id # d
      OBVIOUS
    <3> HIDE DEF L
    <3>5. IsFiniteSet(tableServer')
      BY <2>2, <3>3, FS_AddElement
    <3>6. tableServer' \subseteq Devices
      BY <2>1, <3>2, <3>3 DEF IsServer
    <3>7. \A r, s \in tableServer' : r.id = s.id => r = s
      BY <2>1, <3>2, <3>3, <3>4 DEF IsServer
    <3>8. QED BY <3>5, <3>6, <3>7 DEF IsServer
  <2>5. QED BY <2>3, <2>4
<1> DEFINE N == {}
<1>5. RequestsOf(loads') \subseteq RequestsOf(loads) \cup N /\ \A r \in N : RightRequest(r)
  <2>1. loads' = loads
    BY <1>2
  <2>2. QED BY <2>1
<1> HIDE DEF N
<1>6. RightRequests'
  BY <1>5, RequestsStay DEF RowsInv
<1>7. QED BY <1>2, <1>3, <1>4, <1>6 DEF RowsInv, IsScreen, IsAsked, IsDrawn, IsRows, RightDeletions, RightReloads

\* Whatever overtakes what, the rows are the server's devices.
LEMMA RowsKept == TableInv /\ RowsInv /\ [Table!Next]_Table!vars => RowsInv'
<1> SUFFICES ASSUME TableInv, RowsInv, [Table!Next]_Table!vars PROVE RowsInv'
  OBVIOUS
<1>a. IsAsked /\ IsScreen /\ IsDrawn(table) /\ RightDeletions
  BY DEF RowsInv
<1>p. Table!LastPage(table.count) \in Nat
  BY <1>a, LastPageIsNumber DEF IsDrawn, IsRows
<1>1. ASSUME NEW p \in 0..Table!LastPage(table.count), Table!TurnPage(p) PROVE RowsInv'
  <2>1. p \in Nat
    BY <1>p
  <2>2. Table!Turn([query EXCEPT !.page = p]) /\ url' = [url EXCEPT !.page = p]
    BY <1>1 DEF Table!TurnPage
  <2>3. QED BY <1>a, <2>1, <2>2, PagesAsked, TurnKeepsRows
<1>2. ASSUME NEW f \in Filters, Table!SetFilter(f) PROVE RowsInv'
  <2> DEFINE q == [query EXCEPT !.filter = f]
             first == [q EXCEPT !.page = 0]
             new == [[url EXCEPT !.filter = f] EXCEPT !.page = 0]
  <2>1. /\ url' = [url EXCEPT !.filter = f, !.page = 0]
        /\ Table!Turn(q) \/ Table!TurnToStart(q, first)
    BY <1>2 DEF Table!SetFilter
  <2>2. url' = new
    BY <1>a, <2>1, FirstPage DEF IsAsked
  <2>3. q \in Table!Queries /\ first \in Table!Queries /\ new \in Table!Queries
    BY <1>a, ControlsAsked
  <2> HIDE DEF q, first, new
  <2>4. QED BY <2>1, <2>2, <2>3, TurnKeepsRows, StartKeepsRows
<1>3. ASSUME NEW o \in Sorts, Table!SetSort(o) PROVE RowsInv'
  <2> DEFINE q == [query EXCEPT !.sort = o]
             first == [q EXCEPT !.page = 0]
             new == [[url EXCEPT !.sort = o] EXCEPT !.page = 0]
  <2>1. /\ url' = [url EXCEPT !.sort = o, !.page = 0]
        /\ Table!Turn(q) \/ Table!TurnToStart(q, first)
    BY <1>3 DEF Table!SetSort
  <2>2. url' = new
    BY <1>a, <2>1, FirstPage DEF IsAsked
  <2>3. q \in Table!Queries /\ first \in Table!Queries /\ new \in Table!Queries
    BY <1>a, ControlsAsked
  <2> HIDE DEF q, first, new
  <2>4. QED BY <2>1, <2>2, <2>3, TurnKeepsRows, StartKeepsRows
<1>4. CASE Table!Refresh
  <2>1. /\ Table!Reload(query, None) /\ table' = Table!Loading
        /\ UNCHANGED <<screen, tableServer, tableChanges, deletion>>
    BY <1>4 DEF Table!Refresh
  <2>2. query \in Table!Queries
    BY <1>a DEF IsAsked
  <2>3. RightRequests' /\ RightReloads' /\ IsAsked'
    BY <2>1, <2>2, ReloadIsRight
  <2>4. QED BY <2>1, <2>3, TurnsKeepRows
<1>5. CASE Table!Stray
  <2>1. IsAsked' /\ IsScreen' /\ RightDeletions'
        /\ UNCHANGED <<loads, table, deletion, tableServer, tableChanges>>
    BY <1>a, <1>5, PastIsRight DEF Table!Stray, IsAsked, IsScreen, RightDeletions
  <2>2. QED BY <1>a, <2>1, RowsStay
<1>6. CASE Table!LeaveAndReturn
  BY <1>6, ReopenedRows
<1>7. CASE UNCHANGED Table!vars
  <2>1. IsAsked' /\ IsScreen' /\ RightDeletions'
        /\ UNCHANGED <<loads, table, deletion, tableServer, tableChanges>>
    BY <1>a, <1>7 DEF Table!vars, IsAsked, IsScreen, RightDeletions
  <2>2. QED BY <1>a, <2>1, RowsStay
<1>8. QED
  BY <1>1, <1>2, <1>3, <1>4, <1>5, <1>6, <1>7, ServedRows, ArrivedRows, FailedRows, ServedDeletionRows,
     DeletedRows, DeleteFailedRows, ClickedRows, ChangedRows
     DEF Table!Next, Table!Answers, Table!Deletions

\* A step after which the same page of as many rows is asked, and no error has gone.
LEMMA PageStays ==
  ASSUME Table!PageExists, table'.count = table.count, query'.page = query.page,
         table'.error = None => table.error = None
  PROVE  Table!PageExists'
  BY DEF Table!PageExists, Table!GridShown

\* A page that is turned to, of the rows there are.
LEMMA PageIsTurned ==
  ASSUME RowsInv, NEW p \in 0..Table!LastPage(table.count), query'.page = p,
         table'.count = table.count
  PROVE  Table!PageExists'
  BY DEF Table!PageExists

\* The first page is one of them.
LEMMA FirstPageExists ==
  ASSUME RowsInv, query'.page = 0, table'.count = table.count
  PROVE  Table!PageExists'
<1>1. Table!LastPage(table.count) \in Nat
  BY LastPageIsNumber DEF RowsInv, IsDrawn, IsRows
<1>2. QED BY <1>1, PageIsTurned

\* Loading again asks a page there is, also when it clears an error.
LEMMA ReloadedPage ==
  ASSUME RowsInv, Table!PageExists, ~Table!Crashed, NEW q, NEW d, Table!Reload(q, d), table.count > 0
  PROVE  query'.page <= Table!LastPage(table.count)
<1>1. /\ query \in Table!Queries /\ Table!LastPage(table.count) \in Nat
      /\ table.error \in {None, "error", "crashed"}
  BY LastPageIsNumber DEF RowsInv, IsAsked, IsDrawn, IsRows
<1>2. CASE Table!Outgrown
  <2>1. query' = [query EXCEPT !.page = Table!LastPage(table.count)]
    BY <1>2 DEF Table!Reload
  <2>2. query'.page = Table!LastPage(table.count)
    BY <1>1, <2>1 DEF Table!Queries
  <2>3. QED BY <1>1, <2>2
<1>3. CASE ~Table!Outgrown
  <2>1. query' = query /\ query.page \in Nat
    BY <1>1, <1>3 DEF Table!Reload, Table!Queries
  <2>2. table.error = None \/ table.error = "error"
    BY <1>1 DEF Table!Crashed
  <2>3. QED BY <1>1, <1>3, <2>1, <2>2 DEF Table!Outgrown, Table!PageExists, Table!GridShown
<1>4. QED BY <1>2, <1>3

\* An answer that arrives: the grid turns to its last page, or was on one there is.
LEMMA ArrivedPage ==
  ASSUME TableInv, RowsInv, Table!PageExists, NEW i \in DOMAIN loads, Table!Arrive(i)
  PROVE  Table!PageExists'
<1> DEFINE count == loads[i].answer.count
           t == [rows |-> loads[i].answer.rows, count |-> count, loading |-> FALSE, error |-> table.error]
           beyond == count # table.count /\ table.error = None /\ query.page > Table!LastPage(count)
           last == [query EXCEPT !.page = Table!LastPage(count)]
<1>1. \/ /\ query' = last /\ table' = [t EXCEPT !.loading = TRUE]
      \/ /\ ~beyond /\ table' = Table!Drawn(t) /\ UNCHANGED query
  BY DEF Table!Arrive
<1>2. /\ query \in Table!Queries /\ IsTable(table) /\ IsDrawn(table) /\ loads[i] \in RequestsOf(loads)
  BY DEF TableInv, Shapes, RowsInv, IsAsked, RequestsOf
<1>3. count \in Nat /\ query.page \in Nat
  BY <1>2 DEF RowsInv, RightRequests, RightRequest, IsRows, Table!Queries
<1>4. IsTable(t) /\ t.error = table.error /\ t.count = count
  BY DEF IsTable
<1>5. CASE query' = last /\ table' = [t EXCEPT !.loading = TRUE]
  <2>1. query'.page = Table!LastPage(count) /\ table'.count = count
    BY <1>2, <1>5 DEF Table!Queries
  <2> HIDE DEF count, last, t
  <2>2. Table!LastPage(count) \in Nat
    BY <1>3, LastPageIsNumber
  <2>3. QED BY <2>1, <2>2 DEF Table!PageExists
<1>6. CASE ~beyond /\ table' = Table!Drawn(t) /\ UNCHANGED query
  <2> HIDE DEF count, t
  <2>1. SUFFICES ASSUME table'.error = None, table'.count > 0
                 PROVE  query.page <= Table!LastPage(table'.count)
    BY <1>6 DEF Table!PageExists, Table!GridShown
  <2>2. None \notin {"error", "crashed"}
    BY PartsAssumption DEF Table!TableAssumption
  <2>3. table'.count = count /\ table.error = None
    BY <1>2, <1>4, <1>6, <2>1, <2>2, DrawnKeeps DEF Table!Crashed
  <2>4. Table!LastPage(count) \in Nat
    BY <1>3, LastPageIsNumber
  <2>5. CASE count = table.count
    BY <2>1, <2>3, <2>5 DEF Table!PageExists, Table!GridShown
  <2>6. CASE ~(query.page > Table!LastPage(count))
    BY <1>3, <2>3, <2>4, <2>6
  <2>7. QED BY <1>6, <2>3, <2>5, <2>6
<1>7. QED BY <1>1, <1>5, <1>6

\* A deletion that is answered loads again.
LEMMA DeletedPage ==
  ASSUME TableInv, RowsInv, Table!PageExists, NEW d \in Ids, Table!Deleted(d)
  PROVE  Table!PageExists'
<1> DEFINE loading == Table!Outgrown
           t == [table EXCEPT !.loading = loading, !.error = None]
<1>1. Table!Reload(deletion[d].query, d) /\ table' = Table!Drawn(t)
  BY DEF Table!Deleted
<1>2. IsTable(table) /\ IsTable(t) /\ t.count = table.count
  <2> HIDE DEF loading
  <2>1. IsTable(table)
    BY DEF TableInv, Shapes
  <2>2. HasError(table, None) = [rows |-> table.rows, count |-> table.count, loading |-> table.loading, error |-> None]
    BY <2>1 DEF IsTable, HasError
  <2>3. t = [HasError(table, None) EXCEPT !.loading = loading]
    BY DEF HasError
  <2> HIDE DEF t
  <2>4. t = [rows |-> table.rows, count |-> table.count, loading |-> loading, error |-> None]
    BY <2>2, <2>3
  <2>5. QED BY <2>1, <2>4 DEF IsTable
<1> HIDE DEF loading, t
<1>3. CASE Table!Crashed
  <2>1. table'.error = "crashed" /\ "crashed" # None
    BY <1>1, <1>2, <1>3, DrawnKeeps, PartsAssumption DEF Table!Crashed, Table!TableAssumption
  <2>2. QED BY <2>1 DEF Table!PageExists, Table!GridShown
<1>4. CASE ~Table!Crashed
  <2>1. table'.count = table.count
    BY <1>1, <1>2, <1>4, DrawnKeeps
  <2>2. table.count > 0 => query'.page <= Table!LastPage(table.count)
    BY <1>1, <1>4, ReloadedPage
  <2>3. QED BY <2>1, <2>2 DEF Table!PageExists
<1>5. QED BY <1>3, <1>4

\* Whatever overtakes what, the page that is asked is one there is.
LEMMA PageKept == TableInv /\ RowsInv /\ Table!PageExists /\ [Table!Next]_Table!vars => Table!PageExists'
<1> SUFFICES ASSUME TableInv, RowsInv, Table!PageExists, [Table!Next]_Table!vars PROVE Table!PageExists'
  OBVIOUS
<1>s. IsTable(table)
  BY DEF TableInv, Shapes
<1>q. query \in Table!Queries
  BY DEF RowsInv, IsAsked
<1>n. None \notin {"error", "crashed"}
  BY PartsAssumption DEF Table!TableAssumption
<1>l. Table!Loading.count = table.count
  BY <1>s DEF Table!Loading, IsTable
<1>1. ASSUME NEW p \in 0..Table!LastPage(table.count), Table!TurnPage(p) PROVE Table!PageExists'
  <2>1. query' = [query EXCEPT !.page = p] /\ table' = Table!Loading
    BY <1>1 DEF Table!TurnPage, Table!Turn
  <2>2. query'.page = p /\ table'.count = table.count
    BY <1>q, <1>l, <2>1 DEF Table!Queries
  <2>3. QED BY <2>2, PageIsTurned
<1>2. ASSUME NEW f, Table!SetFilter(f) PROVE Table!PageExists'
  <2> DEFINE q == [query EXCEPT !.filter = f]
             first == [q EXCEPT !.page = 0]
  <2>1. /\ (query.page = 0 /\ query' = q) \/ query' = first
        /\ table' = Table!Loading
    BY <1>2 DEF Table!SetFilter, Table!Turn, Table!TurnToStart
  <2>2. query'.page = 0 /\ table'.count = table.count
    BY <1>q, <1>l, <2>1 DEF Table!Queries
  <2>3. QED BY <2>2, FirstPageExists
<1>3. ASSUME NEW o, Table!SetSort(o) PROVE Table!PageExists'
  <2> DEFINE q == [query EXCEPT !.sort = o]
             first == [q EXCEPT !.page = 0]
  <2>1. /\ (query.page = 0 /\ query' = q) \/ query' = first
        /\ table' = Table!Loading
    BY <1>3 DEF Table!SetSort, Table!Turn, Table!TurnToStart
  <2>2. query'.page = 0 /\ table'.count = table.count
    BY <1>q, <1>l, <2>1 DEF Table!Queries
  <2>3. QED BY <2>2, FirstPageExists
<1>4. CASE Table!Refresh
  <2>1. Table!Reload(query, None) /\ table' = Table!Loading /\ ~Table!Crashed
    BY <1>4 DEF Table!Refresh
  <2>2. table.count > 0 => query'.page <= Table!LastPage(table.count)
    BY <2>1, ReloadedPage
  <2>3. QED BY <1>l, <2>1, <2>2 DEF Table!PageExists
<1>5. ASSUME UNCHANGED <<table, query>> PROVE Table!PageExists'
  BY <1>5, PageStays
<1>6. CASE Table!LeaveAndReturn
  BY <1>6 DEF Table!LeaveAndReturn, Table!Reopened, Table!PageExists
<1>7. ASSUME NEW i, Table!Serve(i) PROVE Table!PageExists'
  BY <1>5, <1>7 DEF Table!Serve
<1>8. ASSUME NEW i, Table!Fail(i) PROVE Table!PageExists'
  <2> DEFINE t == [table EXCEPT !.error = "error", !.loading = FALSE]
  <2>1. table' = Table!Drawn(t)
    BY <1>8 DEF Table!Fail
  <2>2. IsTable(t) /\ t.error = "error"
    <3>1. t = NotLoading(HasError(table, "error"))
      BY DEF NotLoading, HasError
    <3> HIDE DEF t
    <3>2. IsTable(HasError(table, "error")) /\ HasError(table, "error").error = "error"
      BY <1>s, ErrorIsSet
    <3>3. QED BY <3>1, <3>2, LoadingIsReset
  <2> HIDE DEF t
  <2>3. table'.error # None
    BY <1>s, <1>n, <2>1, <2>2, DrawnKeeps DEF Table!Crashed
  <2>4. QED BY <2>3 DEF Table!PageExists, Table!GridShown
<1>10. ASSUME NEW d \in Ids, Table!Delete(d) PROVE Table!PageExists'
  <2>1. table' = [table EXCEPT !.loading = TRUE] /\ UNCHANGED query
    BY <1>10 DEF Table!Delete
  <2>2. table'.error = table.error /\ table'.count = table.count
    BY <1>s, <2>1 DEF IsTable
  <2>3. QED BY <2>1, <2>2, PageStays
<1>11. ASSUME NEW d \in Ids, Table!ServeDelete(d) PROVE Table!PageExists'
  BY <1>5, <1>11 DEF Table!ServeDelete
<1>13. ASSUME NEW d \in Ids, Table!DeleteFailed(d) PROVE Table!PageExists'
  <2>1. table' = Table!Drawn(NotLoading(table)) /\ UNCHANGED query
    BY <1>13 DEF Table!DeleteFailed, NotLoading
  <2>2. table'.count = table.count /\ (table'.error = None => table.error = None)
    BY <1>s, <1>n, <2>1, DrawnKeeps, LoadingIsReset DEF Table!Crashed
  <2>3. QED BY <2>1, <2>2, PageStays
<1>14. ASSUME NEW d, Table!OthersChange(d) PROVE Table!PageExists'
  BY <1>5, <1>14 DEF Table!OthersChange
<1>15. CASE Table!Stray
  BY <1>5, <1>15 DEF Table!Stray
<1>16. CASE UNCHANGED Table!vars
  BY <1>5, <1>16 DEF Table!vars
<1>17. QED
  BY <1>1, <1>2, <1>3, <1>4, <1>6, <1>7, <1>8, <1>10, <1>11, <1>13, <1>14, <1>15, <1>16,
     ArrivedPage, DeletedPage
     DEF Table!Next, Table!Answers, Table!Deletions

TableFacts == TableInv /\ RowsInv /\ Table!PageExists

\* The three invariants of the table are inductive together.
LEMMA TableInvariant == SiteSpec => []TableFacts
<1>1. Table!Init => TableFacts
  BY TableBegins, RowsBegin DEF TableFacts
<1>2. TableFacts /\ [Table!Next]_Table!vars => TableFacts'
  BY TableKept, RowsKept, PageKept DEF TableFacts, RowsInv
<1>3. Table!Spec => []TableFacts
  BY <1>1, <1>2, PTL DEF Table!Spec
<1>4. QED BY <1>3, TableBehaves, PTL

\* They have the types.
LEMMA TableTypes == TableFacts => Table!TypeOK
<1> SUFFICES ASSUME TableFacts PROVE Table!TypeOK
  OBVIOUS
<1>1. Shapes /\ RowsInv /\ IsTable(table)
  BY DEF TableFacts, TableInv, Shapes
<1>2. /\ screen \in Screens
      /\ tableServer \subseteq [id : Ids, name : Names, active : BOOLEAN]
      /\ {url, query} \subseteq Table!Queries
  BY <1>1 DEF RowsInv, IsScreen, IsAsked, IsServer, Devices
<1>3. /\ table.rows \in Seq([id : Ids, name : Names, active : BOOLEAN] \cup {Table!Nil})
      /\ Len(table.rows) <= table.count /\ Len(table.rows) <= PageSize
      /\ table.loading \in BOOLEAN /\ table.error \in {None, "error", "crashed"}
  BY <1>1 DEF RowsInv, IsDrawn, IsRows, Shown, Devices
<1>4. \A i \in DOMAIN loads : loads[i].state \in {"sent", "answered", "refused", "done"}
  BY <1>1 DEF RowsInv, RightRequests, RightRequest, RequestsOf, RequestStates
<1>5. deletion \in [Ids -> [state : {"none", "sent", "deleted", "refused"},
                            query : Table!Queries]]
  <2> DEFINE D == [state : {"none", "sent", "deleted", "refused"}, query : Table!Queries]
  <2>1. ASSUME NEW d \in Ids PROVE deletion[d] \in D
    <3>1. deletion[d] = [state |-> deletion[d].state, query |-> deletion[d].query]
      BY <1>1 DEF Shapes, IsDeletion
    <3>2. QED BY <1>1, <3>1 DEF RowsInv, RightDeletions
  <2> HIDE DEF D
  <2>2. deletion \in [Ids -> D]
    BY <1>1, <2>1 DEF Shapes
  <2>3. QED BY <2>2 DEF D
<1>6. QED BY <1>2, <1>3, <1>4, <1>5 DEF Table!TypeOK

\* For any devices, filters, orders and pages, and whatever answers overtake others: once all
\* are answered the table shows what the newest request asked, unless an older one was answered
\* after it; the grid is on a page there is, and a refresh asks for what the controls and the
\* URL say; turning the pages shows every device that matches once; the reload after a deletion
\* does not bring the device back.
THEOREM TableShowsTheDevices == SiteSpec => []TableIsRight
<1>1. TableFacts => TableIsRight
  <2> SUFFICES ASSUME TableFacts PROVE TableIsRight
    OBVIOUS
  <2>1. TableInv /\ RowsInv /\ Table!PageExists
    BY DEF TableFacts
  <2>2. Table!QuietIsRight /\ Table!NewestIsCurrent /\ Table!UrlIsTheQuery
    BY <2>1 DEF TableInv, QuietInv, Newest, Table!QuietIsRight, Table!Quiet, Table!Last
  <2>3. Table!ReloadFollowsDeletion
    BY <2>1 DEF RowsInv, RightReloads, RightReload, RequestsOf, Without, Table!ReloadFollowsDeletion
  <2>4. Table!PagesPartition
    BY <2>1, PagesArePartition DEF RowsInv, IsScreen, IsAsked
  <2>5. QED BY <2>1, <2>2, <2>3, <2>4 DEF TableIsRight
<1>2. QED BY <1>1, TableInvariant, PTL

-----------------------------------------------------------------------------
(* The types *)

\* The form is open on its screen only, what was sent is valid, and a hook observes a mutation
\* that was sent.
FormTypes ==
  /\ place \in {"screen", "elsewhere"}
  /\ modal.visible => place = "screen"
  /\ \A d \in Form!Present : formServer[d].name \in Names
  /\ \A i \in DOMAIN saves : saves[i].state = "done" \/ Form!Valid(saves[i].form)
  /\ latest \in [create : 0..Len(saves), edit : 0..Len(saves)]

\* The form begins on its screen, with nothing sent.
LEMMA FormTypesBegin == Form!Init => FormTypes
<1> SUFFICES ASSUME Form!Init PROVE FormTypes
  OBVIOUS
<1>1. Existing \subseteq Ids
  BY PartsAssumption DEF Form!FormAssumption
<1>2. PICK name \in [Existing -> Names] :
        formServer = [d \in Ids |-> IF d \in Existing
                                    THEN [name |-> name[d], needed |-> d, rest |-> d] ELSE None]
  BY DEF Form!Init, Form!FirstServers
<1>3. \A d \in Form!Present : formServer[d].name \in Names
  BY <1>1, <1>2 DEF Form!Present
<1>4. place = "screen" /\ saves = <<>> /\ latest = [create |-> 0, edit |-> 0]
  BY DEF Form!Init, Form!NothingObserved
<1>5. QED BY <1>3, <1>4 DEF FormTypes

\* A save that goes on, or is answered.
LEMMA SavesStayValid ==
  ASSUME FormInv, FormTypes, NEW i \in DOMAIN saves,
         \/ saves[i].state # "done" /\ \E state : saves' = [saves EXCEPT ![i].state = state]
         \/ saves' = Form!Settled(i)
  PROVE  /\ Len(saves') = Len(saves)
         /\ \A j \in DOMAIN saves' : saves'[j].state = "done" \/ Form!Valid(saves'[j].form)
<1>1. saves \in Seq(Saves) /\ saves[i] \in Saves
  BY DEF FormInv
<1>2. PICK s : /\ saves' = [saves EXCEPT ![i] = s]
               /\ s.state = "done" \/ (saves[i].state # "done" /\ s.form = saves[i].form)
  <2>1. CASE saves' = Form!Settled(i)
    <3> DEFINE s == [saves[i] EXCEPT !.state = "done", !.form = Form!DefaultForm]
    <3>1. saves' = [saves EXCEPT ![i] = s]
      BY <2>1 DEF Form!Settled
    <3>2. s.state = "done"
      BY <1>1 DEF Saves
    <3> HIDE DEF s
    <3>3. QED BY <3>1, <3>2, Zenon
  <2>2. ASSUME saves[i].state # "done", NEW state, saves' = [saves EXCEPT ![i].state = state]
        PROVE  \E s : /\ saves' = [saves EXCEPT ![i] = s]
                      /\ saves[i].state # "done" /\ s.form = saves[i].form
    <3> DEFINE s == [saves[i] EXCEPT !.state = state]
    <3>1. s.form = saves[i].form
      BY <1>1 DEF Saves
    <3>2. saves' = [saves EXCEPT ![i] = s]
      BY <2>2
    <3>3. QED BY <2>2, <3>1, <3>2
  <2>3. QED BY <2>1, <2>2
<1>3. /\ DOMAIN saves' = DOMAIN saves /\ Len(saves') = Len(saves)
      /\ \A j \in DOMAIN saves : saves'[j] = IF j = i THEN s ELSE saves[j]
  BY <1>1, <1>2
<1>4. \A j \in DOMAIN saves : saves[j].state = "done" \/ Form!Valid(saves[j].form)
  BY DEF FormTypes
<1>5. s.state = "done" \/ Form!Valid(s.form)
  BY <1>2, <1>4
<1>6. QED BY <1>3, <1>4, <1>5

\* What is sent has a name.
LEMMA ValidNames ==
  ASSUME FormInv, FormTypes, NEW i \in DOMAIN saves, saves[i].state # "done"
  PROVE  saves[i].form.name \in Names
  BY DEF FormInv, FormTypes, OwnSave, OwnDraft, Drafts, Form!Valid

\* Whatever is opened, saved and answered meanwhile.
LEMMA FormTypesKept == FormInv /\ FormTypes /\ [Form!Next]_Form!vars => FormTypes'
<1> SUFFICES ASSUME FormInv, FormTypes, [Form!Next]_Form!vars PROVE FormTypes'
  OBVIOUS
<1>i. /\ formServer \in [Ids -> Drafts \cup {None}] /\ saves \in Seq(Saves) /\ Len(saves) \in Nat
      /\ modal \in [visible : BOOLEAN, row : {modal.row}]
  BY DEF FormInv
<1>t. /\ place \in {"screen", "elsewhere"}
      /\ modal.visible => place = "screen"
      /\ \A d \in Form!Present : formServer[d].name \in Names
      /\ \A i \in DOMAIN saves : saves[i].state = "done" \/ Form!Valid(saves[i].form)
      /\ latest \in [create : 0..Len(saves), edit : 0..Len(saves)]
  BY DEF FormTypes
<1>n. None \notin Ids
  BY PartsAssumption DEF Form!FormAssumption
<1>u. ASSUME UNCHANGED <<formServer, saves>>, place' \in {"screen", "elsewhere"},
             modal'.visible => place' = "screen",
             latest' \in [create : 0..Len(saves), edit : 0..Len(saves)]
      PROVE  FormTypes'
  BY <1>u, <1>t DEF FormTypes, Form!Present
<1>1. CASE Form!Reload
  BY <1>1, <1>t, <1>u DEF Form!Reload
<1>2. CASE Form!OpenCreate
  BY <1>2, <1>t, <1>u DEF Form!OpenCreate
<1>3. ASSUME NEW d \in Ids, Form!OpenEdit(d) PROVE FormTypes'
  BY <1>3, <1>t, <1>u DEF Form!OpenEdit
<1>4. CASE Form!Type
  BY <1>4, <1>t, <1>u DEF Form!Type
<1>5. CASE Form!Close
  <2>1. modal' = [modal EXCEPT !.visible = FALSE] /\ UNCHANGED <<place, formServer, saves, latest>>
    BY <1>5 DEF Form!Close
  <2>2. ~modal'.visible
    BY <1>i, <2>1
  <2>3. QED BY <1>t, <1>u, <2>1, <2>2
<1>6. CASE Form!Save
  <2> DEFINE what == IF modal.row = Form!NoRow THEN "create" ELSE "edit"
             s == [what |-> what, id |-> modal.row.id, form |-> form, state |-> "sent"]
  <2>1. /\ saves' = Append(saves, s) /\ Form!Valid(form) /\ latest' = [latest EXCEPT ![what] = Len(saves) + 1]
        /\ UNCHANGED <<place, formServer, modal>>
    BY <1>6 DEF Form!Save
  <2>2. what \in {"create", "edit"} /\ s.form = form
    OBVIOUS
  <2>3. s \in Saves
    BY <1>i DEF Saves, OwnDraft, FormInv
  <2> HIDE DEF what, s
  <2>4. /\ Len(saves') = Len(saves) + 1 /\ DOMAIN saves' = 1..(Len(saves) + 1) /\ DOMAIN saves = 1..Len(saves)
        /\ saves'[Len(saves) + 1] = s /\ \A j \in 1..Len(saves) : saves'[j] = saves[j]
    BY <1>i, <2>1, <2>3
  <2>5. \A j \in DOMAIN saves' : saves'[j].state = "done" \/ Form!Valid(saves'[j].form)
    BY <1>i, <1>t, <2>1, <2>2, <2>4
  <2>6. latest' \in [create : 0..Len(saves'), edit : 0..Len(saves')]
    BY <1>i, <1>t, <2>1, <2>2, <2>4
  <2>7. QED BY <1>t, <2>1, <2>5, <2>6 DEF FormTypes, Form!Present
<1>7. CASE Form!LeaveScreen
  <2>1. /\ place' = "elsewhere" /\ modal' = Form!Closed /\ latest' = Form!NothingObserved
        /\ UNCHANGED <<formServer, saves>>
    BY <1>7 DEF Form!LeaveScreen
  <2>2. ~modal'.visible
    BY <2>1 DEF Form!Closed
  <2>3. latest' \in [create : 0..Len(saves), edit : 0..Len(saves)]
    BY <1>i, <2>1 DEF Form!NothingObserved
  <2>4. QED BY <1>u, <2>1, <2>2, <2>3
<1>8. CASE Form!Return
  BY <1>8, <1>t, <1>u DEF Form!Return
<1>9. ASSUME NEW i \in DOMAIN saves, saves[i].state # "done",
             \E state : saves' = [saves EXCEPT ![i].state = state],
             UNCHANGED <<place, modal, latest>>,
             \A d \in Form!Present' : formServer'[d].name \in Names
      PROVE  FormTypes'
  <2>1. /\ Len(saves') = Len(saves)
        /\ \A j \in DOMAIN saves' : saves'[j].state = "done" \/ Form!Valid(saves'[j].form)
    BY <1>9, SavesStayValid
  <2>2. QED BY <1>9, <1>t, <2>1 DEF FormTypes
<1>p. UNCHANGED formServer => \A d \in Form!Present' : formServer'[d].name \in Names
  BY <1>t DEF Form!Present
<1>10. ASSUME NEW i \in DOMAIN saves, Form!Check(i) PROVE FormTypes'
  <2>1. /\ UNCHANGED <<formServer, place, modal, latest>> /\ saves[i].state # "done"
        /\ \E state : saves' = [saves EXCEPT ![i].state = state]
    BY <1>10 DEF Form!Check, Form!Refuse
  <2>2. QED BY <1>9, <1>p, <2>1
<1>11. ASSUME NEW i \in DOMAIN saves, Form!Insert(i) PROVE FormTypes'
  <2>1. /\ UNCHANGED <<place, modal, latest>> /\ saves[i].state # "done"
        /\ \E state : saves' = [saves EXCEPT ![i].state = state]
        /\ \/ UNCHANGED formServer
           \/ \E d \in Ids : formServer' = [formServer EXCEPT ![d] = saves[i].form]
    BY <1>11 DEF Form!Insert, Form!Refuse
  <2>2. \A d \in Form!Present' : formServer'[d].name \in Names
    BY <1>i, <1>t, <1>p, <2>1, ValidNames DEF Form!Present
  <2>3. QED BY <1>9, <2>1, <2>2
<1>12. ASSUME NEW i \in DOMAIN saves, Form!Replace(i) PROVE FormTypes'
  <2>1. /\ UNCHANGED <<place, modal, latest>> /\ saves[i].state # "done"
        /\ \E state : saves' = [saves EXCEPT ![i].state = state]
        /\ \/ UNCHANGED formServer
           \/ \E d \in Ids : formServer' = [formServer EXCEPT ![d] = saves[i].form]
    BY <1>12 DEF Form!Replace, Form!Refuse, Form!Present
  <2>2. \A d \in Form!Present' : formServer'[d].name \in Names
    BY <1>i, <1>t, <1>p, <2>1, ValidNames DEF Form!Present
  <2>3. QED BY <1>9, <2>1, <2>2
<1>13. ASSUME NEW d \in Ids, Form!OthersChange(d) PROVE FormTypes'
  <2>1. UNCHANGED <<place, modal, saves, latest>> /\ d \in Form!Present
    BY <1>13 DEF Form!OthersChange
  <2>2. CASE formServer' = [formServer EXCEPT ![d] = None]
    <3>1. \A e \in Form!Present' : e \in Form!Present /\ formServer'[e] = formServer[e]
      BY <1>i, <2>2 DEF Form!Present
    <3>2. QED BY <1>t, <2>1, <3>1 DEF FormTypes
  <2>3. ASSUME NEW n \in Names, formServer' = [formServer EXCEPT ![d].name = n] PROVE FormTypes'
    <3> DEFINE f == [formServer[d] EXCEPT !.name = n]
    <3>1. formServer[d] \in Drafts
      BY <1>i, <2>1 DEF Form!Present
    <3>2. f.name = n
      BY <3>1 DEF Drafts
    <3>3. formServer' = [formServer EXCEPT ![d] = f]
      BY <2>3
    <3> HIDE DEF f
    <3>4. \A e \in Ids : formServer'[e] = IF e = d THEN f ELSE formServer[e]
      BY <1>i, <3>3
    <3>5. \A e \in Form!Present' : formServer'[e].name \in Names
      BY <1>t, <3>2, <3>4 DEF Form!Present
    <3>6. QED BY <1>t, <2>1, <3>5 DEF FormTypes
  <2>4. QED BY <1>13, <2>2, <2>3 DEF Form!OthersChange
<1>14. ASSUME NEW i \in DOMAIN saves, Form!Saved(i) PROVE FormTypes'
  <2>1. /\ UNCHANGED formServer /\ saves' = Form!Settled(i) /\ place' = "screen"
        /\ latest' = [latest EXCEPT ![saves[i].what] = 0] \/ latest' = latest
    BY <1>14 DEF Form!Saved
  <2>2. /\ Len(saves') = Len(saves)
        /\ \A j \in DOMAIN saves' : saves'[j].state = "done" \/ Form!Valid(saves'[j].form)
    BY <2>1, SavesStayValid
  <2>3. latest' \in [create : 0..Len(saves), edit : 0..Len(saves)]
    BY <1>i, <1>t, <2>1
  <2>4. QED BY <1>t, <1>p, <2>1, <2>2, <2>3 DEF FormTypes
<1>15. ASSUME NEW i \in DOMAIN saves, Form!Refused(i) PROVE FormTypes'
  <2>1. UNCHANGED <<formServer, place, modal, latest>> /\ saves' = Form!Settled(i)
    BY <1>15 DEF Form!Refused
  <2>2. /\ Len(saves') = Len(saves)
        /\ \A j \in DOMAIN saves' : saves'[j].state = "done" \/ Form!Valid(saves'[j].form)
    BY <2>1, SavesStayValid
  <2>3. QED BY <1>t, <1>p, <2>1, <2>2 DEF FormTypes
<1>16. CASE UNCHANGED Form!vars
  BY <1>16, <1>t, <1>u DEF Form!vars
<1>17. QED
  BY <1>1, <1>2, <1>3, <1>4, <1>5, <1>6, <1>7, <1>8, <1>10, <1>11, <1>12, <1>13, <1>14, <1>15, <1>16
     DEF Form!Next

\* For any devices, names and saves: no invalid form is sent.
LEMMA FormTypesHold == SiteSpec => []Form!TypeOK
<1>1. Form!Spec => [](FormInv /\ FormTypes)
  BY FormBegins, FormTypesBegin, FormKept, FormTypesKept, PTL DEF Form!Spec
<1>2. FormInv /\ FormTypes => Form!TypeOK
  <2> SUFFICES ASSUME FormInv, FormTypes PROVE Form!TypeOK
    OBVIOUS
  <2>1. form \in [name : Names \cup {Blank}, needed : Form!Origins, rest : Form!Origins]
    BY DEF FormInv, OwnDraft, Drafts
  <2>2. formServer \in [Ids -> [name : Names, needed : Form!Origins, rest : Form!Origins] \cup {None}]
    <3> DEFINE D == [name : Names, needed : Form!Origins, rest : Form!Origins]
    <3>1. ASSUME NEW d \in Ids, formServer[d] # None PROVE formServer[d] \in D
      <4>1. formServer[d] \in Drafts /\ formServer[d].name \in Names
        BY <3>1 DEF FormInv, FormTypes, Form!Present
      <4>2. QED BY <4>1 DEF Drafts
    <3> HIDE DEF D
    <3>2. formServer \in [Ids -> D \cup {None}]
      BY <3>1 DEF FormInv
    <3>3. QED BY <3>2 DEF D
  <2>3. \A what \in {"create", "edit"} : latest[what] \in 0..Len(saves)
    BY DEF FormTypes
  <2>4. QED BY <2>1, <2>2, <2>3 DEF FormInv, FormTypes, Form!TypeOK
<1>3. QED BY FormBehaves, <1>1, <1>2, PTL

\* What the site does is what the document does, or leaves it alone.
LEMMA DocumentBehaves == SiteSpec => Spec
<1>1. SiteInit => Init
  BY DEF SiteInit
<1>2. [SiteNext]_siteVars => [Next]_vars
  BY DEF SiteNext, siteVars
<1>3. QED BY <1>1, <1>2, PTL DEF SiteSpec, Spec

\* The invariant of the session has its types.
LEMMA SessionTypes == SessionInv => Sessions!TypeOK
<1> SUFFICES ASSUME SessionInv PROVE Sessions!TypeOK
  OBVIOUS
<1>1. storage.token \in 0..Len(logins) /\ storage.user \in Users \cup {None}
  BY DEF SessionInv
<1>2. ASSUME NEW t \in Tabs
      PROVE  /\ tab[t].path \in Paths /\ tab[t].guard \in {"none", "checking", "in", "out"}
             /\ tab[t].sending \in Users \cup {None}
  BY DEF SessionInv, TabStates
<1>3. QED BY <1>1, <1>2 DEF Sessions!TypeOK, Paths

\* For any devices, users, tabs, saves and flows every variable of the site holds a value of its kind.
THEOREM SiteTypes == SiteSpec => []SiteTypeOK
<1>1. SiteSpec => [](part \in Parts)
  <2>1. SiteInit => part \in Parts
    BY DEF SiteInit
  <2>2. part \in Parts /\ [SiteNext]_siteVars => (part \in Parts)'
    BY DEF SiteNext, siteVars
  <2>3. QED BY <2>1, <2>2, PTL DEF SiteSpec
<1>2. SiteSpec => []TypeOK
  BY DocumentBehaves, StatisticsTypes, PTL
<1>3. SiteSpec => []Table!TypeOK
  BY TableInvariant, TableTypes, PTL
<1>4. SiteSpec => []Sessions!TypeOK
  <2>1. Sessions!Spec => []SessionInv
    BY SessionBegins, SessionKept, PTL DEF Sessions!Spec
  <2>2. QED BY <2>1, SessionBehaves, SessionTypes, PTL
<1>5. SiteSpec => []Traffic!TypeOK
  BY TrafficInvariant, TrafficTypes, PTL
<1>6. /\ part \in Parts /\ TypeOK /\ Table!TypeOK /\ Form!TypeOK /\ Sessions!TypeOK /\ Traffic!TypeOK
      => SiteTypeOK
  BY DEF SiteTypeOK, Parts
<1>7. QED BY <1>1, <1>2, <1>3, <1>4, <1>5, <1>6, FormTypesHold, PTL
=============================================================================
