---------------------------- MODULE RouterStatistics ----------------------------
(***************************************************************************)
(* The statistics kept in a router's document: the collectors of            *)
(* src/snmp/mikrotik/Schedules push a sample every ten minutes onto the     *)
(* list of the day, the calculators turn the list into an average of the    *)
(* month at midnight, and an edit of the router (routerService.go, Update)  *)
(* reads the whole document and replaces it.  Each of them is a read of the *)
(* document followed, some time later, by a write that does not look again. *)
(*                                                                          *)
(* A sample is the metric it is of and its number; an average is the set of *)
(* the samples it was computed from.  Memory, CPU and disk have a list of   *)
(* the day and one of averages in models.Roteador; the temperature has only *)
(* a list of the day, and that is no field of models.Roteador.  A document  *)
(* that Create made has the six lists; one that is older than the lists of  *)
(* a metric lacks them, which is what the calculators look for.             *)
(***************************************************************************)
EXTENDS Integers, Sequences

CONSTANTS
  Averaged,     \* the metrics that have an average: memory, cpu and disk
  Memory, Cpu,  \* two of them
  Temperature,  \* the fourth metric that is collected
  Editors,      \* requests that update the router
  MaxSamples    \* bound: samples collected of each metric

ASSUME BoundsAssumption == MaxSamples \in Nat
ASSUME MetricsAssumption == {Memory, Cpu} \subseteq Averaged /\ Temperature \notin Averaged

VARIABLES
  stored,       \* the document exists
  active,       \* its field active, which the schedulers filter by
  today,        \* its lists of the day, by metric
  month,        \* its averages, by metric
  lists,        \* the fields of the document that are arrays
  nulls,        \* those that are null; what is in neither is not in the document
  collecting,   \* samples whose goroutine has not pushed them yet
  taken,        \* samples collected so far, by metric
  averaging,    \* by metric, what a calculator has read of the day's list, or none
  rested,       \* by metric: a day has passed since the last calculation
  edit,         \* by editor, the lists its Update has read, or none
  pushed,       \* history: samples that were stored
  risked,       \* history: samples stored between the read and the write of another
  discarded,    \* history: samples that a write took away without having read them
  older         \* history: the metrics whose lists the document is older than

document == <<stored, active, today, month, lists, nulls>>
work == <<collecting, taken, averaging, rested, edit>>
history == <<pushed, risked, discarded, older>>
vars == <<document, work, history>>

Metrics == Averaged \cup {Temperature}
Samples == Metrics \X (1..MaxSamples)
Of(m) == {m} \X (1..MaxSamples)
Nothing == [read |-> "nothing"]
NoList == [read |-> "nil"]
DayRead == [read : {"day"}, today : SUBSET Samples]
RouterRead == [read : {"router"}, today : [Metrics -> SUBSET Samples],
               month : [Metrics -> Seq(SUBSET Samples)], lists : SUBSET (Metrics \X {"today", "month"})]

\* The fields of a metric's lists, and those models.Roteador has.
Today(m) == <<m, "today">>
Month(m) == <<m, "month">>
RoteadorLists == Averaged \X {"today", "month"}

\* cpuAverageCalculatorScheduler.go sets the list of the memory when that of the CPU is nil.
EmptiedBy(m) == IF m = Cpu THEN Memory ELSE m

TypeOK ==
  /\ stored \in BOOLEAN /\ active \in BOOLEAN
  /\ today \in [Metrics -> SUBSET Samples]
  /\ month \in [Metrics -> Seq(SUBSET Samples)]
  /\ lists \subseteq Metrics \X {"today", "month"} /\ nulls \subseteq RoteadorLists \ lists
  /\ collecting \subseteq Samples
  /\ taken \in [Metrics -> 0..MaxSamples]
  /\ averaging \in [Averaged -> DayRead \cup {NoList, Nothing}]
  /\ rested \in [Averaged -> BOOLEAN]
  /\ edit \in [Editors -> RouterRead \cup {Nothing}]
  /\ pushed \subseteq Samples /\ risked \subseteq Samples /\ discarded \subseteq Samples
  /\ older \subseteq Averaged

\* routerService.go, Create: six empty lists, but for those that were not known then.
Init ==
  /\ stored = TRUE /\ active = TRUE
  /\ today = [m \in Metrics |-> {}] /\ month = [m \in Metrics |-> <<>>]
  /\ older \in SUBSET Averaged
  /\ lists = (Averaged \ older) \X {"today", "month"} /\ nulls = {}
  /\ collecting = {} /\ taken = [m \in Metrics |-> 0]
  /\ averaging = [m \in Averaged |-> Nothing]
  /\ rested = [m \in Averaged |-> TRUE]
  /\ edit = [e \in Editors |-> Nothing]
  /\ pushed = {} /\ risked = {} /\ discarded = {}

-----------------------------------------------------------------------------
(* The collectors *)

\* collectAllMemoryUsage: on a tick, a goroutine for each active router.
Tick(m) ==
  /\ stored /\ active /\ taken[m] < MaxSamples
  /\ taken' = [taken EXCEPT ![m] = @ + 1]
  /\ collecting' = collecting \cup {<<m, taken[m] + 1>>}
  /\ UNCHANGED <<document, averaging, rested, edit, history>>

\* Somebody has read the lists of m and will write them without looking again.
BeingRewritten(m) ==
  \/ m \in Averaged /\ averaging[m] # Nothing
  \/ m \in Averaged /\ \E e \in Editors : edit[e] # Nothing

\* collectRouterMemory: the device has answered, the sample is pushed by the router's id,
\* whether it is still active or not.  If it is gone the update matches nothing; a list
\* that is not in the document is made, onto null nothing can be pushed.
Push(s) ==
  /\ s \in collecting
  /\ collecting' = collecting \ {s}
  /\ IF stored /\ Today(s[1]) \notin nulls
     THEN /\ today' = [today EXCEPT ![s[1]] = @ \cup {s}]
          /\ lists' = lists \cup {Today(s[1])}
          /\ pushed' = pushed \cup {s}
          /\ risked' = IF BeingRewritten(s[1]) THEN risked \cup {s} ELSE risked
     ELSE UNCHANGED <<today, lists, pushed, risked>>
  /\ UNCHANGED <<stored, active, month, nulls, taken, averaging, rested, edit, discarded, older>>

\* The device does not answer, or the database refuses: the sample is dropped.
Drop(s) ==
  /\ s \in collecting
  /\ collecting' = collecting \ {s}
  /\ UNCHANGED <<document, taken, averaging, rested, edit, history>>

-----------------------------------------------------------------------------
(* The calculators *)

\* What the calculator of m makes of the list it is given: one without samples ends it.
ReadDay(m) ==
  IF Today(m) \notin lists THEN NoList
  ELSE IF today[m] = {} THEN Nothing
  ELSE [read |-> "day", today |-> today[m]]

\* calculateAllAverageMemoryUsage: at midnight the active routers are read, and each
\* goroutine is given its own.
Midnight(m) ==
  /\ rested[m] /\ averaging[m] = Nothing
  /\ rested' = [rested EXCEPT ![m] = FALSE]
  /\ averaging' = [averaging EXCEPT ![m] = IF stored /\ active THEN ReadDay(m) ELSE Nothing]
  /\ UNCHANGED <<document, collecting, taken, edit, history>>

\* calculateAverageMemoryUsage: one update pushes the average and empties the day.
Average(m) ==
  /\ averaging[m] \notin {Nothing, NoList}
  /\ averaging' = [averaging EXCEPT ![m] = Nothing]
  /\ IF stored /\ Month(m) \notin nulls
     THEN /\ month' = [month EXCEPT ![m] = Append(@, averaging[m].today)]
          /\ today' = [today EXCEPT ![m] = {}]
          /\ lists' = lists \cup {Today(m), Month(m)} /\ nulls' = nulls \ {Today(m)}
     ELSE UNCHANGED <<month, today, lists, nulls>>
  /\ UNCHANGED <<stored, active, collecting, taken, rested, edit, history>>

\* The branch for a router without the list: an empty one is set, for the CPU that of the
\* memory, where samples may be.
MakeList(m) ==
  /\ averaging[m] = NoList
  /\ averaging' = [averaging EXCEPT ![m] = Nothing]
  /\ IF stored
     THEN /\ today' = [today EXCEPT ![EmptiedBy(m)] = {}]
          /\ lists' = lists \cup {Today(EmptiedBy(m))} /\ nulls' = nulls \ {Today(EmptiedBy(m))}
          /\ discarded' = IF m = Cpu THEN discarded \cup today[Memory] ELSE discarded
     ELSE UNCHANGED <<today, lists, nulls, discarded>>
  /\ UNCHANGED <<stored, active, month, collecting, taken, rested, edit, pushed, risked, older>>

\* The database refuses the update: the day's list stays, and counts tomorrow.
AverageFails(m) ==
  /\ averaging[m] # Nothing
  /\ averaging' = [averaging EXCEPT ![m] = Nothing]
  /\ UNCHANGED <<document, collecting, taken, rested, edit, history>>

\* GetNextMidnight: a day passes between two calculations.  Requests and updates have
\* timeouts of seconds: none is still under way.
DayPasses ==
  /\ \A m \in Averaged : averaging[m] = Nothing
  /\ \A e \in Editors : edit[e] = Nothing
  /\ \E m \in Averaged : ~rested[m]
  /\ rested' = [m \in Averaged |-> TRUE]
  /\ UNCHANGED <<document, collecting, taken, averaging, edit, history>>

-----------------------------------------------------------------------------
(* The requests *)

\* Update, up to GetById: the lists the new document will have are the ones read here;
\* the password is hashed before they are written.
ReadRouter(e) ==
  /\ edit[e] = Nothing /\ stored
  /\ edit' = [edit EXCEPT ![e] =
       [read |-> "router", today |-> [today EXCEPT ![Temperature] = {}], month |-> month,
        lists |-> lists \cap RoteadorLists]]
  /\ UNCHANGED <<document, collecting, taken, averaging, rested, history>>

\* What a replacement writes besides the statistics, and what it takes away: a list that
\* was not read is written as null, and that of the temperature is not written.
Replaced(e) ==
  /\ edit[e] # Nothing
  /\ edit' = [edit EXCEPT ![e] = Nothing]
  /\ IF stored
     THEN /\ lists' = edit[e].lists /\ nulls' = RoteadorLists \ edit[e].lists
          /\ active' \in BOOLEAN
          /\ discarded' = discarded \cup today[Temperature]
     ELSE UNCHANGED <<lists, nulls, active, discarded>>
  /\ UNCHANGED <<stored, collecting, taken, averaging, rested, pushed, risked, older>>

\* Mistake: only the lists of the day are carried over.
ReplaceDayOnly(e) ==
  Replaced(e) /\ today' = (IF stored THEN edit[e].today ELSE today) /\ UNCHANGED month

\* Mistake: only the averages are carried over.
ReplaceMonthOnly(e) ==
  /\ Replaced(e)
  /\ today' = IF stored THEN [m \in Metrics |-> {}] ELSE today
  /\ month' = IF stored THEN edit[e].month ELSE month

\* Update, from HashPassword on: ReplaceOne, which matches nothing if the router is gone.
ReplaceRouter(e) ==
  /\ Replaced(e)
  /\ IF stored THEN today' = edit[e].today /\ month' = edit[e].month
     ELSE UNCHANGED <<today, month>>

\* The hash or the replacement fails: nothing is written.
UpdateFails(e) ==
  /\ edit[e] # Nothing
  /\ edit' = [edit EXCEPT ![e] = Nothing]
  /\ UNCHANGED <<document, collecting, taken, averaging, rested, history>>

\* Delete.
DeleteRouter ==
  /\ stored /\ stored' = FALSE
  /\ today' = [m \in Metrics |-> {}] /\ month' = [m \in Metrics |-> <<>>]
  /\ lists' = {} /\ nulls' = {}
  /\ UNCHANGED <<active, work, history>>

Next ==
  \/ \E m \in Metrics : Tick(m)
  \/ \E m \in Averaged : Midnight(m) \/ Average(m) \/ MakeList(m) \/ AverageFails(m)
  \/ \E s \in collecting : Push(s) \/ Drop(s)
  \/ DayPasses \/ DeleteRouter
  \/ \E e \in Editors : ReadRouter(e) \/ ReplaceRouter(e) \/ UpdateFails(e)

Spec == Init /\ [][Next]_vars

-----------------------------------------------------------------------------
(* What the statistics promise *)

\* The samples that have been averaged, and what it is for lists to count none twice.
In(averages) == UNION {averages[i] : i \in DOMAIN averages}
NoneTwice(averages, day) ==
  /\ \A i, j \in DOMAIN averages : i # j => averages[i] \cap averages[j] = {}
  /\ In(averages) \cap day = {}

\* No sample counts twice: it is in one average of the month, or waits in the day's
\* list, whatever edits restore older lists around midnight.
CountedOnce == \A m \in Metrics : NoneTwice(month[m], today[m])

\* A stored sample disappears in three ways only: it was stored between somebody's read
\* of its list and their write; it is of the temperature, which every edit takes away; or
\* it is of the memory, and the document is older than the list of the CPU.  Edits and
\* midnights that do not overlap it lose nothing else.
LostOnlyBetween ==
  /\ stored => \A m \in Metrics :
       (pushed \cap Of(m)) \ (risked \cup discarded) \subseteq today[m] \cup In(month[m])
  /\ discarded \subseteq Of(Temperature) \cup (IF Cpu \in older THEN Of(Memory) ELSE {})
=============================================================================
