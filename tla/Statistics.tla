------------------------------ MODULE Statistics -------------------------------
(***************************************************************************)
(* The statistics of the backend (service/statistics.go): counts of QAs    *)
(* and of users for the days or the months of a period. Time is counted in *)
(* hours from the start of a year, years have 365 days, and a label is the *)
(* number of a day or of a month since then. A row has its time, session,  *)
(* job group, vote and tokens. The ranking of keywords is left out.        *)
(***************************************************************************)
EXTENDS Integers, Sequences, FiniteSetsExt, SequencesExt

Day(time) == time \div 24

\* The first days of the months of a year.
MonthStart == <<0, 31, 59, 90, 120, 151, 181, 212, 243, 273, 304, 334>>

Month(day) == 12 * (day \div 365) + Max({m \in 1 .. 12 : MonthStart[m] <= day % 365})

FirstDay(month) == 365 * ((month - 1) \div 12) + MonthStart[((month - 1) % 12) + 1]

DayOfMonth(day) == day - FirstDay(Month(day))

\* Faulty variant: the next month by its mean length.
AddMonthOfDays(day) == day + 30

\* AddDate(0, 1, 0): a day that the next month lacks is one of the month after.
AddMonth(day) == FirstDay(Month(day) + 1) + DayOfMonth(day)

Label(unit, day) == IF unit = "MONTH" THEN Month(day) ELSE day

\* The label of every date from the first on, as long as it is not past the last.
Labels(unit, from, to) ==
  LET Next(d) == IF unit = "MONTH" THEN AddMonth(d) ELSE d + 1
      labels[d \in from .. to + 62] ==
        IF d > to THEN <<>> ELSE <<Label(unit, d)>> \o labels[Next(d)]
  IN  labels[from]

\* The labels and those of the rows besides, in order.
Buckets(unit, from, to, rows) ==
  LET labels == ToSet(Labels(unit, from, to)) \union {Label(unit, Day(r.at)) : r \in rows}
  IN  [i \in 1 .. Cardinality(labels) |->
         CHOOSE l \in labels : Cardinality({k \in labels : k < l}) = i - 1]

InBucket(unit, bucket, rows) == {r \in rows : Label(unit, Day(r.at)) = bucket}

\* extractAskHistoryDaily: the QAs of every bucket.
AskHistory(unit, from, to, rows) ==
  LET buckets == Buckets(unit, from, to, rows)
  IN  [i \in DOMAIN buckets |-> Cardinality(InBucket(unit, buckets[i], rows))]

\* extractLLMTokenHistoryDaily: their tokens.
TokenHistory(unit, from, to, rows) ==
  LET buckets == Buckets(unit, from, to, rows)
  IN  [i \in DOMAIN buckets |-> SumFunction([r \in InBucket(unit, buckets[i], rows) |-> r.tokens])]

\* A row without a job group counts for the others.
JobGroup(r) == IF r.jobGroup = "" THEN "etc" ELSE r.jobGroup

Sessions(group, rows) == {r.session : r \in {x \in rows : JobGroup(x) = group}}

\* extractUserTrends: the different sessions of a job group.
UserTrends(unit, from, to, rows) ==
  LET buckets == Buckets(unit, from, to, rows)
  IN  [g \in {JobGroup(r) : r \in rows} |->
         [i \in DOMAIN buckets |-> Cardinality(Sessions(g, InBucket(unit, buckets[i], rows)))]]

\* extractUserTrendsHourly: the same for the hours of all days.
UserTrendsHourly(rows) ==
  [g \in {JobGroup(r) : r \in rows} |->
     [h \in 0 .. 23 |-> Cardinality(Sessions(g, {r \in rows : r.at % 24 = h}))]]

\* extractSatisfactionSurvey, in percent and rounded down; -1 without a vote.
Survey(rows) ==
  LET good == Cardinality({r \in rows : r.vote = "up"})
      bad == Cardinality({r \in rows : r.vote = "down"})
  IN  IF good + bad = 0 THEN [good |-> -1, bad |-> -1]
      ELSE [good |-> (100 * good) \div (good + bad), bad |-> (100 * bad) \div (good + bad)]

GetStatistics(unit, from, to, rows) ==
  [labels |-> Labels(unit, from, to),
   asked |-> AskHistory(unit, from, to, rows),
   tokens |-> TokenHistory(unit, from, to, rows),
   users |-> UserTrends(unit, from, to, rows),
   hourly |-> UserTrendsHourly(rows),
   survey |-> Survey(rows)]

\* Whether the months of a period are those of its labels: from no day that a
\* month lacks, to a day that is not earlier in its month.
MonthsAlign(from, to) == DayOfMonth(from) < 28 /\ DayOfMonth(from) <= DayOfMonth(to)
=============================================================================
