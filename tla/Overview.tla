------------------------------ MODULE Overview ------------------------------
(***************************************************************************)
(* The pages that show the tasks by day, DailyPage, WeeklyPage and         *)
(* StatsPage: the queries they keep, the filters (task_service.list_tasks) *)
(* and the statistics (stats_service) that answer them, and the streak. A  *)
(* day is its ordinal, but for `today`. All tasks are due at one time of   *)
(* the day; an answer is what the server has when it comes (TaskCache has  *)
(* the reads apart, and the patches of a mutation).                        *)
(***************************************************************************)
EXTENDS Calendar, FiniteSetsExt, SequencesExt

CONSTANTS
  Tasks,                \* bound: the rows there may be
  StartDays,            \* the dates a behaviour may begin on
  Gaps,                 \* days before the first on which something was completed
  ActivityDays,         \* useActivity(84)
  Bounds,               \* bound, by the first page: midnights, changes and visits
  NULL

Queries == {"overdue", "today", "this_week", "activity"}

VARIABLES
  today,                \* the date, of the server and of the browser
  passed,               \* the time at which tasks are due has passed
  row,                  \* the rows, by task
  earlier,              \* the days of completions by tasks that are left alone
  page,                 \* the page that is open
  mounted,              \* the day it was mounted on
  cached,               \* the last answer of each query, and the day it is of
  fetching,             \* the queries under way
  left                  \* what is left of the bounds

overviewVars == <<today, passed, row, earlier, page, mounted, cached, fetching, left>>

Today == Ordinal(today)

\* Years begin at datetime.MINYEAR.
ASSUME OverviewConstants ==
  /\ IsFiniteSet(Tasks) /\ IsFiniteSet(Gaps) /\ ActivityDays \in Nat \ {0}
  /\ NULL \notin Nat \cup [date : Int, completed : Nat]
  /\ \A x \in StartDays : /\ IsDate(x) /\ x.year > 0
                          /\ \A g \in Gaps : g \in Nat /\ g <= Ordinal(x)

Row == [due : Nat, status : {"pending", "completed", "snoozed"}, doneOn : Nat \cup {NULL}]

NewRow(n) == [due |-> n, status |-> "pending", doneOn |-> NULL]

\* The rows, the queries of the pages, and a day for every completion
\* (complete_task sets status and completed_at together).
OverviewTypeOK ==
  /\ IsDate(today) /\ passed \in BOOLEAN
  /\ row \in [Tasks -> Row \cup {NULL}] /\ \A n \in earlier : n \in Nat
  /\ page \in {"daily", "week", "stats"} /\ mounted <= Today
  /\ DOMAIN cached = Queries /\ fetching \subseteq Queries
  /\ \A t \in Tasks : row[t] # NULL /\ row[t].status = "completed" => row[t].doneOn \in 1..Today

-----------------------------------------------------------------------------
(***************************************************************************)
(* The server: _apply_high_level_filter, get_activity and get_streak.      *)
(***************************************************************************)
Stored == {t \in Tasks : row[t] # NULL}

InFilter(q, r) ==
  CASE q = "today"     -> r.due = Today
    [] q = "this_week" -> LET week == PeriodRange("weekly", today) IN r.due \in week[1]..week[2]
    [] q = "overdue"   -> r.status = "pending" /\ (r.due < Today \/ (r.due = Today /\ passed))

\* list_tasks: the rows of a filter, by task.
Listing(q) == [t \in {s \in Stored : InFilter(q, row[s])} |-> row[t]]

CompletedOn(n) ==
  (IF n \in earlier THEN 1 ELSE 0) + Cardinality({t \in Stored : row[t].doneOn = n})

\* get_activity: a day of each of the last ActivityDays, in order.
Activity ==
  LET start == Today - ActivityDays IN
  [i \in 1..ActivityDays |-> [date |-> start + i, completed |-> CompletedOn(start + i)]]

\* summary.best_weekday, Monday 0; of equal ones the first to occur.
BestWeekday(activity) ==
  LET On(w) == {i \in DOMAIN activity : activity[i].completed > 0 /\ (activity[i].date + 6) % 7 = w}
      Total(w) == MapThenSumSet(LAMBDA i : activity[i].completed, On(w))
      Best == {w \in 0..6 : On(w) # {} /\ \A v \in 0..6 : Total(v) <= Total(w)}
  IN IF Best = {} THEN NULL ELSE CHOOSE w \in Best : \A v \in Best : Min(On(w)) <= Min(On(v))

Active == earlier \cup ({row[t].doneOn : t \in Stored} \ {NULL})

\* The days in a row up to n on which something was completed.
RunTo(n) == CHOOSE k \in 0..Cardinality(Active) : n - k \notin Active /\ n - k + 1 .. n \subseteq Active

\* Mutant: a day that has just begun is required.
CurrentWithoutGrace == RunTo(Today)

\* get_streak
Current == RunTo(IF Today \in Active THEN Today ELSE Today - 1)
Longest == Max({RunTo(n) : n \in Active} \cup {0})

-----------------------------------------------------------------------------
(***************************************************************************)
(* The pages.                                                              *)
(***************************************************************************)
Answer(q) == IF cached[q] = NULL THEN <<>> ELSE cached[q].answer

OverdueTasks == Answer("overdue")
TodayTasks == Answer("today")

\* DailyPage: what is listed as overdue is not listed as today's.
TodayOnly == (DOMAIN TodayTasks) \ (DOMAIN OverdueTasks)

Listed == (DOMAIN OverdueTasks) \cup TodayOnly

\* Mutant: the time of the day is left out.
DisplayStatusByDay(r) ==
  IF r.status # "pending" THEN r.status ELSE IF r.due < Today THEN "overdue" ELSE "ahead"

\* getDisplayStatus; due_soon and scheduled are "ahead".
DisplayStatus(r) ==
  IF r.status # "pending" THEN r.status
  ELSE IF r.due < Today \/ (r.due = Today /\ passed) THEN "overdue" ELSE "ahead"

\* date-fns getDay, Sunday 0
GetDay(n) == n % 7

\* Mutant: the week of the locale's default.
StartOfSundayWeek(n) == n - GetDay(n)

\* startOfWeek with weekStartsOn 1
StartOfWeek(n) == n - ((IF GetDay(n) < 1 THEN 7 ELSE 0) + GetDay(n) - 1)

\* WeeklyPage: the days of its columns, those of the week it was mounted in.
WeekColumns == {StartOfWeek(mounted) + i : i \in 0..6}

\* Mutant: rows in the order of getDay.
SundayRow(n) == GetDay(n)

\* WEEKDAY_ROW
WeekdayRow(n) == (GetDay(n) + 6) % 7

\* ActivityHeatmap: the days one after the other, after the empty squares of
\* the first week and before those of the last.
Squares(activity) ==
  LET led == [i \in 1..WeekdayRow(activity[1].date) |-> NULL] \o activity
  IN led \o [i \in 1..((7 - (Len(led) % 7)) % 7) |-> NULL]

\* StatsPage: setDay(new Date(), best_weekday + 1), a day of the week that
\* begins on Sunday, or the Sunday after.
NamedDay(best) == Today - GetDay(Today) + best + 1

-----------------------------------------------------------------------------
ActiveQueries(p) ==
  CASE p = "daily" -> {"overdue", "today"} [] p = "week" -> {"this_week"} [] p = "stats" -> {"activity"}

Spend(kind) == left[kind] > 0 /\ left' = [left EXCEPT ![kind] = @ - 1]

\* A page is opened, from the sidebar, or its window regains the focus: the
\* queries it uses are stale at once and fetched again.
Visit(p) ==
  /\ Spend("visit")
  /\ page' = p /\ mounted' = IF p = page THEN mounted ELSE Today
  /\ fetching' = fetching \cup ActiveQueries(p)
  /\ UNCHANGED <<today, passed, row, earlier, cached>>

\* A query is answered, also after its page was left.
Receive(q) ==
  /\ q \in fetching /\ fetching' = fetching \ {q}
  /\ cached' = [cached EXCEPT ![q] =
                  [on |-> Today, answer |-> IF q = "activity" THEN Activity ELSE Listing(q)]]
  /\ UNCHANGED <<today, passed, row, earlier, page, mounted, left>>

\* Mutant: the day is not noted.
CompletedUndated(r) == [r EXCEPT !.status = "completed"]

\* complete_task
Completed(r) == [r EXCEPT !.status = "completed", !.doneOn = Today]

\* What the task service makes of a row.
ChangesOf(t) ==
  LET r == row[t] IN
  IF r = NULL
    THEN {NewRow(n) : n \in {Today, Today + 1}}
    ELSE {Completed(r),
          [r EXCEPT !.status = "pending", !.doneOn = NULL],
          [r EXCEPT !.status = "snoozed"], NULL}
         \cup {[r EXCEPT !.status = "pending"] : s \in {r.status} \cap {"snoozed"}}
         \cup {[r EXCEPT !.due = n] : n \in {Today, Today + 1}}

\* A change from Telegram, by the jobs, or from the page, which refetches the
\* lists; the statistics are never invalidated.
Change(t) ==
  /\ Spend("change")
  /\ \E r \in ChangesOf(t) : row' = [row EXCEPT ![t] = r]
  /\ fetching' \in {fetching, fetching \cup (ActiveQueries(page) \ {"activity"})}
  /\ UNCHANGED <<today, passed, earlier, page, mounted, cached>>

DueTimePasses ==
  /\ ~passed /\ passed' = TRUE
  /\ UNCHANGED <<today, row, earlier, page, mounted, cached, fetching, left>>

Midnight ==
  /\ passed /\ Spend("day")
  /\ today' = PlusDays(today, 1) /\ passed' = FALSE
  /\ UNCHANGED <<row, earlier, page, mounted, cached, fetching>>

OverviewInit ==
  /\ today \in StartDays /\ passed = FALSE
  /\ row \in [Tasks -> {NULL} \cup {NewRow(n) : n \in {Today, Today + 1}}]
  /\ \E gaps \in SUBSET Gaps : earlier = {Today - g : g \in gaps}
  /\ page \in {"daily", "week", "stats"} /\ mounted = Today
  /\ cached = [q \in Queries |-> NULL] /\ fetching = ActiveQueries(page)
  /\ left = Bounds[page]

OverviewNext ==
  \/ \E p \in {"daily", "week", "stats"} : Visit(p)
  \/ \E q \in Queries : Receive(q)
  \/ \E t \in Tasks : Change(t)
  \/ DueTimePasses
  \/ Midnight

OverviewSpec == OverviewInit /\ [][OverviewNext]_overviewVars

-----------------------------------------------------------------------------
(***************************************************************************)
(* While both lists of DailyPage are what the server has, its tables hold  *)
(* every task of today and every one overdue, and the server, the tables   *)
(* and the badge agree on which are overdue (taskStatus.ts:5-7: "instead   *)
(* of each page computing (and possibly disagreeing on)" it).              *)
(***************************************************************************)
SectionsAgree ==
  /\ page = "daily" /\ cached["overdue"] # NULL /\ cached["today"] # NULL
  /\ OverdueTasks = Listing("overdue") /\ TodayTasks = Listing("today")
  => /\ Listed = {t \in Stored : row[t].due = Today \/ (row[t].due < Today /\ row[t].status = "pending")}
     /\ \A t \in Listed : DisplayStatus(row[t]) = "overdue" <=> t \in DOMAIN OverdueTasks

(***************************************************************************)
(* Every task WeeklyPage was answered has a column while the week it was   *)
(* opened in lasts: date-fns and datetime agree on the week, over the ends *)
(* of months and years.                                                    *)
(***************************************************************************)
WeekAllShown ==
  page = "week" /\ cached["this_week"] # NULL /\ StartOfWeek(cached["this_week"].on) = StartOfWeek(mounted)
    => \A t \in DOMAIN Answer("this_week") : Answer("this_week")[t].due \in WeekColumns

(***************************************************************************)
(* The heatmap is made of whole weeks, Monday first as in the statistics,  *)
(* and the weekday StatsPage calls the best, whatever day it is shown on,  *)
(* is the fullest of its rows.                                             *)
(***************************************************************************)
BestRowNamed ==
  page = "stats" /\ cached["activity"] # NULL =>
    LET squares == Squares(cached["activity"].answer)
        best == BestWeekday(cached["activity"].answer)
        InRow(k) == {i \in DOMAIN squares : (i - 1) % 7 = k /\ squares[i] # NULL}
        Fill(k) == MapThenSumSet(LAMBDA i : squares[i].completed, InRow(k))
        Named == (GetDay(NamedDay(best)) + 6) % 7
    IN /\ Len(squares) % 7 = 0
       /\ best # NULL => \A k \in 0..6 : Fill(k) <= Fill(Named)

(***************************************************************************)
(* A streak is broken by a day without a completion and by nothing else: a *)
(* new day keeps it if something was completed on the last, a day under    *)
(* way adds one at most, and the longest one never shrinks while no        *)
(* completion is withdrawn (the grace day of get_streak).                  *)
(***************************************************************************)
StreakKeepsDays ==
  [][Active \subseteq Active' =>
       /\ Longest' >= Longest /\ Longest' >= Current'
       /\ IF today' = today THEN Current' \in {Current, Current + 1}
          ELSE Current' = IF Today \in Active THEN Current ELSE 0]_overviewVars

=============================================================================
