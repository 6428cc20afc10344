---------------------------- MODULE MCRecurrence ----------------------------
(***************************************************************************)
(* Series that begin on any day of 1999 and run past 2100: the leap year   *)
(* of 2000, those after it, and the century that has none. In the other    *)
(* behaviours the pages are used around the ends of a year and of a        *)
(* century's February, on days of every kind.                              *)
(***************************************************************************)
EXTENDS CalendarPages

DatesIn(years) == {x \in [year : years, month : 1..12, day : 1..31] : IsDate(x)}

FirstDates1999 == DatesIn({1999})

\* A Friday, a Sunday and a Tuesday.
WeekEnds == {Date(1999, 12, 31), Date(2100, 2, 28), Date(2024, 12, 31)}

Budget(days, changes, visits) == [day |-> days, change |-> changes, visit |-> visits]
PageBounds == [daily |-> Budget(1, 2, 1), week |-> Budget(2, 1, 1), stats |-> Budget(2, 2, 0)]

SeriesEnded == repeat = "daily" /\ due = Date(MaxYear, 1, 1) /\ day = 1 /\ shortest = 31
PagesUnused ==
  /\ today = Date(1999, 1, 1) /\ passed = TRUE /\ row = [t \in Tasks |-> NULL] /\ earlier = {}
  /\ page = "daily" /\ mounted = Today /\ cached = [q \in Queries |-> NULL] /\ fetching = {}
  /\ left = Budget(0, 0, 0)

MCInit ==
  \/ Init /\ PagesUnused
  \/ OverviewInit /\ SeriesEnded /\ (page # "stats" => earlier = {})

MCNext ==
  \/ Next /\ UNCHANGED overviewVars
  \/ OverviewNext /\ UNCHANGED vars

MCSpec == MCInit /\ [][MCNext]_<<vars, overviewVars>>
=============================================================================
