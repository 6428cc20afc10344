---------------------- MODULE ReminderSchedulerProofs ----------------------
(***************************************************************************)
(* Proofs about TaskService, for every number of tasks, sessions, days and *)
(* instants: types, a series never stops, and completed history stands.    *)
(* Then, with the reminder job, the retention job, crashes and failing     *)
(* channels beside the requests: types are kept, a series still never      *)
(* stops, messages are accounted for, the jobs take no active occurrence   *)
(* and no completed history away, and no snooze is left without an end.    *)
(* Last, that all of it implements Series, that Series promises enough,    *)
(* and which steps of it bring a second occurrence.                        *)
(***************************************************************************)
EXTENDS ReminderScheduler, TLAPS

-----------------------------------------------------------------------------
(***************************************************************************)
(* Rows computed by the operations are rows.                               *)
(***************************************************************************)
LEMMA NextOccurrenceType ==
  ASSUME NEW row \in Row, Recurring(row), WithinHorizon(row)
  PROVE  /\ NextOccurrence(row) \in Row
         /\ NextOccurrence(row) # NULL
         /\ NextOccurrence(row).series_id = row.series_id
         /\ NextOccurrence(row).status = "pending"
         /\ Recurring(NextOccurrence(row))
<1>1. NextOccurrence(row) \in Row
  BY DEF NextOccurrence, WithinHorizon, Row, Status
<1>2. QED
  BY <1>1, RowConstants DEF NextOccurrence, Recurring, Row

LEMMA EditedRowType ==
  ASSUME NEW row \in Row, NEW t \in Instants, NEW u \in Later, NEW p \in Patch
  PROVE  /\ Completed(row, t) \in Row
         /\ AutoCompleted(row, t) \in Row
         /\ Reopened(row) \in Row
         /\ Snoozed(row, u) \in Row
         /\ Patched(row, p) \in Row
  BY DEF Completed, AutoCompleted, Reopened, Snoozed, Patched, Row, Status, Patch

LEMMA FlushedType ==
  ASSUME NEW row \in Row, NEW w \in Work
  PROVE  Flushed(row, w) \in Row
  BY DEF Flushed, Net, Row, Work

LEMMA RippledType ==
  ASSUME NEW row \in Row, NEW w \in Work
  PROVE  Rippled(row, w) \in Row
  BY DEF Rippled, Row, Work

-----------------------------------------------------------------------------
(***************************************************************************)
(* What does not depend on the sessions, and what one COMMIT does to it.   *)
(* Core is stated over the table alone, so that the scheduler's proof can  *)
(* use these lemmas for the commits of its own.                            *)
(***************************************************************************)
TableTypeOK ==
  /\ rows \in [TaskIds -> Row \cup {NULL}]
  /\ fresh \subseteq TaskIds
  /\ running \subseteq TaskIds

Core == TableTypeOK /\ RowsGood /\ SeriesNeverStops

LEMMA AfterCommitType ==
  ASSUME TableTypeOK, NEW w \in Work
  PROVE  AfterCommit(w) \in [TaskIds -> Row \cup {NULL}]
<1>1. ASSUME NEW t \in TaskIds
      PROVE  AfterCommit(w)[t] \in Row \cup {NULL}
  <2>1. rows[t] \in Row \cup {NULL}
    BY DEF TableTypeOK
  <2>2. Live(t) => Flushed(rows[t], w) \in Row /\ Rippled(rows[t], w) \in Row
    BY <2>1, FlushedType, RippledType DEF Live
  <2>3. QED
    BY <2>1, <2>2 DEF AfterCommit
<1>2. QED
  BY <1>1 DEF AfterCommit

\* A row that is there after the commit was there before, in the same series.
LEMMA AfterCommitLive ==
  ASSUME NEW w \in Work, NEW t \in TaskIds, AfterCommit(w)[t] # NULL
  PROVE  Live(t) /\ AfterCommit(w)[t].series_id = rows[t].series_id
  BY DEF AfterCommit, Live, Flushed, Rippled

LEMMA CommitTypes ==
  ASSUME TableTypeOK, NEW w \in Work, CommitWork(w)
  PROVE  TableTypeOK'
<1>1. running' \subseteq TaskIds
  BY DEF CommitWork, TableTypeOK
<1>2. CASE w.spawn = NULL
  BY <1>1, <1>2, AfterCommitType DEF CommitWork, TableTypeOK
<1>3. CASE w.spawn # NULL
  <2>1. w.spawn \in Row
    BY <1>3 DEF Work
  <2>2. QED
    BY <1>1, <1>3, <2>1, AfterCommitType DEF CommitWork, TableTypeOK
<1>4. QED
  BY <1>2, <1>3

\* Whoever has read a row keeps a good reading of it across a commit.
LEMMA CommitKeepsReads ==
  ASSUME Core, NEW w \in Work, GoodWork(w), CommitWork(w),
         NEW t \in TaskIds, NEW row \in Row, GoodRead(t, row)
  PROVE  GoodRead(t, row)'
<1>1. fresh' \subseteq fresh /\ running' \subseteq running
  BY DEF CommitWork
<1>2. t \notin fresh' /\ row.series_id \notin fresh'
  BY <1>1 DEF GoodRead
<1>3. row.series_id \in running' => Recurring(row)
  BY <1>1 DEF GoodRead
<1>4. ASSUME Live(t)'
      PROVE  rows[t]'.series_id = row.series_id
  <2>1. rows'[t] = AfterCommit(w)[t]
    BY AfterCommitType DEF CommitWork, GoodRead, Core
  <2>2. Live(t) /\ rows'[t].series_id = rows[t].series_id
    BY <1>4, <2>1, AfterCommitLive DEF Live
  <2>3. QED
    BY <2>2 DEF GoodRead
<1>5. QED
  BY <1>2, <1>3, <1>4 DEF GoodRead, Live

\* While a series runs its rows keep recurring: turning the repetition off ends it.
LEMMA CommitKeepsRecurrence ==
  ASSUME Core, NEW w \in Work, GoodWork(w), CommitWork(w),
         NEW t \in TaskIds, AfterCommit(w)[t] # NULL,
         AfterCommit(w)[t].series_id \in running'
  PROVE  Recurring(AfterCommit(w)[t])
<1>1. Live(t) /\ rows[t].series_id \in running' /\ rows[t].series_id \in running
  BY AfterCommitLive DEF CommitWork
<1>2. Recurring(rows[t])
  BY <1>1 DEF Core, RowsGood
<1>3. CASE t = w.task
  <2>1. rows[t].series_id = w.old.series_id
    BY <1>1, <1>3 DEF GoodWork, GoodRead
  <2>2. ~EndsSeries(w)
    BY <1>1, <2>1 DEF CommitWork
  <2>3. AfterCommit(w)[t] = Flushed(rows[t], w)
    BY <1>3 DEF AfterCommit
  <2>4. QED
    BY <1>2, <2>2, <2>3 DEF EndsSeries, Flushed, Net, Recurring
<1>4. CASE t # w.task /\ w.ripple # {} /\ IsFutureSibling(rows[t], w)
  <2>1. ~EndsSeries(w)
    BY <1>1, <1>4 DEF CommitWork, IsFutureSibling
  <2>2. AfterCommit(w)[t] = Rippled(rows[t], w)
    BY <1>1, <1>4 DEF AfterCommit
  <2>3. rows[t] \in Row
    BY <1>1 DEF Core, TableTypeOK, Live
  <2>4. QED
    BY <1>2, <2>1, <2>2, <2>3 DEF EndsSeries, Rippled, Recurring, Row
<1>5. CASE t # w.task /\ ~(w.ripple # {} /\ IsFutureSibling(rows[t], w))
  BY <1>2, <1>5 DEF AfterCommit
<1>6. QED
  BY <1>3, <1>4, <1>5

LEMMA CommitKeepsRows ==
  ASSUME Core, NEW w \in Work, GoodWork(w), CommitWork(w)
  PROVE  RowsGood'
<1>1. fresh' \subseteq fresh /\ running' \subseteq running
  BY DEF CommitWork
<1>2. AfterCommit(w) \in [TaskIds -> Row \cup {NULL}]
  BY AfterCommitType DEF Core
<1>3. ASSUME NEW t \in TaskIds, rows'[t] = AfterCommit(w)[t], Live(t)'
      PROVE  /\ rows'[t].series_id \notin fresh'
             /\ rows'[t].series_id \in running' => Recurring(rows'[t])
  <2>1. Live(t) /\ rows'[t].series_id = rows[t].series_id
    BY <1>3, AfterCommitLive DEF Live
  <2>2. QED
    BY <1>1, <1>3, <2>1, CommitKeepsRecurrence DEF Core, RowsGood, Live
<1>4. ASSUME NEW t \in fresh
      PROVE  AfterCommit(w)[t] = NULL
  BY <1>4, AfterCommitLive DEF Core, RowsGood, TableTypeOK
<1>5. CASE w.spawn = NULL
  BY <1>3, <1>4, <1>5 DEF CommitWork, RowsGood, Live, Core, TableTypeOK
<1>6. CASE w.spawn # NULL
  <2>1. PICK n \in fresh : /\ rows' = [AfterCommit(w) EXCEPT ![n] = w.spawn]
                           /\ fresh' = fresh \ {n}
    BY <1>6 DEF CommitWork
  <2>2. /\ rows'[n] = w.spawn
        /\ \A t \in TaskIds \ {n} : rows'[t] = AfterCommit(w)[t]
    BY <1>2, <2>1 DEF Core, TableTypeOK
  <2>3. w.spawn.series_id \notin fresh' /\ Recurring(w.spawn)
    BY <1>1, <1>6 DEF GoodWork, GoodRead
  <2>4. QED
    BY <1>3, <1>4, <2>1, <2>2, <2>3 DEF RowsGood, Live, Core, TableTypeOK
<1>7. QED
  BY <1>5, <1>6

\* The heart of it: a commit that ends the only active occurrence of a series
\* that runs on brings the next one.
LEMMA CommitKeepsSeries ==
  ASSUME Core, NEW w \in Work, GoodWork(w), CommitWork(w)
  PROVE  SeriesNeverStops'
<1> SUFFICES ASSUME NEW s \in running'
             PROVE  \E u \in TaskIds : (InSeries(u, s) /\ IsActive(rows[u]))'
  BY DEF SeriesNeverStops
<1>1. s \in running /\ s \in TaskIds
  BY DEF CommitWork, Core, TableTypeOK
<1>2. AfterCommit(w) \in [TaskIds -> Row \cup {NULL}]
  BY AfterCommitType DEF Core
<1>3. PICK t \in TaskIds : InSeries(t, s) /\ IsActive(rows[t])
  BY <1>1 DEF Core, SeriesNeverStops
<1>4. rows[t] \in Row /\ Live(t) /\ t \notin fresh
  BY <1>3 DEF Core, TableTypeOK, InSeries, Live, RowsGood
<1>5. w.spawn = NULL => rows'[t] = AfterCommit(w)[t]
  BY DEF CommitWork
<1>6. w.spawn # NULL => rows'[t] = AfterCommit(w)[t]
  BY <1>2, <1>4 DEF CommitWork
<1>7. CASE w.spawn # NULL /\ w.old.series_id = s
  <2>1. PICK n \in fresh : rows' = [AfterCommit(w) EXCEPT ![n] = w.spawn]
    BY <1>7 DEF CommitWork
  <2>2. n \in TaskIds /\ rows'[n] = w.spawn
    BY <1>2, <2>1 DEF Core, TableTypeOK
  <2>3. QED
    BY <1>7, <2>2 DEF GoodWork, InSeries, Live, IsActive, Active
<1>8. CASE t = w.task /\ ~(w.spawn # NULL /\ w.old.series_id = s)
  <2>1. w.old.series_id = s /\ w.spawn = NULL
    BY <1>3, <1>4, <1>8 DEF GoodWork, GoodRead, InSeries
  <2>2. ~EndsSeries(w)
    BY <1>1, <2>1 DEF CommitWork
  <2>3. rows'[t] = Flushed(rows[t], w)
    BY <1>3, <1>4, <1>5, <1>8, <2>1, <2>2 DEF AfterCommit, EndsSeries
  <2>4. Flushed(rows[t], w) \in Row
    BY <1>4, FlushedType
  <2>5. Recurring(w.old)
    BY <1>1, <2>1 DEF GoodWork, GoodRead
  <2>6. Flushed(rows[t], w).status \in Active
    BY <1>3, <1>4, <2>1, <2>5
       DEF GoodWork, Flushed, Net, IsActive, Active, Work, Row, Status
  <2>7. QED
    BY <1>3, <2>3, <2>4, <2>6, RowConstants DEF InSeries, Live, IsActive, Flushed
<1>9. CASE t # w.task
  <2>1. rows'[t] = AfterCommit(w)[t]
    BY <1>5, <1>6
  <2>2. rows'[t] \in {rows[t], Rippled(rows[t], w)}
    BY <1>9, <2>1 DEF AfterCommit
  <2>3. rows'[t] \in Row /\ rows'[t].status = rows[t].status
                         /\ rows'[t].series_id = rows[t].series_id
    BY <1>4, <2>2, RippledType DEF Rippled, Row
  <2>4. QED
    BY <1>3, <2>3, RowConstants DEF InSeries, Live, IsActive
<1>10. QED
  BY <1>7, <1>8, <1>9

LEMMA CommitKeepsCore ==
  ASSUME Core, NEW w \in Work, GoodWork(w), CommitWork(w)
  PROVE  Core'
  BY CommitTypes, CommitKeepsRows, CommitKeepsSeries DEF Core

-----------------------------------------------------------------------------
(***************************************************************************)
(* The steps of a request.                                                 *)
(***************************************************************************)
LEMMA CreateKeepsCore ==
  ASSUME Core, NEW n \in TaskIds, CreateTask(n)
  PROVE  /\ Core'
         /\ \A t \in TaskIds, row \in Row : GoodRead(t, row) => GoodRead(t, row)'
<1>1. PICK body \in NewTasks :
        /\ rows' = [rows EXCEPT ![n] = NewRow(n, body)]
        /\ running' = IF body.repeat_type # "none" THEN running \cup {n} ELSE running
  BY DEF CreateTask
<1>2. NewRow(n, body) \in Row
  BY RowConstants DEF NewRow, NewTask, Row, Status
<1>3. n \in fresh /\ fresh' = fresh \ {n} /\ ~Live(n)
  BY DEF CreateTask, Core, RowsGood
<1>4. rows'[n] = NewRow(n, body) /\ \A t \in TaskIds \ {n} : rows'[t] = rows[t]
  BY <1>1 DEF Core, TableTypeOK
<1>5. TableTypeOK'
  BY <1>1, <1>2, <1>3 DEF Core, TableTypeOK
<1>6. RowsGood'
  BY <1>1, <1>3, <1>4, RowConstants
     DEF Core, RowsGood, TableTypeOK, Live, NewRow, Recurring
<1>7. SeriesNeverStops'
  <2> SUFFICES ASSUME NEW s \in running'
               PROVE  \E u \in TaskIds : (InSeries(u, s) /\ IsActive(rows[u]))'
    BY DEF SeriesNeverStops
  <2>1. CASE s \in running
    <3>1. PICK u \in TaskIds : InSeries(u, s) /\ IsActive(rows[u])
      BY <2>1 DEF Core, SeriesNeverStops
    <3>2. u # n
      BY <3>1, <1>3 DEF InSeries
    <3>3. QED
      BY <3>1, <3>2, <1>4 DEF InSeries, Live, IsActive
  <2>2. CASE s \notin running
    <3>1. s = n /\ body.repeat_type # "none"
      BY <2>2, <1>1
    <3>2. QED
      BY <3>1, <1>2, <1>4, RowConstants DEF InSeries, Live, IsActive, Active, NewRow
  <2>3. QED
    BY <2>1, <2>2
<1>8. ASSUME NEW t \in TaskIds, NEW row \in Row, GoodRead(t, row)
      PROVE  GoodRead(t, row)'
  BY <1>1, <1>3, <1>4, <1>8 DEF GoodRead, Live
<1>9. QED
  BY <1>5, <1>6, <1>7, <1>8 DEF Core

\* What the operations hold after their SELECT is good work.
LEMMA LoadedWorkGood ==
  ASSUME Core, NEW t \in TaskIds, Live(t),
         NEW new \in Row, NEW stamp \in BOOLEAN, NEW spawn \in {NULL, NextOccurrence(rows[t])},
         NEW delete \in BOOLEAN, NEW ripple \in SUBSET TemplateFields,
         spawn # NULL => Recurring(rows[t]) /\ WithinHorizon(rows[t]),
         new.status = "completed" /\ rows[t].status # "completed" =>
           spawn # NULL \/ ~Recurring(rows[t]),
         spawn # NULL => delete \/ new.status = "completed",
         spawn # NULL \/ delete \/ new.status # rows[t].status =>
           new.repeat_type = rows[t].repeat_type /\ ripple = {},
         NEW w, w = [task |-> t, old |-> rows[t], new |-> new, stamp |-> stamp,
                     spawn |-> spawn, delete |-> delete, ripple |-> ripple]
  PROVE  w \in Work /\ GoodWork(w)
<1>1. rows[t] \in Row /\ t \notin fresh
  BY DEF Core, TableTypeOK, RowsGood, Live
<1>2. spawn # NULL => /\ spawn \in Row
                      /\ spawn.series_id = rows[t].series_id
                      /\ spawn.status = "pending"
                      /\ Recurring(spawn)
  BY <1>1, NextOccurrenceType
<1>3. w \in Work
  BY <1>1, <1>2 DEF Work
<1>4. GoodRead(t, rows[t])
  BY <1>1 DEF GoodRead, Core, RowsGood
<1>5. QED
  BY <1>2, <1>3, <1>4 DEF GoodWork

LEMMA BeginGood ==
  ASSUME ServiceInv, Core, NEW s \in Sessions, NEW t \in TaskIds,
         \/ BeginComplete(s, t) \/ BeginReopen(s, t) \/ BeginSnooze(s, t)
         \/ BeginUpdate(s, t) \/ BeginDelete(s, t) \/ BeginSkip(s, t)
  PROVE  \E w \in Work : GoodWork(w) /\ Load(s, w)
<1>1. now \in Instants
  BY DEF ServiceInv, ServiceTypeOK
<1>2. Live(t) => rows[t] \in Row
  BY DEF Core, TableTypeOK, Live
<1>3. CASE BeginComplete(s, t)
  <2> DEFINE w == Edit(t, Completed(rows[t], now), TRUE,
                       IF Recurring(rows[t]) THEN NextOccurrence(rows[t]) ELSE NULL)
  <2>1. Live(t) /\ WithinHorizon(rows[t]) /\ Load(s, w)
    BY <1>3 DEF BeginComplete
  <2>2. /\ Completed(rows[t], now) \in Row
        /\ Completed(rows[t], now).status = "completed"
        /\ Completed(rows[t], now).repeat_type = rows[t].repeat_type
    BY <1>1, <1>2, <2>1 DEF Completed, Row, Status
  <2>3. Recurring(rows[t]) => NextOccurrence(rows[t]) # NULL
    BY <1>2, <2>1, NextOccurrenceType
  <2>4. w \in Work /\ GoodWork(w)
    BY <2>1, <2>2, <2>3, LoadedWorkGood DEF Edit
  <2>5. QED
    BY <2>1, <2>4
<1>4. CASE BeginReopen(s, t)
  <2> DEFINE w == Edit(t, Reopened(rows[t]), FALSE, NULL)
  <2>1. Live(t) /\ Load(s, w)
    BY <1>4 DEF BeginReopen
  <2>2. /\ Reopened(rows[t]) \in Row
        /\ Reopened(rows[t]).status = "pending"
        /\ Reopened(rows[t]).repeat_type = rows[t].repeat_type
    BY <1>2, <2>1 DEF Reopened, Row, Status
  <2>3. w \in Work /\ GoodWork(w)
    BY <2>1, <2>2, LoadedWorkGood DEF Edit
  <2>4. QED
    BY <2>1, <2>3
<1>5. CASE BeginSnooze(s, t)
  <2>1. PICK u \in SnoozeEnds(rows[t]) : Load(s, Edit(t, Snoozed(rows[t], u), FALSE, NULL))
    BY <1>5 DEF BeginSnooze
  <2>2. Live(t) /\ u \in Later
    BY <1>5 DEF BeginSnooze, SnoozeEnds
  <2>3. /\ Snoozed(rows[t], u) \in Row
        /\ Snoozed(rows[t], u).status = "snoozed"
        /\ Snoozed(rows[t], u).repeat_type = rows[t].repeat_type
    BY <1>2, <2>2 DEF Snoozed, Row, Status
  <2> DEFINE w == Edit(t, Snoozed(rows[t], u), FALSE, NULL)
  <2>4. w \in Work /\ GoodWork(w)
    BY <2>2, <2>3, LoadedWorkGood DEF Edit
  <2>5. QED
    BY <2>1, <2>4
<1>6. CASE BeginUpdate(s, t)
  <2>1. PICK p \in Patches, scope \in {"this", "future"} : Load(s, Update(t, p, scope))
    BY <1>6 DEF BeginUpdate
  <2> DEFINE w == Update(t, p, scope)
  <2>2. Live(t) /\ p \in Patch
    BY <1>6, RowConstants DEF BeginUpdate
  <2>3. Patched(rows[t], p) \in Row /\ Patched(rows[t], p).status = rows[t].status
    BY <1>2, <2>2 DEF Patched, Row, Patch
  <2>4. w \in Work /\ GoodWork(w)
    BY <2>2, <2>3, LoadedWorkGood DEF Update
  <2>5. QED
    BY <2>1, <2>4
<1>7. CASE BeginDelete(s, t)
  <2> DEFINE w == Removal(t, NULL)
  <2>1. Live(t) /\ Load(s, w)
    BY <1>7 DEF BeginDelete
  <2>2. w \in Work /\ GoodWork(w)
    BY <1>2, <2>1, LoadedWorkGood DEF Removal
  <2>3. QED
    BY <2>1, <2>2
<1>8. CASE BeginSkip(s, t)
  <2> DEFINE w == Removal(t, NextOccurrence(rows[t]))
  <2>1. Live(t) /\ Recurring(rows[t]) /\ WithinHorizon(rows[t]) /\ Load(s, w)
    BY <1>8 DEF BeginSkip
  <2>2. w \in Work /\ GoodWork(w)
    BY <1>2, <2>1, LoadedWorkGood DEF Removal
  <2>3. QED
    BY <2>1, <2>2
<1>9. QED
  BY <1>3, <1>4, <1>5, <1>6, <1>7, <1>8

(***************************************************************************)
(* A step of any request keeps the invariant, and every reading made       *)
(* before it good.                                                         *)
(***************************************************************************)
LEMMA UserStepKeeps ==
  ASSUME ServiceInv, UserStep
  PROVE  /\ ServiceInv'
         /\ \A t \in TaskIds, row \in Row : GoodRead(t, row) => GoodRead(t, row)'
<1> DEFINE KeepsReads == \A t \in TaskIds, row \in Row : GoodRead(t, row) => GoodRead(t, row)'
<1>0. Core /\ session \in [Sessions -> Work \cup {NULL}] /\ now \in Instants
  BY DEF ServiceInv, ServiceTypeOK, Core, TableTypeOK
<1>1. \A w \in Work : GoodWork(w) /\ KeepsReads => GoodWork(w)'
  BY DEF GoodWork, Work
<1>2. \A s \in Sessions : session[s] # NULL => session[s] \in Work /\ GoodWork(session[s])
  BY <1>0 DEF ServiceInv
<1>3. ASSUME Core', KeepsReads, now' = now,
             NEW s \in Sessions, NEW w \in Work \cup {NULL}, w # NULL => GoodWork(w),
             session' = [session EXCEPT ![s] = w]
      PROVE  ServiceInv' /\ KeepsReads
  BY <1>0, <1>1, <1>2, <1>3 DEF ServiceInv, ServiceTypeOK, Core, TableTypeOK
<1>4. ASSUME UNCHANGED <<rows, fresh, running>>
      PROVE  Core' /\ KeepsReads
  BY <1>0, <1>4
     DEF Core, TableTypeOK, RowsGood, SeriesNeverStops, InSeries, IsActive, Live, GoodRead
<1>5. ASSUME NEW n \in TaskIds, CreateTask(n)
      PROVE  ServiceInv' /\ KeepsReads
  <2>1. Core' /\ KeepsReads /\ session' = session /\ now' = now
    BY <1>0, <1>5, CreateKeepsCore DEF CreateTask
  <2>2. QED
    BY <1>0, <1>1, <1>2, <2>1 DEF ServiceInv, ServiceTypeOK, Core, TableTypeOK
<1>6. ASSUME NEW s \in Sessions, NEW w \in Work, GoodWork(w), Load(s, w)
      PROVE  ServiceInv' /\ KeepsReads
  BY <1>3, <1>4, <1>6 DEF Load
<1>7. ASSUME NEW s \in Sessions, Commit(s)
      PROVE  ServiceInv' /\ KeepsReads
  <2>1. session[s] \in Work /\ GoodWork(session[s]) /\ CommitWork(session[s])
    BY <1>2, <1>7 DEF Commit
  <2>2. Core' /\ KeepsReads
    BY <1>0, <2>1, CommitKeepsCore, CommitKeepsReads
  <2>3. QED
    BY <1>3, <1>7, <2>2 DEF Commit
<1>8. ASSUME NEW s \in Sessions, Abort(s)
      PROVE  ServiceInv' /\ KeepsReads
  BY <1>3, <1>4, <1>8 DEF Abort
<1>9. QED
  BY <1>0, <1>5, <1>6, <1>7, <1>8, BeginGood DEF UserStep

LEMMA TickKeeps ==
  ASSUME ServiceInv, Tick
  PROVE  /\ ServiceInv'
         /\ \A t \in TaskIds, row \in Row : GoodRead(t, row) => GoodRead(t, row)'
<1>1. now' \in Instants
  BY RowConstants DEF Tick, ServiceInv, ServiceTypeOK, Instants
<1>2. QED
  BY <1>1 DEF Tick, ServiceInv, ServiceTypeOK, RowsGood, SeriesNeverStops, InSeries,
              IsActive, Live, GoodWork, GoodRead

LEMMA ServiceInitInv == ServiceInit => ServiceInv
  BY RowConstants DEF ServiceInit, ServiceInv, ServiceTypeOK, RowsGood, SeriesNeverStops,
                      Live, Instants

(***************************************************************************)
(* Whatever requests overlap, fail or are lost, the rows keep their types  *)
(* and a recurring task never silently stops                               *)
(* (task_service.build_next_occurrence, complete_task, skip_task).         *)
(***************************************************************************)
THEOREM ServiceInvariance == ServiceSpec => []ServiceInv
<1>1. ServiceInv /\ [ServiceNext]_serviceVars => ServiceInv'
  <2> SUFFICES ASSUME ServiceInv, [ServiceNext]_serviceVars
               PROVE  ServiceInv'
    OBVIOUS
  <2>1. CASE UserStep
    BY <2>1, UserStepKeeps
  <2>2. CASE Tick
    BY <2>2, TickKeeps
  <2>3. CASE UNCHANGED serviceVars
    BY <2>3 DEF serviceVars, ServiceInv, ServiceTypeOK, RowsGood, SeriesNeverStops, InSeries,
                IsActive, Live, GoodWork, GoodRead
  <2>4. QED
    BY <2>1, <2>2, <2>3 DEF ServiceNext
<1>2. QED
  BY <1>1, ServiceInitInv, PTL DEF ServiceSpec

\* The part of the invariant the requests' side of the system promises.
THEOREM ServiceKeepsSeries == ServiceSpec => [](ServiceTypeOK /\ SeriesNeverStops)
<1>1. ServiceInv => ServiceTypeOK /\ SeriesNeverStops
  BY DEF ServiceInv
<1>2. QED
  BY <1>1, ServiceInvariance, PTL

-----------------------------------------------------------------------------
(***************************************************************************)
(* Completed history.                                                      *)
(***************************************************************************)
\* A commit touches no completed row but that of its own task: the bulk UPDATE
\* leaves completed rows out and a spawned row has an id nobody had.
LEMMA CommitSparesHistory ==
  ASSUME Core, NEW w \in Work, CommitWork(w),
         NEW t \in TaskIds, Live(t), rows[t].status = "completed", t # w.task
  PROVE  rows'[t] = rows[t]
<1>1. AfterCommit(w)[t] = rows[t]
  BY DEF AfterCommit, IsFutureSibling
<1>2. AfterCommit(w) \in [TaskIds -> Row \cup {NULL}]
  BY AfterCommitType DEF Core
<1>3. t \notin fresh
  BY DEF Core, RowsGood
<1>4. CASE w.spawn = NULL
  BY <1>1, <1>4 DEF CommitWork
<1>5. CASE w.spawn # NULL
  <2>1. PICK n \in fresh : rows' = [AfterCommit(w) EXCEPT ![n] = w.spawn]
    BY <1>5 DEF CommitWork
  <2>2. QED
    BY <1>1, <1>2, <1>3, <2>1
<1>6. QED
  BY <1>4, <1>5

\* A step of a request that changes a completed row is the commit of work on it.
LEMMA RequestSparesHistory ==
  ASSUME ServiceInv, UserStep, NEW t \in TaskIds, Live(t), rows[t].status = "completed"
  PROVE  rows'[t] = rows[t] \/ \E s \in Sessions : session[s] # NULL /\ session[s].task = t
<1>1. Core /\ session \in [Sessions -> Work \cup {NULL}]
  BY DEF ServiceInv, ServiceTypeOK, Core, TableTypeOK
<1>2. ASSUME NEW n \in TaskIds, CreateTask(n)
      PROVE  rows'[t] = rows[t]
  BY <1>1, <1>2 DEF CreateTask, Core, TableTypeOK, RowsGood
<1>3. ASSUME NEW s \in Sessions, Commit(s), session[s].task # t
      PROVE  rows'[t] = rows[t]
  BY <1>1, <1>3, CommitSparesHistory DEF Commit
<1>4. UserStep => \/ UNCHANGED rows
                  \/ \E n \in TaskIds : CreateTask(n)
                  \/ \E s \in Sessions : Commit(s)
  BY DEF UserStep, BeginComplete, BeginReopen, BeginSnooze, BeginUpdate, BeginDelete,
         BeginSkip, Load, Abort
<1>5. QED
  BY <1>2, <1>3, <1>4 DEF Commit

(***************************************************************************)
(* However requests overlap, the content of a completed row is changed     *)
(* only by a request for that very row (update_task: the bulk UPDATE of    *)
(* scope=future leaves completed occurrences out).                         *)
(***************************************************************************)
THEOREM HistoryStands == ServiceSpec => CompletedHistoryStands
<1> DEFINE Stands(t) ==
      /\ Live(t) /\ rows[t].status = "completed"
      /\ rows'[t] # NULL /\ rows'[t].status = "completed"
      /\ rows'[t].template # rows[t].template
      => \E s \in Sessions : session[s] # NULL /\ session[s].task = t
<1>1. ServiceInv /\ [ServiceNext]_serviceVars => [\A t \in TaskIds : Stands(t)]_serviceVars
  <2> SUFFICES ASSUME ServiceInv, [ServiceNext]_serviceVars, NEW t \in TaskIds
               PROVE  Stands(t)
    OBVIOUS
  <2>1. CASE UserStep
    BY <2>1, RequestSparesHistory
  <2>2. CASE Tick \/ UNCHANGED serviceVars
    BY <2>2 DEF Tick, serviceVars
  <2>3. QED
    BY <2>1, <2>2 DEF ServiceNext
<1>2. QED
  BY <1>1, ServiceInvariance, PTL DEF ServiceSpec, CompletedHistoryStands

-----------------------------------------------------------------------------
(***************************************************************************)
(* The jobs.                                                               *)
(***************************************************************************)

KeepsReads == \A t \in TaskIds, row \in Row : GoodRead(t, row) => GoodRead(t, row)'

(***************************************************************************)
(* What the steps of the jobs do to the table.                             *)
(***************************************************************************)
\* A step that rewrites rows without moving one to another series or changing
\* its repetition, and that keeps what is active active.
LEMMA RewriteKeeps ==
  ASSUME ServiceInv, UNCHANGED <<fresh, session, now, running>>,
         rows' \in [TaskIds -> Row \cup {NULL}],
         \A t \in TaskIds : rows'[t] # NULL =>
           /\ Live(t)
           /\ rows'[t].series_id = rows[t].series_id
           /\ rows'[t].repeat_type = rows[t].repeat_type,
         \A t \in TaskIds : Live(t) /\ IsActive(rows[t]) =>
           rows'[t] # NULL /\ rows'[t].status \in Active
  PROVE  ServiceInv' /\ KeepsReads
<1>1. KeepsReads
  BY DEF KeepsReads, GoodRead, Live
<1>2. \A w \in Work : GoodWork(w) => GoodWork(w)'
  BY <1>1 DEF GoodWork, Work, KeepsReads
<1>3. RowsGood'
  BY DEF ServiceInv, ServiceTypeOK, RowsGood, Live, Recurring
<1>4. SeriesNeverStops'
  <2> SUFFICES ASSUME NEW s \in running'
               PROVE  \E u \in TaskIds : (InSeries(u, s) /\ IsActive(rows[u]))'
    BY DEF SeriesNeverStops
  <2>1. PICK u \in TaskIds : InSeries(u, s) /\ IsActive(rows[u])
    BY DEF ServiceInv, SeriesNeverStops
  <2>2. QED
    BY <2>1 DEF InSeries, Live, IsActive
<1>5. QED
  BY <1>1, <1>2, <1>3, <1>4 DEF ServiceInv, ServiceTypeOK

LEMMA IdleKeeps ==
  ASSUME ServiceInv, UNCHANGED serviceVars
  PROVE  ServiceInv' /\ KeepsReads
  BY DEF serviceVars, ServiceInv, ServiceTypeOK, RowsGood, SeriesNeverStops, InSeries,
         IsActive, Live, GoodWork, GoodRead, KeepsReads

LEMMA RevertKeeps ==
  ASSUME Inv, RevertExpired
  PROVE  ServiceInv' /\ KeepsReads
<1>1. rows \in [TaskIds -> Row \cup {NULL}]
  BY DEF Inv, ServiceInv, ServiceTypeOK
<1>2. ASSUME NEW t \in TaskIds
      PROVE  rows'[t] = IF t \in expired
                        THEN [rows[t] EXCEPT !.status = "pending", !.snoozed_until = NULL]
                        ELSE rows[t]
  BY DEF RevertExpired
<1>3. ASSUME NEW t \in expired
      PROVE  /\ Live(t) /\ rows'[t] \in Row /\ rows'[t].status = "pending"
             /\ rows'[t].series_id = rows[t].series_id
             /\ rows'[t].repeat_type = rows[t].repeat_type
  <2>1. t \in TaskIds /\ Live(t)
    BY DEF RevertExpired, Inv, TypeOK
  <2>2. rows[t] \in Row
    BY <1>1, <2>1 DEF Live
  <2>3. QED
    BY <1>2, <2>1, <2>2 DEF Row, Status
<1>4. rows' \in [TaskIds -> Row \cup {NULL}]
  <2>1. \A t \in TaskIds : rows'[t] \in Row \cup {NULL}
    BY <1>1, <1>2, <1>3
  <2>2. QED
    BY <2>1 DEF RevertExpired
<1>5. \A t \in TaskIds : rows'[t] # NULL =>
        /\ Live(t)
        /\ rows'[t].series_id = rows[t].series_id
        /\ rows'[t].repeat_type = rows[t].repeat_type
  BY <1>2, <1>3 DEF Live
<1>6. \A t \in TaskIds : Live(t) /\ IsActive(rows[t]) =>
        rows'[t] # NULL /\ rows'[t].status \in Active
  BY <1>2, <1>3, RowConstants DEF Live, IsActive, Active
<1>7. UNCHANGED <<fresh, session, now, running>> /\ ServiceInv
  BY DEF RevertExpired, Inv
<1>8. QED
  BY <1>4, <1>5, <1>6, <1>7, RewriteKeeps

LEMMA PurgeKeeps ==
  ASSUME Inv, PurgeOldCompleted
  PROVE  ServiceInv' /\ KeepsReads
<1>1. rows \in [TaskIds -> Row \cup {NULL}]
  BY DEF Inv, ServiceInv, ServiceTypeOK
<1>2. \A t \in TaskIds : rows'[t] # rows[t] => rows'[t] = NULL /\ rows[t].status = "completed"
  BY DEF PurgeOldCompleted, PastRetention
<1>3. rows' \in [TaskIds -> Row \cup {NULL}]
  BY <1>1 DEF PurgeOldCompleted, PastRetention
<1>4. UNCHANGED <<fresh, session, now, running>> /\ ServiceInv
  BY DEF PurgeOldCompleted, PastRetention, Inv
<1>5. \A t \in TaskIds : rows'[t] # NULL =>
        /\ Live(t)
        /\ rows'[t].series_id = rows[t].series_id
        /\ rows'[t].repeat_type = rows[t].repeat_type
  BY <1>2 DEF Live
<1>6. \A t \in TaskIds : Live(t) /\ IsActive(rows[t]) =>
        rows'[t] # NULL /\ rows'[t].status \in Active
  BY <1>2 DEF Live, IsActive, Active
<1>7. QED
  BY <1>3, <1>4, <1>5, <1>6, RewriteKeeps

LEMMA AdvanceWorkGood ==
  ASSUME Inv, current # NULL, Recurring(current.row), WithinHorizon(current.row)
  PROVE  AdvanceWork \in Work /\ GoodWork(AdvanceWork)
<1>1. current.task \in TaskIds /\ current.row \in Row /\ now \in Instants
  BY DEF Inv, TypeOK, ServiceTypeOK
<1>2. GoodRead(current.task, current.row)
  BY DEF Inv
<1>3. /\ AutoCompleted(current.row, now) \in Row
      /\ AutoCompleted(current.row, now).status = "completed"
      /\ AutoCompleted(current.row, now).repeat_type = current.row.repeat_type
  BY <1>1 DEF AutoCompleted, Row, Status
<1>4. /\ NextOccurrence(current.row) \in Row
      /\ NextOccurrence(current.row) # NULL
      /\ NextOccurrence(current.row).series_id = current.row.series_id
      /\ NextOccurrence(current.row).status = "pending"
      /\ Recurring(NextOccurrence(current.row))
  BY <1>1, NextOccurrenceType
<1>5. AdvanceWork \in Work
  BY <1>1, <1>3, <1>4 DEF AdvanceWork, Work
<1>6. QED
  BY <1>2, <1>3, <1>4, <1>5 DEF AdvanceWork, GoodWork

LEMMA AdvanceKeeps ==
  ASSUME Inv, current # NULL, AdvanceSeries
  PROVE  ServiceInv' /\ KeepsReads
<1>1. AdvanceWork \in Work /\ GoodWork(AdvanceWork) /\ CommitWork(AdvanceWork)
  BY AdvanceWorkGood DEF AdvanceSeries
<1>2. Core
  BY DEF Inv, ServiceInv, ServiceTypeOK, Core, TableTypeOK
<1>3. Core' /\ KeepsReads
  BY <1>1, <1>2, CommitKeepsCore, CommitKeepsReads DEF KeepsReads
<1>4. \A w \in Work : GoodWork(w) => GoodWork(w)'
  BY <1>3 DEF GoodWork, Work, KeepsReads
<1>5. QED
  BY <1>3, <1>4
     DEF AdvanceSeries, Inv, ServiceInv, ServiceTypeOK, Core, TableTypeOK

-----------------------------------------------------------------------------
(***************************************************************************)
(* What the steps do to the state of the run, the log and the histories.   *)
(***************************************************************************)
RunTypeOK ==
  /\ phase \in Phase
  /\ expired \subseteq TaskIds
  /\ batch \in [TaskIds -> Row \cup {NULL}]
  /\ readAt \in Instants
  /\ current \in [task : TaskIds, row : Row] \cup {NULL}
  /\ reachable \subseteq Channel
  /\ sending \in [channel : Channel, sent : BOOLEAN] \cup {NULL}
  /\ log \subseteq TaskIds \X Channel \X ClockDays
  /\ channels \subseteq Channel
  /\ delivered \in [TaskIds \X Channel \X ClockDays -> Nat]
  /\ faults \in Nat

RunReads ==
  /\ \A t \in TaskIds : batch[t] # NULL => GoodRead(t, batch[t])
  /\ current # NULL => GoodRead(current.task, current.row)

LEMMA ClockDay ==
  ASSUME TypeOK
  PROVE  DayOf(now) \in ClockDays
<1>1. now \in 0..MaxNow /\ SlotsPerDay \in Nat \ {0} /\ MaxNow \in Nat
  BY RowConstants DEF TypeOK, ServiceTypeOK, Instants
<1>2. now \div SlotsPerDay \in 0..(MaxNow \div SlotsPerDay)
  BY <1>1, SMTT(60)
<1>3. QED
  BY <1>2 DEF DayOf, ClockDays

\* The database after a step of the system, whichever it is.
LEMMA TableStep ==
  ASSUME Inv, Next
  PROVE  ServiceInv' /\ KeepsReads
<1>0. ServiceInv
  BY DEF Inv
<1>1. CASE Request
  BY <1>0, <1>1, UserStepKeeps DEF Request, KeepsReads
<1>2. CASE Clock
  BY <1>0, <1>2, TickKeeps DEF Clock, KeepsReads
<1>3. CASE RevertExpired
  BY <1>3, RevertKeeps
<1>4. CASE PurgeOldCompleted
  BY <1>4, PurgeKeeps
<1>5. CASE AdvanceSeries
  <2>1. current # NULL
    BY <1>5 DEF AdvanceSeries, Inv, RunShape
  <2>2. QED
    BY <1>5, <2>1, AdvanceKeeps
<1>6. CASE UNCHANGED serviceVars
  BY <1>0, <1>6, IdleKeeps
<1>7. JobStep => UNCHANGED serviceVars \/ RevertExpired \/ AdvanceSeries
  BY DEF JobStep, ReadExpired, RevertStale, ReadDue, FinishRun, TakeTask, SkipChannel, Send,
         LogAttempt, LogViolatesForeignKey, LeaveOneOff, AdvanceFails, AbandonBatch
<1>8. Crash \/ ChangeChannels => UNCHANGED serviceVars
  BY DEF Crash, ChangeChannels
<1>9. QED
  BY <1>1, <1>2, <1>3, <1>4, <1>5, <1>6, <1>7, <1>8 DEF Next

\* What the run holds is what it held, less something, or freshly read.
LEMMA RunStep ==
  ASSUME Inv, Next
  PROVE  /\ \A t \in TaskIds : batch'[t] # NULL =>
              \/ batch'[t] = batch[t]
              \/ UNCHANGED serviceVars /\ Live(t) /\ batch'[t] = rows[t]
         /\ current' # NULL =>
              \/ current' = current
              \/ \E t \in TaskIds : batch[t] # NULL /\ current' = [task |-> t, row |-> batch[t]]
<1>1. batch \in [TaskIds -> Row \cup {NULL}]
  BY DEF Inv, TypeOK
<1>2. CASE ReadDue
  BY <1>2 DEF ReadDue, DueNow
<1>3. ASSUME NEW u \in TaskIds, TakeTask(u)
      PROVE  /\ \A t \in TaskIds : batch'[t] # NULL => batch'[t] = batch[t]
             /\ current' = current \/ (batch[u] # NULL /\ current' = [task |-> u, row |-> batch[u]])
  BY <1>1, <1>3 DEF TakeTask
<1>4. CASE AbandonBatch \/ Crash
  BY <1>4 DEF AbandonBatch, Crash, EndRun, NoBatch
<1>5. CASE UNCHANGED batch /\ current' \in {current, NULL}
  BY <1>5
<1>6. Request \/ Clock \/ PurgeOldCompleted \/ ChangeChannels => UNCHANGED <<batch, current>>
  BY DEF Request, Clock, PurgeOldCompleted, ChangeChannels, tickVars
<1>7. JobStep => \/ ReadDue \/ AbandonBatch \/ \E u \in TaskIds : TakeTask(u)
                 \/ UNCHANGED batch /\ current' \in {current, NULL}
  BY DEF JobStep, ReadExpired, RevertExpired, RevertStale, FinishRun, SkipChannel, Send, GoTo,
         LogAttempt, LogViolatesForeignKey, LeaveOneOff, AdvanceSeries, AdvanceFails
<1>8. QED
  BY <1>2, <1>3, <1>4, <1>5, <1>6, <1>7 DEF Next

LEMMA RunTypes ==
  ASSUME Inv, Next
  PROVE  RunTypeOK' /\ RunShape'
<1> DEFINE Same == UNCHANGED <<expired, batch, readAt, reachable>>
<1>0. /\ RunTypeOK /\ RunShape /\ DayOf(now) \in ClockDays
      /\ rows \in [TaskIds -> Row \cup {NULL}] /\ now \in Instants
  BY ClockDay DEF Inv, TypeOK, ServiceTypeOK, RunTypeOK
<1>1. ASSUME log' \subseteq log, UNCHANGED <<tickVars, noteVars>>
      PROVE  RunTypeOK' /\ RunShape'
  BY <1>0, <1>1 DEF tickVars, noteVars, RunTypeOK, RunShape
<1>2. CASE Request \/ Clock \/ PurgeOldCompleted
  BY <1>1, <1>2 DEF Request, Clock, PurgeOldCompleted, Cascade
<1>3. CASE ChangeChannels
  <2>1. Linkable \subseteq Channel
    BY SchedulerConstants
  <2>2. channels' \subseteq Channel
    BY <1>0, <1>3, <2>1 DEF ChangeChannels, RunTypeOK
  <2>3. QED
    BY <1>0, <1>3, <2>2 DEF ChangeChannels, tickVars, RunTypeOK, RunShape
<1>4. CASE AbandonBatch \/ Crash
  <2>1. EndRun /\ log' = log /\ channels' = channels /\ delivered' = delivered
    BY <1>4 DEF AbandonBatch, Crash, noteVars
  <2>2. faults' \in Nat
    BY <1>0, <1>4 DEF AbandonBatch, Crash, Fault, noteVars, RunTypeOK
  <2>3. phase' = "idle" /\ current' = NULL /\ sending' = NULL
    BY <2>1 DEF EndRun
  <2>4. RunShape'
    BY <2>3 DEF RunShape, Channel
  <2>5. QED
    BY <1>0, <2>1, <2>2, <2>4 DEF EndRun, NoBatch, RunTypeOK, Phase
<1>5. CASE ReadExpired
  BY <1>0, <1>5 DEF ReadExpired, noteVars, RunTypeOK, RunShape, Phase, Channel
<1>6. CASE RevertExpired
  <2>1. /\ phase = "revert" /\ phase' = "select" /\ expired' = {}
        /\ UNCHANGED <<batch, readAt, current, reachable, sending, log,
                       channels, delivered, faults>>
    BY <1>6 DEF RevertExpired, noteVars
  <2>2. QED
    BY <1>0, <2>1 DEF RunTypeOK, RunShape, Phase, Channel
<1>7. CASE ReadDue
  <2>1. batch' \in [TaskIds -> Row \cup {NULL}]
    BY <1>0, <1>7 DEF ReadDue
  <2>2. QED
    BY <1>0, <1>7, <2>1 DEF ReadDue, noteVars, RunTypeOK, RunShape, Phase, Channel
<1>8. ASSUME NEW t \in TaskIds, TakeTask(t)
      PROVE  RunTypeOK' /\ RunShape'
  <2>1. batch[t] \in Row /\ batch' \in [TaskIds -> Row \cup {NULL}]
    BY <1>0, <1>8 DEF TakeTask, RunTypeOK
  <2>2. CASE InQuietHours(readAt)
    BY <1>0, <1>8, <2>1, <2>2 DEF TakeTask, noteVars, RunTypeOK, RunShape
  <2>3. CASE ~InQuietHours(readAt)
    <3>1. current' \in [task : TaskIds, row : Row] /\ current' # NULL
      BY <1>8, <2>1, <2>3, SchedulerConstants DEF TakeTask
    <3>2. phase' = "telegram"
      BY <1>8, <2>3 DEF TakeTask
    <3>3. QED
      BY <1>0, <1>8, <2>1, <3>1, <3>2
         DEF TakeTask, noteVars, RunTypeOK, RunShape, Phase, Channel
  <2>4. QED
    BY <2>2, <2>3
<1>9. ASSUME NEW c \in Channel, SkipChannel(c)
      PROVE  RunTypeOK' /\ RunShape'
  BY <1>0, <1>9 DEF SkipChannel, GoTo, After, noteVars, RunTypeOK, RunShape, Phase, Channel
<1>10. ASSUME NEW c \in Channel, Send(c)
       PROVE  RunTypeOK' /\ RunShape'
  <2>1. PICK sent \in BOOLEAN :
          /\ sending' = [channel |-> c, sent |-> sent]
          /\ \/ sent /\ Deliver(c) /\ UNCHANGED <<channels, faults>>
             \/ ~sent /\ Fault /\ UNCHANGED <<channels, delivered>>
             \/ ~sent /\ Fault /\ Deliver(c) /\ UNCHANGED channels
             \/ /\ ~sent /\ c = "web_push"
                /\ channels' = channels \ {c}
                /\ UNCHANGED <<delivered, faults>>
    BY <1>10 DEF Send
  <2>2. faults' \in Nat /\ channels' \subseteq Channel
    BY <1>0, <2>1 DEF Fault, RunTypeOK
  <2>3. phase = c /\ current # NULL
    BY <1>0, <1>10 DEF Send, RunShape
  <2>4. Deliver(c) => delivered' \in [TaskIds \X Channel \X ClockDays -> Nat]
    <3> DEFINE e == <<current.task, c, DayOf(now)>>
    <3>1. e \in TaskIds \X Channel \X ClockDays
      BY <1>0, <2>3 DEF RunTypeOK
    <3>2. delivered[e] + 1 \in Nat
      BY <1>0, <3>1 DEF RunTypeOK
    <3>3. QED
      BY <1>0, <3>2 DEF Deliver, RunTypeOK
  <2>5. delivered' \in [TaskIds \X Channel \X ClockDays -> Nat]
    BY <1>0, <2>1, <2>4 DEF RunTypeOK
  <2>6. phase' = "log" /\ current' = current /\ Same
    BY <1>10 DEF Send, GoTo
  <2>7. RunShape'
    BY <1>0, <2>1, <2>3, <2>6, SchedulerConstants DEF RunShape, Channel
  <2>8. QED
    BY <1>0, <1>10, <2>1, <2>2, <2>5, <2>6, <2>7 DEF Send, RunTypeOK, Phase
<1>11. CASE LogAttempt
  <2>1. sending \in [channel : Channel, sent : BOOLEAN]
        /\ current \in [task : TaskIds, row : Row]
    BY <1>0, <1>11 DEF LogAttempt, RunTypeOK, RunShape
  <2>2. log' \subseteq TaskIds \X Channel \X ClockDays
    BY <1>0, <1>11, <2>1 DEF LogAttempt, RunTypeOK
  <2>3. phase' \in {"web_push", "spawn"} /\ current' = current /\ sending' = NULL /\ Same
    BY <1>11, <2>1 DEF LogAttempt, GoTo, After
  <2>4. RunShape'
    BY <1>0, <1>11, <2>3 DEF LogAttempt, RunShape, Channel
  <2>5. QED
    BY <1>0, <1>11, <2>2, <2>3, <2>4 DEF LogAttempt, noteVars, RunTypeOK, Phase, Channel
<1>12. CASE LeaveOneOff
  BY <1>0, <1>12 DEF LeaveOneOff, GoTo, noteVars, RunTypeOK, RunShape, Phase, Channel
<1>13. CASE AdvanceSeries
  BY <1>0, <1>13 DEF AdvanceSeries, GoTo, noteVars, RunTypeOK, RunShape, Phase, Channel
<1>14. RevertStale \/ FinishRun \/ LogViolatesForeignKey \/ AdvanceFails => AbandonBatch
  BY DEF RevertStale, FinishRun, LogViolatesForeignKey, AdvanceFails
<1>15. QED
  BY <1>2, <1>3, <1>4, <1>5, <1>6, <1>7, <1>8, <1>9, <1>10, <1>11, <1>12, <1>13, <1>14
     DEF Next, JobStep

-----------------------------------------------------------------------------
LEMMA InitInv == Init => Inv
<1> SUFFICES ASSUME Init
             PROVE  Inv
  OBVIOUS
<1>1. ServiceInv /\ ServiceTypeOK
  BY ServiceInitInv DEF Init, ServiceInv
<1>2. RunTypeOK
  BY RowConstants, SchedulerConstants
     DEF Init, RunTypeOK, NoBatch, Phase, Instants
<1>3. RunShape /\ \A t \in TaskIds : batch[t] = NULL
  BY DEF Init, RunShape, NoBatch, Channel
<1>4. QED
  BY <1>1, <1>2, <1>3 DEF Init, Inv, TypeOK, RunTypeOK

LEMMA NextInv == Inv /\ [Next]_vars => Inv'
<1> SUFFICES ASSUME Inv, [Next]_vars
             PROVE  Inv'
  OBVIOUS
<1>1. CASE Next
  <2>1. ServiceInv' /\ KeepsReads /\ RunTypeOK' /\ RunShape'
    BY <1>1, TableStep, RunTypes
  <2>2. TypeOK'
    BY <2>1 DEF TypeOK, RunTypeOK, ServiceInv
  <2>3. /\ batch \in [TaskIds -> Row \cup {NULL}] /\ rows \in [TaskIds -> Row \cup {NULL}]
        /\ current \in [task : TaskIds, row : Row] \cup {NULL}
        /\ RowsGood
        /\ \A t \in TaskIds : batch[t] # NULL => GoodRead(t, batch[t])
        /\ current # NULL => GoodRead(current.task, current.row)
    BY DEF Inv, TypeOK, ServiceTypeOK, ServiceInv
  <2>4. ASSUME NEW t \in TaskIds, batch'[t] # NULL
        PROVE  GoodRead(t, batch[t])'
    <3>1. CASE batch'[t] = batch[t]
      <4>1. PICK row \in Row : row = batch[t]
        BY <2>3, <2>4, <3>1
      <4>2. GoodRead(t, row)'
        BY <2>1, <2>3, <2>4, <3>1, <4>1 DEF KeepsReads
      <4>3. QED
        BY <3>1, <4>1, <4>2 DEF GoodRead, Live
    <3>2. CASE UNCHANGED serviceVars /\ Live(t) /\ batch'[t] = rows[t]
      BY <2>3, <3>2 DEF serviceVars, Live, RowsGood, GoodRead
    <3>3. QED
      BY <1>1, <2>4, <3>1, <3>2, RunStep
  <2>5. ASSUME current' # NULL
        PROVE  GoodRead(current.task, current.row)'
    <3>1. CASE current' = current
      <4>1. PICK t \in TaskIds, row \in Row : t = current.task /\ row = current.row
        BY <2>3, <2>5, <3>1
      <4>2. GoodRead(t, row)'
        BY <2>1, <2>3, <2>5, <3>1, <4>1 DEF KeepsReads
      <4>3. QED
        BY <3>1, <4>1, <4>2 DEF GoodRead, Live
    <3>2. ASSUME NEW t \in TaskIds, batch[t] # NULL, current' = [task |-> t, row |-> batch[t]]
          PROVE  GoodRead(current.task, current.row)'
      <4>1. PICK row \in Row : row = batch[t]
        BY <2>3, <3>2
      <4>2. GoodRead(t, row)'
        BY <2>1, <2>3, <3>2, <4>1 DEF KeepsReads
      <4>3. QED
        BY <3>2, <4>1, <4>2 DEF GoodRead, Live
    <3>3. QED
      BY <1>1, <2>5, <3>1, <3>2, RunStep
  <2>6. QED
    BY <2>1, <2>2, <2>4, <2>5 DEF Inv
<1>2. CASE UNCHANGED vars
  <2>1. ServiceInv' /\ KeepsReads /\ UNCHANGED <<serviceVars, tickVars, log, noteVars>>
    BY <1>2, IdleKeeps DEF vars, Inv
  <2>2. QED
    BY <2>1 DEF serviceVars, tickVars, noteVars, Inv, TypeOK, ServiceTypeOK, RunShape,
                GoodRead, Live
<1>3. QED
  BY <1>1, <1>2

(***************************************************************************)
(* The whole back end keeps its types, and no recurring task silently      *)
(* stops: not when the scheduler advances a row it read before the user    *)
(* completed, skipped, snoozed or edited it, not when a send fails, a      *)
(* commit is rolled back, a batch is abandoned or the process dies.        *)
(***************************************************************************)
THEOREM Invariance == Spec => []Inv
  BY InitInv, NextInv, PTL DEF Spec

THEOREM TypeCorrect == Spec => []TypeOK
<1>1. Inv => TypeOK
  BY DEF Inv
<1>2. QED
  BY <1>1, Invariance, PTL

THEOREM SeriesSurvive == Spec => []SeriesNeverStops
<1>1. Inv => SeriesNeverStops
  BY DEF Inv, ServiceInv
<1>2. QED
  BY <1>1, Invariance, PTL

-----------------------------------------------------------------------------
(***************************************************************************)
(* At most one message per task, channel and day.                          *)
(***************************************************************************)
LEMMA CommitShrinks ==
  ASSUME TableTypeOK, NEW w \in Work, CommitWork(w)
  PROVE  /\ fresh' \subseteq fresh
         /\ \A t \in TaskIds : rows'[t] # NULL => Live(t) \/ t \in fresh
<1>1. fresh' \subseteq fresh
  BY DEF CommitWork
<1>2. \A t \in TaskIds : AfterCommit(w)[t] # NULL => Live(t)
  BY AfterCommitLive
<1>3. CASE w.spawn = NULL
  BY <1>1, <1>2, <1>3 DEF CommitWork
<1>4. CASE w.spawn # NULL
  <2>1. PICK n \in fresh : rows' = [AfterCommit(w) EXCEPT ![n] = w.spawn]
    BY <1>4 DEF CommitWork
  <2>2. \A t \in TaskIds : t # n => rows'[t] = AfterCommit(w)[t]
    BY <2>1, AfterCommitType
  <2>3. QED
    BY <1>1, <1>2, <2>2
<1>5. QED
  BY <1>3, <1>4

\* A row that appears has an id nobody had.
LEMMA OnlyFreshAppear ==
  ASSUME Inv, Next
  PROVE  /\ fresh' \subseteq fresh
         /\ \A t \in TaskIds : rows'[t] # NULL => Live(t) \/ t \in fresh
<1>0. TableTypeOK /\ session \in [Sessions -> Work \cup {NULL}]
  BY DEF Inv, ServiceInv, ServiceTypeOK, TableTypeOK
<1>1. CASE UNCHANGED <<rows, fresh>>
  BY <1>1 DEF Live
<1>2. ASSUME NEW n \in TaskIds, CreateTask(n)
      PROVE  /\ fresh' \subseteq fresh
             /\ \A t \in TaskIds : rows'[t] # NULL => Live(t) \/ t \in fresh
  BY <1>0, <1>2 DEF CreateTask, Live, TableTypeOK
<1>3. ASSUME NEW s \in Sessions, Commit(s)
      PROVE  /\ fresh' \subseteq fresh
             /\ \A t \in TaskIds : rows'[t] # NULL => Live(t) \/ t \in fresh
  BY <1>0, <1>3, CommitShrinks DEF Commit
<1>4. CASE RevertExpired
  BY <1>0, <1>4 DEF RevertExpired, Live
<1>5. CASE PurgeOldCompleted
  BY <1>0, <1>5 DEF PurgeOldCompleted, PastRetention, Live
<1>6. CASE AdvanceSeries
  <2>1. current # NULL
    BY <1>6 DEF AdvanceSeries, Inv, RunShape
  <2>2. AdvanceWork \in Work /\ CommitWork(AdvanceWork)
    BY <1>6, <2>1, AdvanceWorkGood DEF AdvanceSeries
  <2>3. QED
    BY <1>0, <2>2, CommitShrinks
<1>7. UserStep => \/ UNCHANGED <<rows, fresh>>
                  \/ \E n \in TaskIds : CreateTask(n)
                  \/ \E s \in Sessions : Commit(s)
  BY DEF UserStep, BeginComplete, BeginReopen, BeginSnooze, BeginUpdate, BeginDelete,
         BeginSkip, Load, Abort
<1>8. JobStep => UNCHANGED serviceVars \/ RevertExpired \/ AdvanceSeries
  BY DEF JobStep, ReadExpired, RevertStale, ReadDue, FinishRun, TakeTask, SkipChannel, Send,
         LogAttempt, LogViolatesForeignKey, LeaveOneOff, AdvanceFails, AbandonBatch
<1>9. QED
  BY <1>1, <1>2, <1>3, <1>4, <1>5, <1>6, <1>7, <1>8
     DEF Next, Request, Clock, Tick, Crash, ChangeChannels, serviceVars

LEMMA DaysPass ==
  ASSUME Inv, Next
  PROVE  /\ DayOf(now) \in Int /\ DayOf(now)' \in Int
         /\ DayOf(now) <= DayOf(now)'
<1>1. now \in Int /\ SlotsPerDay \in Nat \ {0}
  BY RowConstants DEF Inv, TypeOK, ServiceTypeOK, Instants
<1>2. now' = now \/ now' = now + 1
  BY DEF Next, Request, UserStep, CreateTask, BeginComplete, BeginReopen, BeginSnooze,
         BeginUpdate, BeginDelete, BeginSkip, Load, Commit, Abort, Clock, Tick, JobStep,
         ReadExpired, RevertExpired, RevertStale, ReadDue, FinishRun, TakeTask, SkipChannel,
         Send, LogAttempt, LogViolatesForeignKey, LeaveOneOff, AdvanceSeries, AdvanceFails,
         AbandonBatch, PurgeOldCompleted, Crash, ChangeChannels, serviceVars
<1>3. now \div SlotsPerDay <= now' \div SlotsPerDay
  BY <1>1, <1>2, SMTT(60)
<1>4. now \div SlotsPerDay \in Int /\ now' \div SlotsPerDay \in Int
  BY <1>1, <1>2
<1>5. QED
  BY <1>3, <1>4 DEF DayOf

\* The entries of a task that still exists stay in the log.
LEMMA LogKeeps ==
  ASSUME Inv, Next
  PROVE  \A e \in log : rows'[e[1]] # NULL => e \in log'
  BY DEF Next, Request, Cascade, Clock, JobStep, ReadExpired, RevertExpired, RevertStale, ReadDue,
         FinishRun, TakeTask, SkipChannel, Send, LogAttempt, LogViolatesForeignKey, LeaveOneOff,
         AdvanceSeries, AdvanceFails, AbandonBatch, PurgeOldCompleted, Crash, ChangeChannels

\* What becomes of an attempt that is not logged yet.
LEMMA AttemptStep ==
  ASSUME Inv, Next
  PROVE  \/ UNCHANGED <<sending, current, delivered, faults>>
         \/ sending = NULL /\ UNCHANGED <<delivered, faults>>
         \/ LogAttempt
         \/ LogViolatesForeignKey
         \/ Crash
         \/ \E c \in Channel : Send(c)
<1>1. Request \/ Clock \/ PurgeOldCompleted \/ ChangeChannels =>
        UNCHANGED <<sending, current, delivered, faults>>
  BY DEF Request, Clock, PurgeOldCompleted, ChangeChannels, tickVars, noteVars
<1>2. phase # "log" => sending = NULL
  BY DEF Inv, RunShape
<1>3. RevertStale \/ FinishRun \/ AdvanceFails =>
        phase # "log" /\ UNCHANGED <<delivered, faults>>
  BY DEF RevertStale, FinishRun, AdvanceFails, AbandonBatch, noteVars
<1>4. ReadExpired \/ RevertExpired \/ ReadDue \/ (\E t \in TaskIds : TakeTask(t)) =>
        phase # "log" /\ UNCHANGED <<delivered, faults>>
  BY DEF ReadExpired, RevertExpired, ReadDue, TakeTask, noteVars
<1>5. (\E c \in Channel : SkipChannel(c)) \/ LeaveOneOff \/ AdvanceSeries =>
        phase # "log" /\ UNCHANGED <<delivered, faults>>
  BY DEF SkipChannel, LeaveOneOff, AdvanceSeries, noteVars, Channel
<1>6. QED
  BY <1>1, <1>2, <1>3, <1>4, <1>5 DEF Next, JobStep

\* A step that sends nothing, keeps what accounts for a message and adds no
\* fault, or one more.
LEMMA AccountsKept ==
  ASSUME Inv, Next, DedupeInv, delivered' = delivered,
         faults' \in Nat, faults <= faults',
         \A t \in TaskIds, c \in Channel, d \in ClockDays :
           Live(t) /\ rows'[t] # NULL /\ Accounted(t, c, d) =>
             Accounted(t, c, d)' \/ faults < faults'
  PROVE  DedupeInv'
<1> SUFFICES ASSUME NEW t \in TaskIds, NEW c \in Channel, NEW d \in ClockDays
             PROVE  /\ t \in fresh' => delivered'[<<t, c, d>>] = 0
                    /\ rows'[t] # NULL =>
                         \/ delivered'[<<t, c, d>>] <= faults'
                         \/ delivered'[<<t, c, d>>] = faults' + 1 /\ Accounted(t, c, d)'
  BY DEF DedupeInv, Live
<1>1. delivered[<<t, c, d>>] \in Nat /\ faults \in Nat
  BY DEF Inv, TypeOK
<1>2. /\ t \in fresh => delivered[<<t, c, d>>] = 0
      /\ Live(t) => \/ delivered[<<t, c, d>>] <= faults
                    \/ delivered[<<t, c, d>>] = faults + 1 /\ Accounted(t, c, d)
  BY DEF DedupeInv
<1>3. t \in fresh' => t \in fresh
  BY OnlyFreshAppear
<1>4. rows'[t] # NULL => Live(t) \/ t \in fresh
  BY OnlyFreshAppear
<1>5. Live(t) /\ rows'[t] # NULL /\ Accounted(t, c, d) => Accounted(t, c, d)' \/ faults < faults'
  OBVIOUS
<1>6. QED
  BY <1>1, <1>2, <1>3, <1>4, <1>5

LEMMA SendAccounted ==
  ASSUME Inv, Next, DedupeInv, NEW ch \in Channel, Send(ch)
  PROVE  DedupeInv'
<1>1. /\ phase = ch /\ current # NULL /\ sending = NULL
      /\ <<current.task, ch, DayOf(now)>> \notin log
      /\ UNCHANGED <<rows, fresh, now, current, log>>
  BY DEF Send, AlreadySentToday, Inv, RunShape, serviceVars, Channel
<1>2. /\ current.task \in TaskIds /\ current.task \notin fresh
      /\ DayOf(now) \in ClockDays /\ DayOf(now) \in Int /\ faults \in Nat
      /\ delivered \in [TaskIds \X Channel \X ClockDays -> Nat]
  BY <1>1, ClockDay, DaysPass DEF Inv, TypeOK, GoodRead
<1>3. PICK sent \in BOOLEAN :
        /\ sending' = [channel |-> ch, sent |-> sent]
        /\ \/ sent /\ Deliver(ch) /\ UNCHANGED <<channels, faults>>
           \/ ~sent /\ Fault /\ UNCHANGED <<channels, delivered>>
           \/ ~sent /\ Fault /\ Deliver(ch) /\ UNCHANGED channels
           \/ /\ ~sent /\ ch = "web_push"
              /\ channels' = channels \ {ch}
              /\ UNCHANGED <<delivered, faults>>
  BY DEF Send
<1> DEFINE e == <<current.task, ch, DayOf(now)>>
<1> SUFFICES ASSUME NEW t \in TaskIds, NEW c \in Channel, NEW d \in ClockDays
             PROVE  /\ t \in fresh => delivered'[<<t, c, d>>] = 0
                    /\ Live(t) =>
                         \/ delivered'[<<t, c, d>>] <= faults'
                         \/ delivered'[<<t, c, d>>] = faults' + 1 /\ Accounted(t, c, d)'
  BY <1>1 DEF DedupeInv, Live
<1>4. /\ delivered[<<t, c, d>>] \in Nat
      /\ t \in fresh => delivered[<<t, c, d>>] = 0
      /\ Live(t) => \/ delivered[<<t, c, d>>] <= faults
                    \/ delivered[<<t, c, d>>] = faults + 1 /\ Accounted(t, c, d)
  BY <1>2 DEF DedupeInv
<1>5. Accounted(t, c, d) => Accounted(t, c, d)'
  BY <1>1 DEF Accounted, Attempted, DayOf
<1>6. CASE <<t, c, d>> # e \/ delivered' = delivered
  <2>1. delivered'[<<t, c, d>>] = delivered[<<t, c, d>>]
    BY <1>2, <1>3, <1>6 DEF Deliver
  <2>2. faults' = faults \/ faults' = faults + 1
    BY <1>3 DEF Fault
  <2>3. QED
    BY <1>2, <1>4, <1>5, <2>1, <2>2
<1>7. CASE <<t, c, d>> = e /\ Deliver(ch)
  <2>1. t = current.task /\ c = ch /\ d = DayOf(now)
    BY <1>7
  <2>2. ~Accounted(t, c, d)
    BY <1>1, <1>2, <2>1 DEF Accounted, Attempted
  <2>3. t \notin fresh
    BY <1>2, <2>1
  <2>4. delivered'[<<t, c, d>>] = delivered[<<t, c, d>>] + 1
    BY <1>2, <1>7 DEF Deliver
  <2>5. CASE sent /\ faults' = faults
    <3>1. /\ sending' = [channel |-> ch, sent |-> TRUE]
          /\ sending' \in [channel : Channel, sent : BOOLEAN]
      BY <1>3, <2>5
    <3>2. sending' # NULL /\ sending'.sent = TRUE /\ sending'.channel = c
      BY <2>1, <3>1, SchedulerConstants
    <3>3. Attempted(t, c)'
      BY <1>1, <2>1, <3>2 DEF Attempted
    <3>4. Accounted(t, c, d)'
      BY <1>1, <2>1, <3>3 DEF Accounted, DayOf
    <3>5. QED
      BY <1>2, <1>4, <2>2, <2>3, <2>4, <2>5, <3>4
  <2>6. CASE faults' = faults + 1
    BY <1>2, <1>4, <2>2, <2>3, <2>4, <2>6
  <2>7. CASE delivered' = delivered
    BY <1>6, <2>7
  <2>8. QED
    BY <1>3, <2>5, <2>6, <2>7 DEF Fault
<1>8. QED
  BY <1>3, <1>6, <1>7

LEMMA DedupeInit == Init => DedupeInv
  BY SchedulerConstants DEF Init, ServiceInit, DedupeInv, Live

LEMMA DedupeNext == Inv /\ DedupeInv /\ [Next]_vars => DedupeInv'
<1> SUFFICES ASSUME Inv, DedupeInv, [Next]_vars
             PROVE  DedupeInv'
  OBVIOUS
<1>0. faults \in Nat
  BY DEF Inv, TypeOK
<1>1. CASE Next
  <2>1. ASSUME NEW t \in TaskIds, NEW c \in Channel, NEW d \in ClockDays, rows'[t] # NULL,
               d < DayOf(now) \/ <<t, c, d>> \in log
        PROVE  Accounted(t, c, d)'
    <3>1. d \in Int
      BY RowConstants DEF ClockDays
    <3>2. CASE d < DayOf(now)
      BY <1>1, <3>1, <3>2, DaysPass DEF Accounted
    <3>3. CASE <<t, c, d>> \in log
      BY <1>1, <2>1, <3>3, LogKeeps DEF Accounted
    <3>4. QED
      BY <2>1, <3>2, <3>3
  <2>2. CASE UNCHANGED <<sending, current, delivered, faults>>
    <3>1. ASSUME NEW t \in TaskIds, NEW c \in Channel, NEW d \in ClockDays,
                 d = DayOf(now), Attempted(t, c)
          PROVE  Accounted(t, c, d)'
      BY <1>1, <2>2, <3>1, DaysPass DEF Accounted, Attempted
    <3>2. QED
      BY <1>0, <1>1, <2>1, <2>2, <3>1, AccountsKept DEF Accounted
  <2>3. CASE sending = NULL /\ UNCHANGED <<delivered, faults>>
    BY <1>0, <1>1, <2>1, <2>3, AccountsKept DEF Accounted, Attempted
  <2>4. CASE LogAttempt
    <3>1. UNCHANGED <<now, delivered, faults>>
      BY <2>4 DEF LogAttempt, serviceVars, noteVars
    <3>2. ASSUME NEW t \in TaskIds, NEW c \in Channel, NEW d \in ClockDays,
                 d = DayOf(now), Attempted(t, c)
          PROVE  Accounted(t, c, d)'
      BY <2>4, <3>2 DEF LogAttempt, Accounted, Attempted
    <3>3. QED
      BY <1>0, <1>1, <2>1, <3>1, <3>2, AccountsKept DEF Accounted
  <2>5. CASE LogViolatesForeignKey
    <3>1. UNCHANGED <<rows, delivered, faults>> /\ ~Live(current.task)
      BY <2>5 DEF LogViolatesForeignKey, AbandonBatch, serviceVars, noteVars
    <3>2. QED
      BY <1>0, <1>1, <2>1, <3>1, AccountsKept DEF Accounted, Attempted, Live
  <2>6. CASE Crash
    BY <1>0, <1>1, <2>6, AccountsKept DEF Crash, Fault
  <2>7. CASE \E c \in Channel : Send(c)
    BY <1>1, <2>7, SendAccounted
  <2>8. QED
    BY <1>1, <2>2, <2>3, <2>4, <2>5, <2>6, <2>7, AttemptStep
<1>2. CASE UNCHANGED vars
  BY <1>2 DEF vars, serviceVars, tickVars, noteVars, DedupeInv, Accounted, Attempted, Live, DayOf
<1>3. QED
  BY <1>1, <1>2

\* What accounts for the messages that were sent, as an invariant of its own
\* (_already_sent_today, _log_notification).
THEOREM MessagesAccounted == Spec => []DedupeInv
<1>1. Spec => [](Inv /\ DedupeInv)
  BY InitInv, NextInv, DedupeInit, DedupeNext, PTL DEF Spec
<1>2. QED
  BY <1>1, PTL

(***************************************************************************)
(* A user gets at most one message per channel and day about a task that   *)
(* exists, and one more at most for each crash or lost answer, however the *)
(* job runs, the requests and the days interleave.                         *)
(***************************************************************************)
THEOREM NoDuplicateReminders == Spec => []AtMostOncePerDay
<1>1. Inv /\ DedupeInv => AtMostOncePerDay
  <2> SUFFICES ASSUME Inv, DedupeInv, NEW t \in TaskIds, Live(t),
                      NEW c \in Channel, NEW d \in ClockDays
               PROVE  delivered[<<t, c, d>>] <= 1 + faults
    BY DEF AtMostOncePerDay
  <2>1. delivered[<<t, c, d>>] \in Nat /\ faults \in Nat
    BY DEF Inv, TypeOK
  <2>2. QED
    BY <2>1 DEF DedupeInv
<1>2. QED
  BY <1>1, Invariance, MessagesAccounted, PTL

-----------------------------------------------------------------------------
(***************************************************************************)
(* What the jobs leave alone.                                              *)
(***************************************************************************)
LEMMA JobsRewrite ==
  ASSUME JobStep
  PROVE  UNCHANGED serviceVars \/ RevertExpired \/ AdvanceSeries
BY DEF JobStep, ReadExpired, RevertStale, ReadDue, FinishRun, TakeTask, SkipChannel, Send,
       LogAttempt, LogViolatesForeignKey, LeaveOneOff, AdvanceFails, AbandonBatch

\* Advancing a series takes no row away and changes no completed row but its own.
LEMMA AdvanceKeepsRow ==
  ASSUME Inv, AdvanceSeries, NEW t \in TaskIds, Live(t)
  PROVE  rows'[t] # NULL /\ rows'[t].template = rows[t].template
<1>1. current # NULL
  BY DEF AdvanceSeries, Inv, RunShape
<1>2. AdvanceWork \in Work /\ CommitWork(AdvanceWork)
  BY <1>1, AdvanceWorkGood DEF AdvanceSeries
<1>3. Core /\ rows[t] \in Row /\ t \notin fresh /\ current.row \in Row
  BY <1>1 DEF Inv, TypeOK, ServiceInv, ServiceTypeOK, Core, TableTypeOK, RowsGood, Live
<1>4. AfterCommit(AdvanceWork)[t] \in {rows[t], Flushed(rows[t], AdvanceWork)}
  BY DEF AfterCommit, AdvanceWork
<1>5. Flushed(rows[t], AdvanceWork).template = rows[t].template
  BY <1>3 DEF Flushed, Net, AdvanceWork, AutoCompleted, Row
<1>6. AfterCommit(AdvanceWork)[t] \in Row
  BY <1>2, <1>3, <1>4, FlushedType
<1>7. AfterCommit(AdvanceWork) \in [TaskIds -> Row \cup {NULL}]
  BY <1>2, <1>3, AfterCommitType DEF Core
<1>8. rows'[t] = AfterCommit(AdvanceWork)[t]
  BY <1>2, <1>3, <1>7 DEF CommitWork
<1>9. QED
  BY <1>4, <1>5, <1>6, <1>8, RowConstants

\* Taking expired snoozes back takes no row away and leaves contents alone.
LEMMA RevertKeepsRow ==
  ASSUME Inv, RevertExpired, NEW t \in TaskIds, Live(t)
  PROVE  rows'[t] # NULL /\ rows'[t].template = rows[t].template
<1>1. rows[t] \in Row
  BY DEF Inv, ServiceInv, ServiceTypeOK, Live
<1>2. rows'[t] \in {rows[t], [rows[t] EXCEPT !.status = "pending", !.snoozed_until = NULL]}
  BY DEF RevertExpired
<1>3. rows'[t] \in Row /\ rows'[t].template = rows[t].template
  BY <1>1, <1>2 DEF Row, Status
<1>4. QED
  BY <1>3, RowConstants

(***************************************************************************)
(* The reminder and retention jobs never make an active occurrence vanish, *)
(* for any retention and whatever the users do beside them                 *)
(* (purge_old_completed_tasks, _create_next_occurrence).                   *)
(***************************************************************************)
THEOREM ActiveRowsSpared == Spec => JobsSpareActive
<1> DEFINE Spared == JobStep \/ PurgeOldCompleted =>
                       \A t \in TaskIds : Live(t) /\ IsActive(rows[t]) => rows'[t] # NULL
<1>1. Inv => [Spared]_vars
  <2> SUFFICES ASSUME Inv, JobStep \/ PurgeOldCompleted,
                      NEW t \in TaskIds, Live(t), IsActive(rows[t])
               PROVE  rows'[t] # NULL
    OBVIOUS
  <2>1. CASE JobStep
    BY <2>1, JobsRewrite, RevertKeepsRow, AdvanceKeepsRow DEF serviceVars, Live
  <2>2. CASE PurgeOldCompleted
    BY <2>2 DEF PurgeOldCompleted, PastRetention, IsActive, Active, Live
  <2>3. QED
    BY <2>1, <2>2
<1>2. QED
  BY <1>1, Invariance, PTL DEF Spec, JobsSpareActive

(***************************************************************************)
(* Completed history stands beside the jobs too: a reminder that advances  *)
(* the row it read, and a retention run, change the content of none.       *)
(***************************************************************************)
THEOREM HistoryStandsBesideJobs == Spec => CompletedHistoryStands
<1> DEFINE Stands(t) ==
      /\ Live(t) /\ rows[t].status = "completed"
      /\ rows'[t] # NULL /\ rows'[t].status = "completed"
      /\ rows'[t].template # rows[t].template
      => \E s \in Sessions : session[s] # NULL /\ session[s].task = t
<1>1. Inv /\ [Next]_vars => [\A t \in TaskIds : Stands(t)]_serviceVars
  <2> SUFFICES ASSUME Inv, [Next]_vars, NEW t \in TaskIds
               PROVE  Stands(t)
    OBVIOUS
  <2>1. CASE Request
    BY <2>1, RequestSparesHistory DEF Request, Inv
  <2>2. CASE JobStep
    BY <2>2, JobsRewrite, RevertKeepsRow, AdvanceKeepsRow DEF serviceVars
  <2>3. CASE PurgeOldCompleted
    BY <2>3 DEF PurgeOldCompleted
  <2>4. CASE Clock \/ Crash \/ ChangeChannels \/ UNCHANGED vars
    BY <2>4 DEF Clock, Tick, Crash, ChangeChannels, vars, serviceVars
  <2>5. QED
    BY <2>1, <2>2, <2>3, <2>4 DEF Next
<1>2. QED
  BY <1>1, Invariance, PTL DEF Spec, CompletedHistoryStands

-----------------------------------------------------------------------------
(***************************************************************************)
(* A snooze has an end.                                                    *)
(***************************************************************************)
\* The status and the end of the snooze of a row after a commit.
LEMMA CommitSnooze ==
  ASSUME Core, NEW w \in Work, GoodWork(w), CommitWork(w), NEW t \in TaskIds, rows'[t] # NULL
  PROVE  \/ t \in fresh /\ rows'[t].status = "pending"
         \/ /\ Live(t) /\ t # w.task
            /\ rows'[t].status = rows[t].status
            /\ rows'[t].snoozed_until = rows[t].snoozed_until
         \/ /\ Live(t) /\ t = w.task
            /\ rows'[t].status = Net(w.old.status, w.new.status, rows[t].status)
            /\ rows'[t].snoozed_until =
                 Net(w.old.snoozed_until, w.new.snoozed_until, rows[t].snoozed_until)
<1>1. CASE rows'[t] = AfterCommit(w)[t]
  <2>1. Live(t) /\ rows[t] \in Row
    BY <1>1, AfterCommitLive DEF Core, TableTypeOK, Live
  <2>2. CASE t = w.task
    <3>1. rows'[t] = Flushed(rows[t], w)
      BY <1>1, <2>2 DEF AfterCommit
    <3>. QED BY <2>1, <2>2, <3>1 DEF Flushed
  <2>3. CASE t # w.task
    <3>1. rows'[t] \in {rows[t], Rippled(rows[t], w)}
      BY <1>1, <2>3 DEF AfterCommit
    <3>2. /\ Rippled(rows[t], w).status = rows[t].status
          /\ Rippled(rows[t], w).snoozed_until = rows[t].snoozed_until
      BY <2>1 DEF Rippled, Row
    <3>. QED BY <2>1, <2>3, <3>1, <3>2
  <2>. QED BY <2>2, <2>3
<1>2. CASE rows'[t] # AfterCommit(w)[t]
  <2>1. PICK n \in fresh : rows' = [AfterCommit(w) EXCEPT ![n] = w.spawn] /\ w.spawn # NULL
    BY <1>2 DEF CommitWork
  <2>2. AfterCommit(w) \in [TaskIds -> Row \cup {NULL}]
    BY AfterCommitType DEF Core
  <2>3. t = n /\ rows'[t] = w.spawn
    BY <1>2, <2>1, <2>2
  <2>. QED BY <2>1, <2>3 DEF GoodWork
<1>. QED BY <1>1, <1>2

\* Snoozed after the flush means that the flush wrote both columns, or neither, or an
\* end beside the status that was there.
LEMMA FlushKeepsEnd ==
  ASSUME NEW w \in Work, SetsBothOrNone(w), SnoozeAsRead(w), Live(w.task),
         SnoozedHasEnd,
         Net(w.old.status, w.new.status, rows[w.task].status) = "snoozed"
  PROVE  Net(w.old.snoozed_until, w.new.snoozed_until, rows[w.task].snoozed_until) # NULL
<1>1. rows[w.task].status = "snoozed" => rows[w.task].snoozed_until # NULL
  BY DEF SnoozedHasEnd, Work
<1>2. CASE w.new.status = w.old.status
  <2>1. rows[w.task].status = "snoozed"
    BY <1>2 DEF Net
  <2>2. w.old.status = "snoozed" /\ rows[w.task].snoozed_until = w.old.snoozed_until
    BY <2>1 DEF SnoozeAsRead
  <2>. QED BY <1>1, <1>2, <2>1, <2>2 DEF Net, SetsBothOrNone
<1>3. CASE w.new.status # w.old.status
  <2>1. w.new.status = "snoozed" /\ w.new.snoozed_until # NULL /\ w.old.status # "snoozed"
    BY <1>3 DEF Net, SetsBothOrNone
  <2>2. rows[w.task].snoozed_until = w.old.snoozed_until
    BY <2>1 DEF SnoozeAsRead
  <2>. QED BY <2>1, <2>2 DEF Net
<1>. QED BY <1>2, <1>3

\* What a request holds after its SELECT.
LEMMA LoadedSnooze ==
  ASSUME ServiceInv, NEW s \in Sessions, NEW t \in TaskIds,
         \/ BeginComplete(s, t) \/ BeginReopen(s, t) \/ BeginSnooze(s, t)
         \/ BeginUpdate(s, t) \/ BeginDelete(s, t) \/ BeginSkip(s, t)
  PROVE  \E w : /\ Load(s, w) /\ Live(t) /\ w.task = t /\ w.old = rows[t]
                /\ SetsBothOrNone(w)
<1>1. Live(t) /\ rows[t] \in Row
  BY DEF ServiceInv, ServiceTypeOK, Live, BeginComplete, BeginReopen, BeginSnooze,
         BeginUpdate, BeginDelete, BeginSkip
<1>2. CASE BeginComplete(s, t)
  <2> DEFINE spawn == IF Recurring(rows[t]) THEN NextOccurrence(rows[t]) ELSE NULL
  <2>1. Load(s, Edit(t, Completed(rows[t], now), TRUE, spawn))
    BY <1>2 DEF BeginComplete
  <2>2. SetsBothOrNone(Edit(t, Completed(rows[t], now), TRUE, spawn))
    BY <1>1 DEF SetsBothOrNone, Edit, Completed, Row
  <2>. QED BY <1>1, <2>1, <2>2 DEF Edit
<1>3. CASE BeginReopen(s, t)
  <2>1. Load(s, Edit(t, Reopened(rows[t]), FALSE, NULL))
    BY <1>3 DEF BeginReopen
  <2>2. SetsBothOrNone(Edit(t, Reopened(rows[t]), FALSE, NULL))
    BY <1>1 DEF SetsBothOrNone, Edit, Reopened, Row
  <2>. QED BY <1>1, <2>1, <2>2 DEF Edit
<1>4. CASE BeginSnooze(s, t)
  <2>1. PICK u \in SnoozeEnds(rows[t]) : Load(s, Edit(t, Snoozed(rows[t], u), FALSE, NULL))
    BY <1>4 DEF BeginSnooze
  <2>2. u # NULL
    BY RowConstants DEF SnoozeEnds
  <2>3. SetsBothOrNone(Edit(t, Snoozed(rows[t], u), FALSE, NULL))
    BY <1>1, <2>2 DEF SetsBothOrNone, Edit, Snoozed, Row
  <2>. QED BY <1>1, <2>1, <2>3 DEF Edit
<1>5. CASE BeginUpdate(s, t)
  <2>1. PICK p \in Patches, scope \in {"this", "future"} : Load(s, Update(t, p, scope))
    BY <1>5 DEF BeginUpdate
  <2>2. SetsBothOrNone(Update(t, p, scope))
    BY <1>1 DEF SetsBothOrNone, Update, Patched, Row
  <2>. QED BY <1>1, <2>1, <2>2 DEF Update
<1>6. CASE BeginDelete(s, t) \/ BeginSkip(s, t)
  <2>1. PICK spawn \in {NULL, NextOccurrence(rows[t])} : Load(s, Removal(t, spawn))
    BY <1>6 DEF BeginDelete, BeginSkip
  <2>2. SetsBothOrNone(Removal(t, spawn))
    BY DEF SetsBothOrNone, Removal
  <2>. QED BY <1>1, <2>1, <2>2 DEF Removal
<1>. QED BY <1>2, <1>3, <1>4, <1>5, <1>6

\* What a run holds was pending when it was read.
LEMMA ReadPendingStep ==
  ASSUME Inv, ReadPending, Next
  PROVE  ReadPending'
<1>1. CASE UNCHANGED <<batch, current>>
  BY <1>1 DEF ReadPending
<1>2. CASE EndRun
  BY <1>2 DEF EndRun, NoBatch, ReadPending
<1>3. CASE ReadDue
  BY <1>3 DEF ReadDue, DueNow, ReadPending
<1>4. ASSUME NEW t \in TaskIds, TakeTask(t)
      PROVE  ReadPending'
  BY <1>4 DEF TakeTask, ReadPending, Inv, TypeOK
<1>5. CASE UNCHANGED batch /\ current' = NULL
  BY <1>5 DEF ReadPending
<1>6. JobStep => \/ UNCHANGED <<batch, current>> \/ EndRun \/ ReadDue
                 \/ \E t \in TaskIds : TakeTask(t)
                 \/ UNCHANGED batch /\ current' = NULL
  BY DEF JobStep, ReadExpired, RevertExpired, RevertStale, FinishRun, SkipChannel, Send,
         LogAttempt, LogViolatesForeignKey, LeaveOneOff, AdvanceSeries, AdvanceFails,
         AbandonBatch, GoTo
<1>7. Request \/ Clock \/ PurgeOldCompleted \/ Crash \/ ChangeChannels =>
        UNCHANGED <<batch, current>> \/ EndRun
  BY DEF Request, Clock, PurgeOldCompleted, Crash, ChangeChannels, tickVars
<1>. QED BY <1>1, <1>2, <1>3, <1>4, <1>5, <1>6, <1>7 DEF Next

\* Rows that stay as they were or go disturb nothing.
LEMMA SnoozeFrame ==
  ASSUME SnoozeInv, Inv, ReadPending',
         \A t \in TaskIds : rows'[t] \in {rows[t], NULL},
         fresh' \subseteq fresh, session' = session,
         (phase' # "revert" /\ expired' = {}) \/ UNCHANGED <<phase, expired>>
  PROVE  SnoozeInv'
<1>1. expired \subseteq TaskIds /\ session \in [Sessions -> Work \cup {NULL}]
  BY DEF Inv, TypeOK, ServiceInv, ServiceTypeOK
<1>2. SnoozedHasEnd'
  BY DEF SnoozeInv, SnoozedHasEnd, Live
<1>3. ASSUME NEW s \in Sessions, session[s] # NULL
      PROVE  (SetsBothOrNone(session[s]) /\ SnoozeAsRead(session[s]))'
  <2>1. session[s].task \in TaskIds
    BY <1>1, <1>3 DEF Work
  <2>. QED BY <1>3, <2>1 DEF SnoozeInv, SetsBothOrNone, SnoozeAsRead, Live
<1>4. ExpiredGood'
  <2>1. CASE phase' # "revert" /\ expired' = {}
    BY <2>1 DEF ExpiredGood
  <2>2. CASE UNCHANGED <<phase, expired>>
    BY <1>1, <2>2 DEF SnoozeInv, ExpiredGood, Live
  <2>. QED BY <2>1, <2>2
<1>. QED BY <1>2, <1>3, <1>4 DEF SnoozeInv

\* A request's commit, seen by the table, the other requests and the run.
LEMMA CommitKeepsEnds ==
  ASSUME Inv, SnoozeInv, OneRequestPerTask, UNCHANGED tickVars,
         NEW s \in Sessions, Commit(s)
  PROVE  SnoozeInv'
<1> DEFINE w == session[s]
<1>1. /\ Core /\ session \in [Sessions -> Work \cup {NULL}] /\ expired \subseteq TaskIds
      /\ w \in Work /\ GoodWork(w) /\ CommitWork(w)
      /\ SetsBothOrNone(w) /\ SnoozeAsRead(w)
  BY DEF Inv, TypeOK, ServiceInv, ServiceTypeOK, Core, TableTypeOK, Commit, SnoozeInv
<1>2. /\ session'[s] = NULL /\ fresh' \subseteq fresh
      /\ \A r \in Sessions \ {s} : session'[r] = session[r]
  BY <1>1 DEF Commit, CommitWork
<1>3. \A r \in Sessions \ {s} : session[r] # NULL =>
        session[r].task \in TaskIds \ fresh /\ session[r].task # w.task
  BY <1>1 DEF OneRequestPerTask, Inv, ServiceInv, GoodWork, GoodRead, Work, Commit
<1>4. SnoozedHasEnd'
  <2> SUFFICES ASSUME NEW t \in TaskIds, rows'[t] # NULL, rows'[t].status = "snoozed"
               PROVE  rows'[t].snoozed_until # NULL
    BY DEF SnoozedHasEnd, Live
  <2>1. Live(t) /\ t # w.task /\ rows'[t].status = rows[t].status
          /\ rows'[t].snoozed_until = rows[t].snoozed_until
        => rows'[t].snoozed_until # NULL
    BY DEF SnoozeInv, SnoozedHasEnd
  <2>. QED BY <1>1, <2>1, CommitSnooze, FlushKeepsEnd DEF SnoozeInv
<1>5. ASSUME NEW r \in Sessions, session'[r] # NULL
      PROVE  (SetsBothOrNone(session[r]) /\ SnoozeAsRead(session[r]))'
  <2>1. r # s /\ session'[r] = session[r]
    BY <1>2, <1>5
  <2>2. SetsBothOrNone(session[r]) /\ SnoozeAsRead(session[r])
    BY <1>5, <2>1 DEF SnoozeInv
  <2>3. rows'[session[r].task] # NULL =>
          /\ Live(session[r].task)
          /\ rows'[session[r].task].status = rows[session[r].task].status
          /\ rows'[session[r].task].snoozed_until = rows[session[r].task].snoozed_until
    BY <1>1, <1>3, <1>5, <2>1, CommitSnooze
  <2>. QED BY <2>1, <2>2, <2>3 DEF SetsBothOrNone, SnoozeAsRead, Live
<1>6. ExpiredGood'
  <2>1. phase' = phase /\ expired' = expired
    BY DEF tickVars
  <2>2. ASSUME NEW t \in expired
        PROVE  /\ t \notin fresh'
               /\ Live(t)' => rows'[t].status = "snoozed" \/ rows'[t].snoozed_until = NULL
               /\ \A r \in Sessions : Live(t)' /\ session'[r] # NULL /\ session'[r].task = t =>
                    /\ rows'[t].status = session'[r].old.status
                    /\ rows'[t].snoozed_until = session'[r].old.snoozed_until
    <3>1. /\ t \in TaskIds /\ t \notin fresh
          /\ Live(t) => rows[t].status = "snoozed" \/ rows[t].snoozed_until = NULL
          /\ \A r \in Sessions : Live(t) /\ session[r] # NULL /\ session[r].task = t =>
               /\ rows[t].status = session[r].old.status
               /\ rows[t].snoozed_until = session[r].old.snoozed_until
      BY <1>1, <2>2 DEF SnoozeInv, ExpiredGood
    <3>2. CASE t = w.task
      <4>1. \A r \in Sessions : session'[r] # NULL => session'[r].task # t
        BY <1>2, <1>3, <3>2
      <4>2. ASSUME rows'[t] # NULL
            PROVE  rows'[t].status = "snoozed" \/ rows'[t].snoozed_until = NULL
        <5>1. /\ Live(t)
              /\ rows'[t].status = Net(w.old.status, w.new.status, rows[t].status)
              /\ rows'[t].snoozed_until =
                   Net(w.old.snoozed_until, w.new.snoozed_until, rows[t].snoozed_until)
          BY <1>1, <3>1, <3>2, <4>2, CommitSnooze
        <5>2. /\ rows[t].status = w.old.status
              /\ rows[t].snoozed_until = w.old.snoozed_until
          BY <3>1, <3>2, <5>1 DEF Commit
        <5>. QED BY <1>1, <3>1, <5>1, <5>2 DEF Net, SetsBothOrNone
      <4>. QED BY <1>2, <3>1, <4>1, <4>2 DEF Live
    <3>3. CASE t # w.task
      <4>1. rows'[t] # NULL =>
              /\ Live(t)
              /\ rows'[t].status = rows[t].status
              /\ rows'[t].snoozed_until = rows[t].snoozed_until
        BY <1>1, <3>1, <3>3, CommitSnooze
      <4>. QED BY <1>2, <3>1, <4>1 DEF Live
    <3>. QED BY <3>2, <3>3
  <2>. QED BY <2>1, <2>2 DEF SnoozeInv, ExpiredGood
<1>7. ReadPending'
  BY DEF SnoozeInv, ReadPending, tickVars
<1>. QED BY <1>4, <1>5, <1>6, <1>7 DEF SnoozeInv

LEMMA RequestKeepsEnds ==
  ASSUME Inv, SnoozeInv, OneRequestPerTask, UserStep, UNCHANGED tickVars
  PROVE  SnoozeInv'
<1>1. /\ ServiceInv /\ Core
      /\ session \in [Sessions -> Work \cup {NULL}] /\ expired \subseteq TaskIds
      /\ \A s \in Sessions : session[s] # NULL => session[s].task \in TaskIds \ fresh
  BY DEF Inv, TypeOK, ServiceInv, ServiceTypeOK, Core, TableTypeOK, GoodWork, GoodRead, Work
<1>2. ReadPending' /\ phase' = phase /\ expired' = expired
  BY DEF SnoozeInv, ReadPending, tickVars
<1>3. ASSUME NEW n \in TaskIds, CreateTask(n)
      PROVE  SnoozeInv'
  <2>1. PICK body \in NewTasks : rows' = [rows EXCEPT ![n] = NewRow(n, body)]
    BY <1>3 DEF CreateTask
  <2>2. /\ n \in fresh /\ fresh' \subseteq fresh /\ session' = session
        /\ rows'[n].status = "pending"
        /\ \A t \in TaskIds \ {n} : rows'[t] = rows[t]
    BY <1>1, <1>3, <2>1 DEF CreateTask, NewRow, Core, TableTypeOK
  <2>3. SnoozedHasEnd'
    BY <2>2 DEF SnoozeInv, SnoozedHasEnd, Live
  <2>4. ASSUME NEW s \in Sessions, session[s] # NULL
        PROVE  (SetsBothOrNone(session[s]) /\ SnoozeAsRead(session[s]))'
    <3>1. rows'[session[s].task] = rows[session[s].task]
      BY <1>1, <2>2, <2>4
    <3>. QED BY <2>2, <2>4, <3>1 DEF SnoozeInv, SetsBothOrNone, SnoozeAsRead, Live
  <2>5. ExpiredGood'
    BY <1>1, <1>2, <2>2 DEF SnoozeInv, ExpiredGood, Live
  <2>. QED BY <1>2, <2>2, <2>3, <2>4, <2>5 DEF SnoozeInv
<1>4. ASSUME NEW s \in Sessions, NEW w, NEW t \in TaskIds, Load(s, w), Live(t),
             w.task = t, w.old = rows[t], SetsBothOrNone(w)
      PROVE  SnoozeInv'
  <2>1. /\ rows' = rows /\ fresh' = fresh /\ session'[s] = w
        /\ \A r \in Sessions \ {s} : session'[r] = session[r]
    BY <1>1, <1>4 DEF Load
  <2>2. SnoozedHasEnd'
    BY <2>1 DEF SnoozeInv, SnoozedHasEnd, Live
  <2>3. SnoozeAsRead(w)
    BY <1>4 DEF SnoozeAsRead
  <2>4. ASSUME NEW r \in Sessions, session'[r] # NULL
        PROVE  (SetsBothOrNone(session[r]) /\ SnoozeAsRead(session[r]))'
    BY <1>4, <2>1, <2>3, <2>4 DEF SnoozeInv, SetsBothOrNone, SnoozeAsRead, Live
  <2>5. ExpiredGood'
    BY <1>2, <1>4, <2>1 DEF SnoozeInv, ExpiredGood, Live
  <2>. QED BY <1>2, <2>2, <2>4, <2>5 DEF SnoozeInv
<1>5. ASSUME NEW s \in Sessions, Commit(s)
      PROVE  SnoozeInv'
  BY <1>5, CommitKeepsEnds
<1>6. ASSUME NEW s \in Sessions, Abort(s)
      PROVE  SnoozeInv'
  <2>1. /\ rows' = rows /\ fresh' = fresh /\ session'[s] = NULL
        /\ \A r \in Sessions \ {s} : session'[r] = session[r]
    BY <1>1, <1>6 DEF Abort
  <2>2. SnoozedHasEnd'
    BY <2>1 DEF SnoozeInv, SnoozedHasEnd, Live
  <2>3. ASSUME NEW r \in Sessions, session'[r] # NULL
        PROVE  (SetsBothOrNone(session[r]) /\ SnoozeAsRead(session[r]))'
    BY <2>1, <2>3 DEF SnoozeInv, SetsBothOrNone, SnoozeAsRead, Live
  <2>4. ExpiredGood'
    BY <1>2, <2>1 DEF SnoozeInv, ExpiredGood, Live
  <2>. QED BY <1>2, <2>2, <2>3, <2>4 DEF SnoozeInv
<1>. QED BY <1>1, <1>3, <1>4, <1>5, <1>6, LoadedSnooze DEF UserStep

\* Finding the expired snoozes: what is open on one of them has read that very snooze.
LEMMA ReadExpiredKeepsEnds ==
  ASSUME Inv, SnoozeInv, ReadExpired, ReadPending'
  PROVE  SnoozeInv'
<1>1. UNCHANGED <<rows, fresh, session>>
  BY DEF ReadExpired, serviceVars
<1>2. SnoozedHasEnd'
  BY <1>1 DEF SnoozeInv, SnoozedHasEnd, Live
<1>3. ASSUME NEW s \in Sessions, session'[s] # NULL
      PROVE  (SetsBothOrNone(session[s]) /\ SnoozeAsRead(session[s]))'
  BY <1>1, <1>3 DEF SnoozeInv, SetsBothOrNone, SnoozeAsRead, Live
<1>4. ASSUME NEW t \in expired'
      PROVE  t \in TaskIds \ fresh /\ rows[t].status = "snoozed"
  BY <1>4 DEF ReadExpired, Inv, ServiceInv, RowsGood
<1>5. ASSUME NEW t \in expired', NEW s \in Sessions, Live(t), session[s] # NULL,
             session[s].task = t
      PROVE  /\ rows[t].status = session[s].old.status
             /\ rows[t].snoozed_until = session[s].old.snoozed_until
  BY <1>4, <1>5 DEF SnoozeInv, SnoozeAsRead
<1>6. phase' # "revert" => expired' = {}
  BY DEF ReadExpired
<1>7. ExpiredGood'
  BY <1>1, <1>4, <1>5, <1>6 DEF ExpiredGood, Live
<1>. QED BY <1>2, <1>3, <1>7 DEF SnoozeInv

\* Taking them back.
LEMMA RevertKeepsEnds ==
  ASSUME Inv, SnoozeInv, RevertExpired, ReadPending'
  PROVE  SnoozeInv'
<1>1. /\ session' = session /\ expired' = {} /\ phase' = "select"
      /\ \A t \in TaskIds \ expired : rows'[t] = rows[t]
  BY DEF RevertExpired
<1>2. ASSUME NEW t \in expired
      PROVE  /\ t \in TaskIds /\ Live(t)
             /\ rows'[t].status = "pending" /\ rows'[t].snoozed_until = NULL
  <2>1. t \in TaskIds /\ Live(t) /\ rows[t] \in Row
    BY DEF RevertExpired, Inv, TypeOK, ServiceTypeOK, Live
  <2>2. rows'[t] = [rows[t] EXCEPT !.status = "pending", !.snoozed_until = NULL]
    BY <2>1 DEF RevertExpired
  <2>. QED BY <2>1, <2>2 DEF Row
<1>3. SnoozedHasEnd'
  BY <1>1, <1>2 DEF SnoozeInv, SnoozedHasEnd, Live
<1>4. ASSUME NEW s \in Sessions, session'[s] # NULL
      PROVE  (SetsBothOrNone(session[s]) /\ SnoozeAsRead(session[s]))'
  <2>1. session[s].task \in TaskIds /\ SetsBothOrNone(session[s]) /\ SnoozeAsRead(session[s])
    BY <1>1, <1>4 DEF Inv, TypeOK, ServiceTypeOK, Work, SnoozeInv
  <2>2. CASE session[s].task \in expired
    <3>1. /\ \/ session[s].old.status = "snoozed"
             \/ session[s].old.snoozed_until = NULL
      BY <1>1, <1>2, <1>4, <2>2 DEF SnoozeInv, ExpiredGood
    <3>. QED BY <1>1, <1>2, <2>1, <2>2, <3>1 DEF SetsBothOrNone, SnoozeAsRead
  <2>3. CASE session[s].task \notin expired
    BY <1>1, <2>1, <2>3 DEF SetsBothOrNone, SnoozeAsRead, Live
  <2>. QED BY <2>2, <2>3
<1>5. ExpiredGood'
  BY <1>1 DEF ExpiredGood
<1>. QED BY <1>3, <1>4, <1>5 DEF SnoozeInv

\* Advancing a task sets its status to completed and leaves the end of a snooze alone.
LEMMA AdvanceKeepsEnds ==
  ASSUME Inv, SnoozeInv, AdvanceSeries, ReadPending'
  PROVE  SnoozeInv'
<1> DEFINE w == AdvanceWork
<1>1. current # NULL /\ current.row \in Row
  BY DEF AdvanceSeries, Inv, RunShape, TypeOK
<1>2. Core /\ w \in Work /\ GoodWork(w) /\ CommitWork(w)
  BY <1>1, AdvanceWorkGood
     DEF AdvanceSeries, Inv, ServiceInv, ServiceTypeOK, Core, TableTypeOK
<1>3. /\ w.old.status = "pending" /\ w.new.status = "completed"
      /\ w.new.snoozed_until = w.old.snoozed_until
  BY <1>1 DEF AdvanceWork, AutoCompleted, Row, SnoozeInv, ReadPending
<1>4. ASSUME NEW t \in TaskIds, rows'[t] # NULL
      PROVE  \/ t \in fresh /\ rows'[t].status = "pending"
             \/ /\ Live(t) /\ rows'[t].status \in {rows[t].status, "completed"}
                /\ rows'[t].snoozed_until = rows[t].snoozed_until
  BY <1>2, <1>3, <1>4, CommitSnooze DEF Net
<1>5. SnoozedHasEnd'
  BY <1>4 DEF SnoozeInv, SnoozedHasEnd, Live
<1>6. session' = session /\ phase' # "revert" /\ expired' = {}
  BY DEF AdvanceSeries, GoTo, SnoozeInv, ExpiredGood
<1>7. ASSUME NEW s \in Sessions, session'[s] # NULL
      PROVE  (SetsBothOrNone(session[s]) /\ SnoozeAsRead(session[s]))'
  <2>1. /\ session[s].task \in TaskIds \ fresh
        /\ SetsBothOrNone(session[s]) /\ SnoozeAsRead(session[s])
    BY <1>6, <1>7 DEF Inv, ServiceInv, ServiceTypeOK, GoodWork, GoodRead, Work, SnoozeInv
  <2>. QED BY <1>4, <1>6, <2>1 DEF SetsBothOrNone, SnoozeAsRead, Live
<1>8. ExpiredGood'
  BY <1>6 DEF ExpiredGood
<1>. QED BY <1>5, <1>7, <1>8 DEF SnoozeInv

LEMMA SnoozeStep ==
  ASSUME Inv, SnoozeInv, OneRequestPerTask, [Next]_vars
  PROVE  SnoozeInv'
<1>1. CASE Request
  BY <1>1, RequestKeepsEnds DEF Request
<1>2. CASE JobStep \/ Clock \/ PurgeOldCompleted \/ Crash \/ ChangeChannels
  <2>0. ReadPending'
    BY <1>2, ReadPendingStep DEF SnoozeInv, Next
  <2>1. CASE ReadExpired
    BY <2>0, <2>1, ReadExpiredKeepsEnds
  <2>2. CASE RevertExpired
    BY <2>0, <2>2, RevertKeepsEnds
  <2>3. CASE AdvanceSeries
    BY <2>0, <2>3, AdvanceKeepsEnds
  <2>4. CASE /\ JobStep \/ Clock \/ Crash \/ ChangeChannels
             /\ ~ReadExpired /\ ~RevertExpired /\ ~AdvanceSeries
    <3>1. UNCHANGED <<rows, fresh, session>>
      BY <2>4 DEF JobStep, RevertStale, ReadDue, FinishRun, TakeTask, SkipChannel, Send,
                  LogAttempt, LogViolatesForeignKey, LeaveOneOff, AdvanceFails, AbandonBatch,
                  Clock, Tick, Crash, ChangeChannels, serviceVars
    <3>2. (phase' # "revert" /\ expired' = {}) \/ UNCHANGED <<phase, expired>>
      <4>1. expired = {} \/ phase = "revert"
        BY DEF SnoozeInv, ExpiredGood
      <4>2. CASE Clock \/ ChangeChannels \/ Crash
        BY <4>2 DEF Clock, ChangeChannels, Crash, EndRun, tickVars
      <4>3. CASE RevertStale \/ FinishRun \/ LogViolatesForeignKey \/ AdvanceFails
        BY <4>3 DEF RevertStale, FinishRun, LogViolatesForeignKey, AdvanceFails,
                    AbandonBatch, EndRun
      <4>4. CASE ReadDue \/ \E t \in TaskIds : TakeTask(t)
        BY <4>1, <4>4 DEF ReadDue, TakeTask
      <4>5. CASE (\E c \in Channel : SkipChannel(c) \/ Send(c)) \/ LogAttempt \/ LeaveOneOff
        <5>1. PICK p \in Phase \ {"revert"} : GoTo(p)
          BY <4>5 DEF SkipChannel, Send, LogAttempt, LeaveOneOff, After, Channel, Phase
        <5>2. phase # "revert"
          BY <4>5 DEF SkipChannel, Send, LogAttempt, LeaveOneOff, Channel
        <5>. QED BY <4>1, <5>1, <5>2 DEF GoTo
      <4>. QED BY <2>4, <4>2, <4>3, <4>4, <4>5 DEF JobStep
    <3>. QED BY <2>0, <3>1, <3>2, SnoozeFrame
  <2>5. CASE PurgeOldCompleted
    BY <2>0, <2>5, SnoozeFrame DEF PurgeOldCompleted, tickVars
  <2>. QED BY <1>2, <2>1, <2>2, <2>3, <2>4, <2>5
<1>3. CASE UNCHANGED vars
  <2>1. UNCHANGED <<rows, fresh, session, phase, expired, batch, current>>
    BY <1>3 DEF vars, serviceVars, tickVars
  <2>. QED BY <2>1, SnoozeFrame DEF SnoozeInv, ReadPending
<1>. QED BY <1>1, <1>2, <1>3 DEF Next

(***************************************************************************)
(* While no two requests overlap on one task, a task that is snoozed has   *)
(* an end of its snooze: however the reminder job's SELECT and UPDATE, its *)
(* advances, the retention job and crashes fall between a request's SELECT *)
(* and its COMMIT, no task stays snoozed for ever (snooze_task,            *)
(* complete_task, reopen_task, _revert_expired_snoozes).                   *)
(***************************************************************************)
THEOREM NoSnoozeStranded == Spec /\ []OneRequestPerTask => []SnoozedHasEnd
<1>1. Init => SnoozeInv
  BY DEF Init, ServiceInit, NoBatch, SnoozeInv, SnoozedHasEnd, ExpiredGood, ReadPending, Live
<1>2. Inv /\ SnoozeInv /\ OneRequestPerTask /\ [Next]_vars => SnoozeInv'
  BY SnoozeStep
<1>3. SnoozeInv => SnoozedHasEnd
  BY DEF SnoozeInv
<1>. QED
  BY <1>1, <1>2, <1>3, Invariance, PTL DEF Spec

-----------------------------------------------------------------------------
(***************************************************************************)
(* The refinement: every step is a step of Series or leaves its variables  *)
(* alone.                                                                  *)
(***************************************************************************)
promised == <<fresh, running, occurrences>>

LEMMA OccurrenceOf ==
  ASSUME NEW t \in TaskIds
  PROVE  /\ occurrences[t] =
              (IF Live(t) /\ IsActive(rows[t]) THEN rows[t].series_id ELSE NULL)
         /\ occurrences'[t] =
              (IF rows'[t] # NULL /\ rows'[t].status \in Active
               THEN rows'[t].series_id ELSE NULL)
  BY DEF occurrences, Live, IsActive

\* An occurrence belongs to a series that was begun.
LEMMA OccurrencesType ==
  ASSUME Core
  PROVE  /\ occurrences \in [TaskIds -> TaskIds \cup {NULL}]
         /\ \A t \in TaskIds : occurrences[t] # NULL => t \notin fresh /\ occurrences[t] \notin fresh
<1>1. ASSUME NEW t \in TaskIds
      PROVE  /\ occurrences[t] \in TaskIds \cup {NULL}
             /\ occurrences[t] # NULL => t \notin fresh /\ occurrences[t] \notin fresh
  <2>1. Live(t) => rows[t] \in Row
    BY DEF Core, TableTypeOK, Live
  <2>. QED BY <2>1, OccurrenceOf DEF Core, RowsGood, Row
<1>2. occurrences = [t \in TaskIds |-> occurrences[t]]
  BY DEF occurrences
<1>. QED BY <1>1, <1>2

\* Two states with the same active occurrences, but for some.
LEMMA SameOccurrences ==
  ASSUME \A t \in TaskIds : occurrences'[t] = occurrences[t]
  PROVE  occurrences' = occurrences
  BY DEF occurrences

LEMMA OneOccurrence ==
  ASSUME NEW u \in TaskIds, NEW s,
         occurrences'[u] = s,
         \A t \in TaskIds \ {u} : occurrences'[t] = occurrences[t]
  PROVE  occurrences' = [occurrences EXCEPT ![u] = s]
<1>1. /\ DOMAIN occurrences = TaskIds /\ DOMAIN occurrences' = TaskIds
      /\ occurrences' = [t \in TaskIds |-> occurrences'[t]]
  BY DEF occurrences
<1>. QED BY <1>1

LEMMA TwoOccurrences ==
  ASSUME NEW u \in TaskIds, NEW v \in TaskIds, u # v, NEW r, NEW s,
         occurrences'[u] = r, occurrences'[v] = s,
         \A t \in TaskIds \ {u, v} : occurrences'[t] = occurrences[t]
  PROVE  occurrences' = [occurrences EXCEPT ![u] = r, ![v] = s]
<1>1. /\ DOMAIN occurrences = TaskIds /\ DOMAIN occurrences' = TaskIds
      /\ occurrences' = [t \in TaskIds |-> occurrences'[t]]
  BY DEF occurrences
<1>. QED BY <1>1

LEMMA CreateMaps ==
  ASSUME Core, NEW n \in TaskIds, CreateTask(n)
  PROVE  Promise!Next
<1>1. PICK body \in NewTasks :
        /\ rows' = [rows EXCEPT ![n] = NewRow(n, body)]
        /\ running' = IF body.repeat_type # "none" THEN running \cup {n} ELSE running
  BY DEF CreateTask
<1>2. n \in fresh /\ fresh' = fresh \ {n} /\ ~Live(n)
  BY DEF CreateTask, Core, RowsGood
<1>3. NewRow(n, body) # NULL
  <2>1. NewRow(n, body) \in Row
    BY RowConstants DEF NewRow, NewTask, Row, Status
  <2>. QED BY <2>1, RowConstants
<1>4. rows'[n] = NewRow(n, body) /\ \A t \in TaskIds \ {n} : rows'[t] = rows[t]
  BY <1>1 DEF Core, TableTypeOK
<1>5. \A t \in TaskIds \ {n} : occurrences'[t] = occurrences[t]
  BY <1>4, OccurrenceOf DEF Live, IsActive
<1>6. CASE body.repeat_type # "none"
  <2>1. occurrences'[n] = n
    BY <1>3, <1>4, <1>6, OccurrenceOf DEF NewRow, Active
  <2>2. occurrences' = [occurrences EXCEPT ![n] = n]
    BY <1>5, <2>1, OneOccurrence
  <2>3. Promise!Start(n)
    BY <1>1, <1>2, <1>6, <2>2 DEF Promise!Start, Promise!Take
  <2>. QED BY <2>3 DEF Promise!Next
<1>7. CASE body.repeat_type = "none"
  <2>1. occurrences'[n] = NULL /\ occurrences[n] = NULL
    BY <1>2, <1>3, <1>4, <1>7, OccurrenceOf DEF NewRow, Active
  <2>2. occurrences' = occurrences
    BY <1>5, <2>1, SameOccurrences
  <2>3. Promise!Single(n)
    BY <1>1, <1>2, <1>7, <2>2 DEF Promise!Single, Promise!Take
  <2>. QED BY <2>3 DEF Promise!Next
<1>. QED BY <1>6, <1>7

\* A commit leaves the status and the series of other rows alone.
LEMMA CommitOthers ==
  ASSUME Core, NEW w \in Work, CommitWork(w), NEW t \in TaskIds, t # w.task,
         rows'[t] = AfterCommit(w)[t]
  PROVE  occurrences'[t] = occurrences[t]
<1>1. rows'[t] \in {rows[t], Rippled(rows[t], w)}
  BY DEF AfterCommit
<1>2. rows'[t] # rows[t] => Live(t)
  BY DEF AfterCommit
<1>3. CASE rows'[t] = rows[t]
  BY <1>3, OccurrenceOf DEF Live, IsActive
<1>4. CASE rows'[t] # rows[t]
  <2>1. rows[t] \in Row /\ rows[t] # NULL
    BY <1>2, <1>4 DEF Core, TableTypeOK, Live
  <2>2. /\ rows'[t] \in Row /\ rows'[t].status = rows[t].status
        /\ rows'[t].series_id = rows[t].series_id
    BY <1>1, <1>4, <2>1, RippledType DEF Rippled, Row
  <2>. QED BY <2>1, <2>2, RowConstants, OccurrenceOf DEF Live, IsActive
<1>. QED BY <1>3, <1>4

\* The row of a commit stays in its series; it is over with a successor, and of a
\* series that runs on it is over with nothing else.
LEMMA CommitTask ==
  ASSUME Core, NEW w \in Work, GoodWork(w), CommitWork(w)
  PROVE  /\ w.task \notin fresh /\ w.old.series_id \in (TaskIds \cup {NULL}) \ fresh
         /\ occurrences[w.task] \in {w.old.series_id, NULL}
         /\ occurrences'[w.task] \in {w.old.series_id, NULL}
         /\ w.spawn # NULL \/ EndsSeries(w) =>
              occurrences'[w.task] \in {occurrences[w.task], NULL}
         /\ w.spawn = NULL /\ ~EndsSeries(w) /\ w.old.series_id \in running =>
              occurrences[w.task] = NULL \/ occurrences'[w.task] # NULL
<1> DEFINE u == w.task
<1>1. u \in TaskIds /\ w.old \in Row /\ w.new \in Row
  BY DEF Work
<1>2. u \notin fresh /\ w.old.series_id \in (TaskIds \cup {NULL}) \ fresh
  BY <1>1 DEF GoodWork, GoodRead, Row
<1>3. rows'[u] = AfterCommit(w)[u]
  <2>1. AfterCommit(w) \in [TaskIds -> Row \cup {NULL}]
    BY AfterCommitType DEF Core
  <2>. QED BY <1>1, <1>2, <2>1 DEF CommitWork
<1>4. Live(u) => rows[u] \in Row /\ rows[u].series_id = w.old.series_id
  BY <1>1 DEF Core, TableTypeOK, GoodWork, GoodRead, Live
<1>5. CASE w.delete \/ ~Live(u)
  <2>1. rows'[u] = NULL
    BY <1>1, <1>3, <1>5 DEF AfterCommit
  <2>2. w.spawn = NULL /\ ~EndsSeries(w) => ~Live(u) \/ ~IsActive(rows[u])
    BY <1>5 DEF EndsSeries
  <2>. QED BY <1>1, <1>2, <1>4, <2>1, <2>2, OccurrenceOf
<1>6. CASE ~w.delete /\ Live(u)
  <2>1. rows'[u] = Flushed(rows[u], w) /\ rows'[u] # NULL
    <3>1. rows'[u] = Flushed(rows[u], w)
      BY <1>1, <1>3, <1>6 DEF AfterCommit
    <3>. QED BY <1>4, <1>6, <3>1, FlushedType, RowConstants
  <2>2. /\ rows'[u].series_id = rows[u].series_id
        /\ rows'[u].status = IF w.new.status = w.old.status THEN rows[u].status ELSE w.new.status
    BY <2>1 DEF Flushed, Net
  <2>3. w.spawn # NULL \/ EndsSeries(w) => rows'[u].status \in {rows[u].status, "completed"}
    <3>1. CASE w.spawn # NULL
      BY <1>6, <2>2, <3>1 DEF GoodWork
    <3>2. CASE w.spawn = NULL /\ EndsSeries(w)
      <4>1. w.new.repeat_type # w.old.repeat_type \/ w.ripple # {}
        BY <1>6, <3>2 DEF EndsSeries
      <4>2. w.new.status = w.old.status
        BY <4>1 DEF GoodWork
      <4>. QED BY <2>2, <4>2
    <3>. QED BY <3>1, <3>2
  <2>4. w.spawn = NULL /\ w.old.series_id \in running /\ IsActive(rows[u]) =>
          rows'[u].status \in Active
    <3>1. w.spawn = NULL /\ w.old.series_id \in running =>
            ~(w.new.status = "completed" /\ w.old.status # "completed")
      BY DEF GoodWork, GoodRead
    <3>2. w.new.status \in Status
      BY <1>1 DEF Row
    <3>. QED BY <2>2, <3>1, <3>2 DEF IsActive, Active, Status
  <2>5. /\ occurrences[u] = (IF IsActive(rows[u]) THEN w.old.series_id ELSE NULL)
        /\ occurrences'[u] = (IF rows'[u].status \in Active THEN w.old.series_id ELSE NULL)
    BY <1>1, <1>4, <1>6, <2>1, <2>2, OccurrenceOf
  <2>6. rows'[u].status \in {rows[u].status, "completed"} =>
          occurrences'[u] \in {occurrences[u], NULL}
    BY <2>5 DEF IsActive, Active
  <2>7. w.old.series_id \in running => w.old.series_id # NULL
    BY RowConstants DEF Core, TableTypeOK
  <2>8. /\ occurrences[u] \in {w.old.series_id, NULL}
        /\ occurrences'[u] \in {w.old.series_id, NULL}
    BY <2>5
  <2>9. w.spawn = NULL /\ ~EndsSeries(w) /\ w.old.series_id \in running =>
          occurrences[u] = NULL \/ occurrences'[u] # NULL
    BY <2>4, <2>5, <2>7
  <2>. QED BY <1>2, <2>3, <2>6, <2>8, <2>9
<1>. QED BY <1>5, <1>6

LEMMA CommitMaps ==
  ASSUME Core, NEW w \in Work, GoodWork(w), CommitWork(w)
  PROVE  Promise!Next \/ UNCHANGED promised
<1> DEFINE u == w.task
           s == w.old.series_id
<1>1. u \in TaskIds /\ u \notin fresh /\ s \in (TaskIds \cup {NULL}) \ fresh
  BY CommitTask DEF Work
<1>2. running \subseteq TaskIds /\ NULL \notin TaskIds /\ AfterCommit(w) \in [TaskIds -> Row \cup {NULL}]
  BY AfterCommitType, RowConstants DEF Core, TableTypeOK
<1>3. CASE w.spawn # NULL
  <2>1. PICK n \in fresh : /\ rows' = [AfterCommit(w) EXCEPT ![n] = w.spawn]
                           /\ fresh' = fresh \ {n}
    BY <1>3 DEF CommitWork
  <2>2. n \in TaskIds /\ n # u /\ ~Live(n)
    BY <1>1, <2>1 DEF Core, TableTypeOK, RowsGood
  <2>3. running' = running
    BY <1>3 DEF CommitWork, GoodWork, EndsSeries
  <2>4. occurrences[n] = NULL /\ occurrences'[n] = s
    <3>1. rows'[n] = w.spawn
      BY <1>2, <2>1, <2>2
    <3>2. w.spawn.status \in Active /\ w.spawn.series_id = s
      BY <1>3 DEF GoodWork, Active
    <3>. QED BY <1>3, <2>2, <3>1, <3>2, OccurrenceOf
  <2>5. \A t \in TaskIds \ {u, n} : occurrences'[t] = occurrences[t]
    <3> SUFFICES ASSUME NEW t \in TaskIds \ {u, n} PROVE occurrences'[t] = occurrences[t]
      OBVIOUS
    <3>1. rows'[t] = AfterCommit(w)[t]
      BY <1>2, <2>1
    <3>. QED BY <3>1, CommitOthers
  <2>6. /\ occurrences[u] \in {s, NULL}
        /\ occurrences'[u] \in {occurrences[u], NULL}
    BY <1>3, CommitTask
  <2>7. CASE s = NULL
    <3>1. \A t \in TaskIds : occurrences'[t] = occurrences[t]
      BY <2>4, <2>5, <2>6, <2>7
    <3>2. Promise!Single(n)
      BY <2>1, <2>3, <3>1, SameOccurrences DEF Promise!Single, Promise!Take
    <3>. QED BY <2>2, <3>2 DEF Promise!Next
  <2>8. CASE s # NULL
    <3>1. CASE occurrences[u] = s /\ occurrences'[u] = NULL
      <4>1. occurrences' = [occurrences EXCEPT ![u] = NULL, ![n] = s]
        BY <1>1, <2>2, <2>4, <2>5, <3>1, TwoOccurrences
      <4>2. Promise!Succeed(s, u, n)
        BY <1>1, <2>1, <2>3, <3>1, <4>1 DEF Promise!Succeed, Promise!Take
      <4>. QED BY <1>1, <2>2, <2>8, <4>2 DEF Promise!Next
    <3>2. CASE occurrences'[u] = occurrences[u]
      <4>1. occurrences' = [occurrences EXCEPT ![n] = s]
        BY <2>2, <2>4, <2>5, <3>2, OneOccurrence
      <4>2. Promise!Repeat(s, n)
        BY <1>1, <2>1, <2>3, <4>1 DEF Promise!Repeat, Promise!Take
      <4>. QED BY <1>1, <2>2, <2>8, <4>2 DEF Promise!Next
    <3>. QED BY <2>6, <3>1, <3>2
  <2>. QED BY <2>7, <2>8
<1>4. CASE w.spawn = NULL
  <2>1. rows' = AfterCommit(w) /\ fresh' = fresh
    BY <1>4 DEF CommitWork
  <2>2. \A t \in TaskIds \ {u} : occurrences'[t] = occurrences[t]
    BY <2>1, CommitOthers
  <2>3. occurrences' = [occurrences EXCEPT ![u] = occurrences'[u]]
    BY <1>1, <2>2, OneOccurrence
  <2>4. occurrences[u] \in {s, NULL} /\ occurrences'[u] \in {s, NULL}
    BY CommitTask
  <2>5. CASE EndsSeries(w) /\ s \in running
    <3>1. occurrences'[u] \in {occurrences[u], NULL} /\ running' = running \ {s}
      BY <2>5, CommitTask DEF CommitWork
    <3>2. CASE occurrences'[u] = occurrences[u]
      <4>1. occurrences' = occurrences
        BY <2>2, <3>2, SameOccurrences
      <4>2. Promise!End(s)
        BY <2>1, <2>5, <3>1, <4>1 DEF Promise!End
      <4>. QED BY <1>2, <2>5, <4>2 DEF Promise!Next
    <3>3. CASE occurrences'[u] # occurrences[u]
      <4>1. occurrences'[u] = NULL /\ occurrences[u] = s
        BY <2>4, <3>1, <3>3
      <4>2. Promise!End(s)
        BY <1>1, <2>1, <2>3, <2>5, <3>1, <4>1 DEF Promise!End
      <4>. QED BY <1>2, <2>5, <4>2 DEF Promise!Next
    <3>. QED BY <3>2, <3>3
  <2>6. CASE ~(EndsSeries(w) /\ s \in running)
    <3>1. running' = running
      BY <2>6 DEF CommitWork
    <3>2. CASE occurrences'[u] = occurrences[u]
      <4>1. occurrences' = occurrences
        BY <2>2, <3>2, SameOccurrences
      <4>. QED BY <2>1, <3>1, <4>1 DEF promised
    <3>3. CASE occurrences[u] = NULL /\ occurrences'[u] # NULL
      <4>1. occurrences' \in [TaskIds -> TaskIds \cup {NULL}]
        <5>1. occurrences \in [TaskIds -> TaskIds \cup {NULL}]
          BY OccurrencesType
        <5>. QED BY <1>1, <2>3, <2>4, <5>1
      <4>2. Promise!Resume
        BY <1>1, <2>1, <2>2, <2>4, <3>1, <3>3, <4>1 DEF Promise!Resume
      <4>. QED BY <4>2 DEF Promise!Next
    <3>4. CASE occurrences[u] # NULL /\ occurrences'[u] = NULL
      <4>1. occurrences[u] = s /\ s \notin running
        BY <1>4, <2>4, <2>6, <3>4, CommitTask
      <4>2. Promise!Leave(u)
        BY <1>1, <2>1, <2>3, <3>1, <3>4, <4>1 DEF Promise!Leave
      <4>. QED BY <1>1, <4>2 DEF Promise!Next
    <3>. QED BY <2>4, <3>2, <3>3, <3>4
  <2>. QED BY <2>5, <2>6
<1>. QED BY <1>3, <1>4

LEMMA RequestMaps ==
  ASSUME ServiceInv, UserStep
  PROVE  Promise!Next \/ UNCHANGED promised
<1>1. Core /\ session \in [Sessions -> Work \cup {NULL}]
  BY DEF ServiceInv, ServiceTypeOK, Core, TableTypeOK
<1>2. ASSUME NEW n \in TaskIds, CreateTask(n)
      PROVE  Promise!Next
  BY <1>1, <1>2, CreateMaps
<1>3. ASSUME NEW s \in Sessions, Commit(s)
      PROVE  Promise!Next \/ UNCHANGED promised
  <2>1. session[s] \in Work /\ GoodWork(session[s]) /\ CommitWork(session[s])
    BY <1>1, <1>3 DEF Commit, ServiceInv
  <2>. QED BY <1>1, <2>1, CommitMaps
<1>4. UserStep => \/ UNCHANGED <<rows, fresh, running>>
                  \/ \E n \in TaskIds : CreateTask(n)
                  \/ \E s \in Sessions : Commit(s)
  BY DEF UserStep, BeginComplete, BeginReopen, BeginSnooze, BeginUpdate, BeginDelete,
         BeginSkip, Load, Abort
<1>5. UNCHANGED <<rows, fresh, running>> => UNCHANGED promised
  BY DEF promised, occurrences, Live, IsActive
<1>. QED BY <1>2, <1>3, <1>4, <1>5

\* A snooze taken back after the task was completed makes it active again.
LEMMA RevertMaps ==
  ASSUME Inv, RevertExpired
  PROVE  Promise!Next
<1>1. Core /\ rows \in [TaskIds -> Row \cup {NULL}] /\ expired \subseteq TaskIds
  BY DEF Inv, TypeOK, ServiceInv, ServiceTypeOK, Core, TableTypeOK
<1>2. UNCHANGED <<fresh, running>> /\ \A t \in expired : Live(t)
  BY DEF RevertExpired
<1>3. ASSUME NEW t \in expired
      PROVE  /\ t \notin fresh
             /\ rows[t].series_id \in (TaskIds \cup {NULL}) \ fresh
             /\ occurrences[t] \in {rows[t].series_id, NULL}
             /\ occurrences'[t] = rows[t].series_id
  <2>1. t \in TaskIds /\ Live(t) /\ rows[t] \in Row
    BY <1>1, <1>2 DEF Live
  <2>2. rows'[t] = [rows[t] EXCEPT !.status = "pending", !.snoozed_until = NULL]
    BY <2>1 DEF RevertExpired
  <2>3. /\ rows'[t] \in Row /\ rows'[t].status = "pending"
        /\ rows'[t].series_id = rows[t].series_id
    BY <2>1, <2>2 DEF Row, Status
  <2>4. rows'[t] # NULL
    BY <2>3, RowConstants
  <2>. QED BY <1>1, <2>1, <2>3, <2>4, OccurrenceOf DEF Core, RowsGood, Active, Row
<1>4. ASSUME NEW t \in TaskIds \ expired
      PROVE  occurrences'[t] = occurrences[t]
  <2>1. rows'[t] = rows[t]
    BY DEF RevertExpired
  <2>. QED BY <2>1, OccurrenceOf DEF Live, IsActive
<1>5. occurrences' \in [TaskIds -> TaskIds \cup {NULL}]
  <2>1. \A t \in TaskIds : occurrences'[t] \in TaskIds \cup {NULL}
    BY <1>1, <1>3, <1>4, OccurrencesType
  <2>2. occurrences' = [t \in TaskIds |-> occurrences'[t]]
    BY DEF occurrences
  <2>. QED BY <2>1, <2>2
<1>6. Promise!Resume
  BY <1>2, <1>3, <1>4, <1>5 DEF Promise!Resume
<1>. QED BY <1>6 DEF Promise!Next

LEMMA PurgeMaps ==
  ASSUME PurgeOldCompleted
  PROVE  UNCHANGED promised
<1>1. ASSUME NEW t \in TaskIds
      PROVE  occurrences'[t] = occurrences[t]
  <2>1. rows'[t] = IF PastRetention(t) THEN NULL ELSE rows[t]
    BY DEF PurgeOldCompleted, PastRetention
  <2>2. PastRetention(t) => ~IsActive(rows[t])
    BY DEF PastRetention, IsActive, Active
  <2>. QED BY <2>1, <2>2, OccurrenceOf DEF Live, IsActive
<1>. QED BY <1>1, SameOccurrences DEF PurgeOldCompleted, promised

LEMMA StepMaps ==
  ASSUME Inv, [Next]_vars
  PROVE  Promise!Next \/ UNCHANGED promised
<1>0. ServiceInv /\ Core
  BY DEF Inv, ServiceInv, ServiceTypeOK, Core, TableTypeOK
<1>1. CASE Request
  BY <1>0, <1>1, RequestMaps DEF Request
<1>2. CASE RevertExpired
  BY <1>2, RevertMaps
<1>3. CASE PurgeOldCompleted
  BY <1>3, PurgeMaps
<1>4. CASE AdvanceSeries
  <2>1. AdvanceWork \in Work /\ GoodWork(AdvanceWork) /\ CommitWork(AdvanceWork)
    BY <1>4, AdvanceWorkGood DEF AdvanceSeries, Inv, RunShape
  <2>. QED BY <1>0, <2>1, CommitMaps
<1>5. UNCHANGED <<rows, fresh, running>> => UNCHANGED promised
  BY DEF promised, occurrences, Live, IsActive
<1>6. JobStep => UNCHANGED serviceVars \/ RevertExpired \/ AdvanceSeries
  BY DEF JobStep, ReadExpired, RevertStale, ReadDue, FinishRun, TakeTask, SkipChannel, Send,
         LogAttempt, LogViolatesForeignKey, LeaveOneOff, AdvanceFails, AbandonBatch
<1>7. Clock \/ Crash \/ ChangeChannels \/ UNCHANGED vars => UNCHANGED <<rows, fresh, running>>
  BY DEF Clock, Tick, Crash, ChangeChannels, vars, serviceVars
<1>. QED BY <1>1, <1>2, <1>3, <1>4, <1>5, <1>6, <1>7 DEF Next, serviceVars

LEMMA PromiseBegins == ServiceInit => Promise!Init
  BY DEF ServiceInit, Promise!Init, occurrences, Live

(***************************************************************************)
(* However requests overlap, fail or are lost, they keep what Series       *)
(* promises (create_task, complete_task, skip_task, delete_task,           *)
(* update_task).                                                           *)
(***************************************************************************)
THEOREM RequestsImplementSeries == ServiceSpec => ImplementsSeries
<1>1. ServiceInv /\ [ServiceNext]_serviceVars => [Promise!Next]_promised
  <2> SUFFICES ASSUME ServiceInv, [ServiceNext]_serviceVars
               PROVE  Promise!Next \/ UNCHANGED promised
    OBVIOUS
  <2>1. CASE UserStep
    BY <2>1, RequestMaps
  <2>2. CASE Tick \/ UNCHANGED serviceVars
    BY <2>2 DEF Tick, serviceVars, promised, occurrences, Live, IsActive
  <2>. QED BY <2>1, <2>2 DEF ServiceNext
<1>. QED
  BY <1>1, PromiseBegins, ServiceInvariance, PTL
     DEF ServiceSpec, ImplementsSeries, Promise!Spec, Promise!seriesVars, promised

(***************************************************************************)
(* And beside the jobs: whatever requests, job runs, crashes and failed    *)
(* sends interleave, an occurrence of a running series goes only with the  *)
(* step that brings its successor (_create_next_occurrence,                *)
(* _revert_expired_snoozes, purge_old_completed_tasks).                    *)
(***************************************************************************)
THEOREM SeriesImplemented == Spec => ImplementsSeries
<1>1. Init => Promise!Init
  BY PromiseBegins DEF Init
<1>2. Inv /\ [Next]_vars => [Promise!Next]_promised
  BY StepMaps
<1>. QED
  BY <1>1, <1>2, Invariance, PTL
     DEF Spec, ImplementsSeries, Promise!Spec, Promise!seriesVars, promised

\* What the promise alone keeps: an active occurrence has been given its id, and a
\* running series has one.
PromiseInv ==
  /\ running \subseteq TaskIds
  /\ \A t \in TaskIds : occurrences[t] # NULL => t \notin fresh
  /\ \A s \in running : \E t \in TaskIds : occurrences[t] = s

LEMMA PromiseStep ==
  ASSUME PromiseInv, Promise!Next
  PROVE  PromiseInv'
<1>1. DOMAIN occurrences = TaskIds /\ NULL \notin TaskIds
  BY RowConstants DEF occurrences
<1>2. ASSUME NEW s \in TaskIds, Promise!Start(s)
      PROVE  PromiseInv'
  <2>1. /\ s \in fresh /\ fresh' = fresh \ {s} /\ running' = running \cup {s}
        /\ occurrences'[s] = s /\ \A t \in TaskIds \ {s} : occurrences'[t] = occurrences[t]
    BY <1>1, <1>2 DEF Promise!Start, Promise!Take
  <2>. QED BY <1>1, <2>1 DEF PromiseInv
<1>3. ASSUME NEW n \in TaskIds, Promise!Single(n)
      PROVE  PromiseInv'
  <2>1. fresh' \subseteq fresh /\ running' = running /\ occurrences' = occurrences
    BY <1>3 DEF Promise!Single, Promise!Take
  <2>. QED BY <2>1 DEF PromiseInv
<1>4. ASSUME NEW s \in TaskIds, Promise!End(s)
      PROVE  PromiseInv'
  <2>1. /\ fresh' = fresh /\ running' = running \ {s}
        /\ \A t \in TaskIds : occurrences'[t] # occurrences[t] =>
             occurrences[t] = s /\ occurrences'[t] = NULL
    BY <1>1, <1>4 DEF Promise!End
  <2>. QED BY <1>1, <2>1 DEF PromiseInv
<1>5. ASSUME NEW u \in TaskIds, Promise!Leave(u)
      PROVE  PromiseInv'
  <2>1. /\ fresh' = fresh /\ running' = running /\ occurrences[u] \notin running
        /\ occurrences'[u] = NULL /\ \A t \in TaskIds \ {u} : occurrences'[t] = occurrences[t]
    BY <1>1, <1>5 DEF Promise!Leave
  <2>. QED BY <1>1, <2>1 DEF PromiseInv
<1>6. ASSUME NEW s \in TaskIds, NEW u \in TaskIds, NEW n \in TaskIds, Promise!Succeed(s, u, n)
      PROVE  PromiseInv'
  <2>1. /\ n \in fresh /\ fresh' = fresh \ {n} /\ running' = running
        /\ occurrences[u] = s /\ occurrences'[n] = s
        /\ \A t \in TaskIds \ {u, n} : occurrences'[t] = occurrences[t]
    BY <1>1, <1>6 DEF Promise!Succeed, Promise!Take
  <2>. QED BY <1>1, <2>1 DEF PromiseInv
<1>7. ASSUME Promise!Resume
      PROVE  PromiseInv'
  <2>1. /\ fresh' = fresh /\ running' = running
        /\ \A t \in TaskIds : occurrences'[t] # occurrences[t] =>
             t \notin fresh /\ occurrences[t] = NULL
    BY <1>7 DEF Promise!Resume
  <2>. QED BY <1>1, <2>1 DEF PromiseInv
<1>8. ASSUME NEW s \in TaskIds, NEW n \in TaskIds, Promise!Repeat(s, n)
      PROVE  PromiseInv'
  <2>1. /\ n \in fresh /\ fresh' = fresh \ {n} /\ running' = running
        /\ occurrences'[n] = s /\ \A t \in TaskIds \ {n} : occurrences'[t] = occurrences[t]
    BY <1>1, <1>8 DEF Promise!Repeat, Promise!Take
  <2>. QED BY <1>1, <2>1 DEF PromiseInv
<1>. QED BY <1>2, <1>3, <1>4, <1>5, <1>6, <1>7, <1>8 DEF Promise!Next

(***************************************************************************)
(* The promise says enough: of whatever implements Series a recurring task *)
(* never silently stops (build_next_occurrence).                           *)
(***************************************************************************)
THEOREM PromiseKeepsSeries == ImplementsSeries => []SeriesNeverStops
<1>1. Promise!Init => PromiseInv
  BY DEF Promise!Init, PromiseInv
<1>2. PromiseInv /\ [Promise!Next]_promised => PromiseInv'
  BY PromiseStep DEF promised, PromiseInv
<1>3. PromiseInv => SeriesNeverStops
  <2> SUFFICES ASSUME PromiseInv, NEW s \in running
               PROVE  \E t \in TaskIds : InSeries(t, s) /\ IsActive(rows[t])
    BY DEF SeriesNeverStops
  <2>1. PICK t \in TaskIds : occurrences[t] = s /\ s # NULL
    BY RowConstants DEF PromiseInv
  <2>. QED BY <2>1, OccurrenceOf DEF InSeries
<1>. QED
  BY <1>1, <1>2, <1>3, PTL
     DEF ImplementsSeries, Promise!Spec, Promise!seriesVars, promised

-----------------------------------------------------------------------------
\* A step that repeats a completion or brings occurrences back that were over.
Returns == Promise!Resume \/ \E s, n \in TaskIds : Promise!Repeat(s, n)

\* A series has one active occurrence at most.
OneActive ==
  \A t, u \in TaskIds :
    /\ InSeries(t, rows[u].series_id) /\ IsActive(rows[t])
    /\ Live(u) /\ rows[u].series_id # NULL /\ IsActive(rows[u])
    => t = u

OneInv ==
  /\ \A t \in TaskIds : occurrences[t] # NULL => t \notin fresh /\ occurrences[t] \notin fresh
  /\ \A t, u \in TaskIds : occurrences[t] # NULL /\ occurrences[t] = occurrences[u] => t = u

LEMMA OneStep ==
  ASSUME OneInv, Promise!Next, ~Returns
  PROVE  OneInv'
<1>1. DOMAIN occurrences = TaskIds /\ NULL \notin TaskIds
  BY RowConstants DEF occurrences
<1>2. ASSUME NEW s \in TaskIds, Promise!Start(s)
      PROVE  OneInv'
  <2>1. /\ s \in fresh /\ fresh' = fresh \ {s}
        /\ occurrences'[s] = s /\ \A t \in TaskIds \ {s} : occurrences'[t] = occurrences[t]
    BY <1>1, <1>2 DEF Promise!Start, Promise!Take
  <2>. QED BY <1>1, <2>1 DEF OneInv
<1>3. ASSUME NEW n \in TaskIds, Promise!Single(n)
      PROVE  OneInv'
  <2>1. fresh' \subseteq fresh /\ occurrences' = occurrences
    BY <1>3 DEF Promise!Single, Promise!Take
  <2>. QED BY <2>1 DEF OneInv
<1>4. ASSUME \E s \in TaskIds : Promise!End(s) \/ Promise!Leave(s)
      PROVE  OneInv'
  <2>1. /\ fresh' = fresh
        /\ \A t \in TaskIds : occurrences'[t] \in {occurrences[t], NULL}
    BY <1>1, <1>4 DEF Promise!End, Promise!Leave
  <2>. QED BY <2>1 DEF OneInv
<1>5. ASSUME NEW s \in TaskIds, NEW u \in TaskIds, NEW n \in TaskIds, Promise!Succeed(s, u, n)
      PROVE  OneInv'
  <2>1. /\ n \in fresh /\ fresh' = fresh \ {n} /\ s \notin fresh
        /\ occurrences[u] = s /\ occurrences'[n] = s /\ (u # n => occurrences'[u] = NULL)
        /\ \A t \in TaskIds \ {u, n} : occurrences'[t] = occurrences[t]
    BY <1>1, <1>5 DEF Promise!Succeed, Promise!Take
  <2>. QED BY <1>1, <2>1 DEF OneInv
<1>. QED BY <1>2, <1>3, <1>4, <1>5 DEF Promise!Next, Returns

(***************************************************************************)
(* Of whatever implements Series, a series has a second active occurrence  *)
(* only because an occurrence that is over was completed or skipped once   *)
(* more (complete_task has no guard on the status, a DELETE that matches   *)
(* nothing only warns, and the job works on rows it read before) or was    *)
(* brought back (reopen_task, snooze_task); however edits, deletions and   *)
(* the jobs overlap, nothing else adds one.                                *)
(***************************************************************************)
THEOREM OneActiveOccurrence ==
  ImplementsSeries /\ [][~Returns]_promised => []OneActive
<1>1. Promise!Init => OneInv
  BY DEF Promise!Init, OneInv
<1>2. OneInv /\ [Promise!Next]_promised /\ [~Returns]_promised => OneInv'
  <2> SUFFICES ASSUME OneInv, [Promise!Next]_promised, [~Returns]_promised
               PROVE  OneInv'
    OBVIOUS
  <2>1. CASE UNCHANGED promised
    BY <2>1 DEF promised, OneInv
  <2>. QED BY <2>1, OneStep
<1>3. OneInv => OneActive
  <2> SUFFICES ASSUME OneInv, NEW t \in TaskIds, NEW u \in TaskIds,
                      InSeries(t, rows[u].series_id), IsActive(rows[t]),
                      Live(u), rows[u].series_id # NULL, IsActive(rows[u])
               PROVE  t = u
    BY DEF OneActive
  <2>1. occurrences[t] = occurrences[u] /\ occurrences[u] # NULL
    BY OccurrenceOf DEF InSeries
  <2>. QED BY <2>1 DEF OneInv
<1>. QED
  BY <1>1, <1>2, <1>3, PTL
     DEF ImplementsSeries, Promise!Spec, Promise!seriesVars, promised

=============================================================================
