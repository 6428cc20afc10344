---------------------------- MODULE TaskService ----------------------------
(***************************************************************************)
(* The operations of backend/app/services/task_service.py as the API and   *)
(* the Telegram bot run them: concurrently, each in a database session of  *)
(* its own.  An operation is two steps with an await between them: the     *)
(* SELECT and the computation that follows it (Begin...), then the COMMIT, *)
(* which may find that the row has changed or is gone.                     *)
(*                                                                         *)
(* The rows are those of one user; the ownership filter of get_task only   *)
(* makes the rows of others look absent.                                   *)
(***************************************************************************)
EXTENDS TaskRows

CONSTANT Sessions       \* database sessions that may be open at once

VARIABLES
  rows,                 \* table tasks: the row of each id, NULL if absent
  fresh,                \* ids not given out yet
  session,              \* the unit of work each session holds, or NULL
  now,                  \* the clock
  running               \* history: series created and not ended by the user

serviceVars == <<rows, fresh, session, now, running>>

Live(t)        == rows[t] # NULL
InSeries(t, s) == Live(t) /\ rows[t].series_id = s

ServiceTypeOK ==
  /\ rows \in [TaskIds -> Row \cup {NULL}]
  /\ fresh \subseteq TaskIds
  /\ session \in [Sessions -> Work \cup {NULL}]
  /\ now \in Instants
  /\ running \subseteq TaskIds

ServiceInit ==
  /\ rows = [t \in TaskIds |-> NULL]
  /\ fresh = TaskIds
  /\ session = [s \in Sessions |-> NULL]
  /\ now = 0
  /\ running = {}

-----------------------------------------------------------------------------
(***************************************************************************)
(* create_task: one INSERT.  A recurring task starts a series that carries *)
(* the task's own id.                                                      *)
(***************************************************************************)
NewRow(n, body) ==
  [status |-> "pending", due_date |-> body.due_date, due_time |-> body.due_time,
   repeat_type |-> body.repeat_type, template |-> body.template,
   snoozed_until |-> NULL, completed_at |-> NULL,
   series_id |-> IF body.repeat_type # "none" THEN n ELSE NULL]

CreateTask(n) ==
  /\ n \in fresh
  /\ \E body \in NewTasks :
       /\ rows' = [rows EXCEPT ![n] = NewRow(n, body)]
       /\ running' = IF body.repeat_type # "none" THEN running \cup {n} ELSE running
  /\ fresh' = fresh \ {n}
  /\ UNCHANGED <<session, now>>

(***************************************************************************)
(* get_task and what the handler computes before its COMMIT.  A task that  *)
(* is not found is answered 404 without a transaction.                     *)
(***************************************************************************)
Load(s, work) ==
  /\ session[s] = NULL
  /\ session' = [session EXCEPT ![s] = work]
  /\ UNCHANGED <<rows, fresh, now, running>>

Edit(t, new, stamp, spawn) ==
  [task |-> t, old |-> rows[t], new |-> new, stamp |-> stamp,
   spawn |-> spawn, delete |-> FALSE, ripple |-> {}]

Removal(t, spawn) ==
  [task |-> t, old |-> rows[t], new |-> rows[t], stamp |-> FALSE,
   spawn |-> spawn, delete |-> TRUE, ripple |-> {}]

\* scope=future matters only for a row that has a series.
Update(t, p, scope) ==
  [task |-> t, old |-> rows[t], new |-> Patched(rows[t], p), stamp |-> FALSE,
   spawn |-> NULL, delete |-> FALSE,
   ripple |-> IF scope = "future" /\ rows[t].series_id # NULL
              THEN p.fields \cap TemplateFields ELSE {}]

\* Mutant: only a pending task gets a successor, a snoozed one does not.
BeginCompletePendingOnly(s, t) ==
  /\ Live(t)
  /\ WithinHorizon(rows[t])
  /\ Load(s, Edit(t, Completed(rows[t], now), TRUE,
                  IF Recurring(rows[t]) /\ rows[t].status = "pending"
                  THEN NextOccurrence(rows[t]) ELSE NULL))

\* complete_task has no guard on the status the task already has.
BeginComplete(s, t) ==
  /\ Live(t)
  /\ WithinHorizon(rows[t])
  /\ Load(s, Edit(t, Completed(rows[t], now), TRUE,
                  IF Recurring(rows[t]) THEN NextOccurrence(rows[t]) ELSE NULL))

BeginReopen(s, t) ==
  /\ Live(t)
  /\ Load(s, Edit(t, Reopened(rows[t]), FALSE, NULL))

\* snooze_task: "tomorrow" keeps the task's time of day, the other presets and
\* a custom time (refused unless it is in the future) end at some later instant.
SnoozeEnds(row) ==
  {u \in Later : u > now} \cup
    ({(DayOf(now) + 1) * SlotsPerDay + row.due_time} \cap Later)

BeginSnooze(s, t) ==
  /\ Live(t)
  /\ \E until \in SnoozeEnds(rows[t]) :
       Load(s, Edit(t, Snoozed(rows[t], until), FALSE, NULL))

\* update_task.
BeginUpdate(s, t) ==
  /\ Live(t)
  /\ \E p \in Patches, scope \in {"this", "future"} : Load(s, Update(t, p, scope))

BeginDelete(s, t) ==
  /\ Live(t)
  /\ Load(s, Removal(t, NULL))

\* skip_task refuses a task that does not recur.
BeginSkip(s, t) ==
  /\ Live(t)
  /\ Recurring(rows[t])
  /\ WithinHorizon(rows[t])
  /\ Load(s, Removal(t, NextOccurrence(rows[t])))

-----------------------------------------------------------------------------
(***************************************************************************)
(* COMMIT.                                                                 *)
(***************************************************************************)
\* The row of the task and its siblings after the transaction of w.
AfterCommit(w) ==
  [t \in TaskIds |->
     IF t = w.task
       THEN IF w.delete \/ ~Live(t) THEN NULL ELSE Flushed(rows[t], w)
     ELSE IF w.ripple # {} /\ Live(t) /\ IsFutureSibling(rows[t], w)
       THEN Rippled(rows[t], w)
     ELSE rows[t]]

\* The user ends a series by deleting an occurrence that is still active, or by
\* turning its repetition off.
EndsSeries(w) ==
  \/ w.delete /\ w.spawn = NULL /\ Live(w.task) /\ IsActive(rows[w.task])
  \/ w.old.repeat_type # "none" /\ w.new.repeat_type = "none"
  \/ "repeat_type" \in w.ripple /\ w.new.repeat_type = "none"

\* An UPDATE of a row that is gone matches nothing: StaleDataError, and the whole
\* transaction is rolled back.  A DELETE that matches nothing only warns.
IsStale(w) == ~Live(w.task) /\ ~w.delete /\ Writes(w)

CommitWork(w) ==
  /\ ~IsStale(w)
  /\ running' = IF EndsSeries(w) THEN running \ {w.old.series_id} ELSE running
  /\ IF w.spawn = NULL
       THEN /\ rows' = AfterCommit(w)
            /\ fresh' = fresh
       ELSE \E n \in fresh :
              /\ rows' = [AfterCommit(w) EXCEPT ![n] = w.spawn]
              /\ fresh' = fresh \ {n}

Commit(s) ==
  /\ session[s] # NULL
  /\ CommitWork(session[s])
  /\ session' = [session EXCEPT ![s] = NULL]
  /\ UNCHANGED now

\* The work is lost: StaleDataError, a dropped connection, the process killed
\* between the SELECT and the COMMIT.
Abort(s) ==
  /\ session[s] # NULL
  /\ session' = [session EXCEPT ![s] = NULL]
  /\ UNCHANGED <<rows, fresh, now, running>>

Tick ==
  /\ now < MaxNow
  /\ now' = now + 1
  /\ UNCHANGED <<rows, fresh, session, running>>

UserStep ==
  \/ \E n \in TaskIds : CreateTask(n)
  \/ \E s \in Sessions, t \in TaskIds :
       \/ BeginComplete(s, t)
       \/ BeginReopen(s, t)
       \/ BeginSnooze(s, t)
       \/ BeginUpdate(s, t)
       \/ BeginDelete(s, t)
       \/ BeginSkip(s, t)
  \/ \E s \in Sessions : Commit(s) \/ Abort(s)

ServiceNext == UserStep \/ Tick

ServiceSpec == ServiceInit /\ [][ServiceNext]_serviceVars

-----------------------------------------------------------------------------
(***************************************************************************)
(* A recurring task never silently stops: whatever requests overlap, fail  *)
(* or find their row changed, a series the user has neither deleted nor    *)
(* turned off has an occurrence that will still be reminded of             *)
(* (build_next_occurrence: "the series never silently stops").             *)
(***************************************************************************)
SeriesNeverStops ==
  \A s \in running : \E t \in TaskIds : InSeries(t, s) /\ IsActive(rows[t])

\* The series of each active occurrence.
occurrences ==
  [t \in TaskIds |-> IF Live(t) /\ IsActive(rows[t]) THEN rows[t].series_id ELSE NULL]

Promise == INSTANCE Series WITH Ids <- TaskIds, unused <- fresh, of <- occurrences

(***************************************************************************)
(* The steps behind it: whatever overlaps, every step of the program is a  *)
(* step of Series or none (build_next_occurrence, complete_task,           *)
(* skip_task, delete_task).                                                *)
(***************************************************************************)
ImplementsSeries == Promise!Spec

(***************************************************************************)
(* Completed history is never rewritten behind the user's back: the        *)
(* content of a row that is and stays completed changes only by a PATCH of *)
(* that very row, never by "this and all future occurrences" of another    *)
(* (update_task).                                                          *)
(***************************************************************************)
CompletedHistoryStands ==
  [][\A t \in TaskIds :
       /\ Live(t) /\ rows[t].status = "completed"
       /\ rows'[t] # NULL /\ rows'[t].status = "completed"
       /\ rows'[t].template # rows[t].template
       => \E s \in Sessions : session[s] # NULL /\ session[s].task = t]_serviceVars

-----------------------------------------------------------------------------
(***************************************************************************)
(* Why it holds.  Ids and series are never reused, every row of a running  *)
(* series recurs, and whatever a database session has read of a row is     *)
(* still true of its series, and of its recurrence while the series runs.  *)
(* So a unit of work that completes or skips an occurrence of a running    *)
(* series carries the row that succeeds it; and none both changes the      *)
(* status of a row and turns its repetition off.                           *)
(***************************************************************************)
RowsGood ==
  /\ \A t \in fresh : ~Live(t)
  /\ \A t \in TaskIds : Live(t) =>
       /\ rows[t].series_id \notin fresh
       /\ rows[t].series_id \in running => Recurring(rows[t])

GoodRead(t, row) ==
  /\ t \notin fresh /\ row.series_id \notin fresh
  /\ Live(t) => rows[t].series_id = row.series_id
  /\ row.series_id \in running => Recurring(row)

GoodWork(w) ==
  /\ GoodRead(w.task, w.old)
  /\ w.spawn # NULL => /\ w.spawn.series_id = w.old.series_id
                       /\ w.spawn.status = "pending"
                       /\ Recurring(w.spawn) /\ Recurring(w.old)
  /\ w.new.status = "completed" /\ w.old.status # "completed" =>
       w.spawn # NULL \/ ~Recurring(w.old)
  /\ w.spawn # NULL => w.delete \/ w.new.status = "completed"
  /\ w.spawn # NULL \/ w.delete \/ w.new.status # w.old.status =>
       w.new.repeat_type = w.old.repeat_type /\ w.ripple = {}

ServiceInv ==
  /\ ServiceTypeOK
  /\ RowsGood
  /\ \A s \in Sessions : session[s] # NULL => GoodWork(session[s])
  /\ SeriesNeverStops

=============================================================================
