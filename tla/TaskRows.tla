------------------------------ MODULE TaskRows ------------------------------
(***************************************************************************)
(* The row of table `tasks` (backend/app/models/task.py) and what the      *)
(* functions of backend/app/services/task_service.py compute from it.      *)
(*                                                                         *)
(* A unit of work `w` is what an SQLAlchemy session carries from its SELECT *)
(* to its COMMIT: the row as loaded (w.old), the object as the handler left *)
(* it (w.new), a row to insert, a row to delete and, for a PATCH with      *)
(* scope=future, the fields a bulk UPDATE pushes to the siblings.  At      *)
(* commit only the attributes that differ from the loaded row are written. *)
(*                                                                         *)
(* Time is a count of instants, SlotsPerDay of them in a day; only their   *)
(* order and the day they fall on matter.                                  *)
(***************************************************************************)
EXTENDS Integers

CONSTANTS
  TaskIds,              \* the ids uuid4() may give to tasks
  NULL,                 \* an absent row, column or unit of work
  Templates,            \* contents of title, description, category, priority
  RepeatTypes,          \* members of enum RepeatType in use, "none" included
  MaxDay,               \* bound: due dates are the days 0..MaxDay
  SlotsPerDay,          \* bound: instants in a day
  MaxNow,               \* bound: the clock stops at this instant
  NextDueDate(_, _),    \* task_service.next_due_date (module Recurrence)
  NewTasks,             \* bodies of POST /tasks a client may send
  Patches               \* bodies of PATCH /tasks/{id} a client may send

Days     == 0..MaxDay
Times    == 0..(SlotsPerDay - 1)
Instants == 0..MaxNow
Later    == 0..(MaxNow + 1)   \* a snooze may end after the clock has stopped

Status == {"pending", "snoozed", "completed"}
Active == {"pending", "snoozed"}

Row == [status        : Status,
        due_date      : Days,
        due_time      : Times,
        repeat_type   : RepeatTypes,
        template      : Templates,
        snoozed_until : Later \cup {NULL},
        completed_at  : Instants \cup {NULL},
        series_id     : TaskIds \cup {NULL}]

PatchFields    == {"due_date", "due_time", "repeat_type", "template"}
TemplateFields == {"due_time", "repeat_type", "template"}

NewTask == [due_date    : Days,
            due_time    : Times,
            repeat_type : RepeatTypes,
            template    : Templates]

Patch == [fields      : SUBSET PatchFields,
          due_date    : Days,
          due_time    : Times,
          repeat_type : RepeatTypes,
          template    : Templates]

\* The constants name what they are meant to name; NULL is none of the values
\* a column, an id or a unit of work can have.
ASSUME RowConstants ==
  /\ MaxDay \in Nat /\ MaxNow \in Nat /\ SlotsPerDay \in Nat \ {0}
  /\ "none" \in RepeatTypes
  /\ NewTasks \subseteq NewTask
  /\ Patches \subseteq Patch
  /\ NULL \notin TaskIds /\ NULL \notin Row /\ NULL \notin Later

Work == [task   : TaskIds,
         old    : Row,
         new    : Row,
         stamp  : BOOLEAN,             \* completed_at was set to a fresh now()
         spawn  : Row \cup {NULL},     \* db.add(build_next_occurrence(task))
         delete : BOOLEAN,             \* db.delete(task)
         ripple : SUBSET TemplateFields]

Due(row)       == row.due_date * SlotsPerDay + row.due_time
DayOf(t)       == t \div SlotsPerDay
Recurring(row) == row.repeat_type # "none"
IsActive(row)  == row.status \in Active

\* Mutant: the copy forgets series_id.
NextOccurrenceWithoutSeries(row) ==
  [row EXCEPT !.status        = "pending",
              !.due_date      = NextDueDate(row.due_date, row.repeat_type),
              !.snoozed_until = NULL,
              !.completed_at  = NULL,
              !.series_id     = NULL]

(***************************************************************************)
(* A fresh PENDING copy, shifted to its next due date.                     *)
(***************************************************************************)
NextOccurrence(row) ==
  [row EXCEPT !.status        = "pending",
              !.due_date      = NextDueDate(row.due_date, row.repeat_type),
              !.snoozed_until = NULL,
              !.completed_at  = NULL]

\* Bound: a series does not run past the last day of the model.
WithinHorizon(row) ==
  Recurring(row) => NextDueDate(row.due_date, row.repeat_type) \in Days

Completed(row, now) ==
  [row EXCEPT !.status = "completed", !.snoozed_until = NULL, !.completed_at = now]

Reopened(row) ==
  [row EXCEPT !.status = "pending", !.snoozed_until = NULL, !.completed_at = NULL]

\* completed_at is left as it is.
Snoozed(row, until) ==
  [row EXCEPT !.status = "snoozed", !.snoozed_until = until]

\* The scheduler's version of completion: snoozed_until is left as it is.
AutoCompleted(row, now) ==
  [row EXCEPT !.status = "completed", !.completed_at = now]

Patched(row, p) ==
  [row EXCEPT
     !.due_date    = IF "due_date"    \in p.fields THEN p.due_date    ELSE @,
     !.due_time    = IF "due_time"    \in p.fields THEN p.due_time    ELSE @,
     !.repeat_type = IF "repeat_type" \in p.fields THEN p.repeat_type ELSE @,
     !.template    = IF "template"    \in p.fields THEN p.template    ELSE @]

(***************************************************************************)
(* What the flush of unit of work w makes of the row as it is now: a       *)
(* column is written when the handler changed it from what it had loaded,  *)
(* and keeps whatever others committed meanwhile when it did not.          *)
(***************************************************************************)
Net(old, new, current) == IF new = old THEN current ELSE new

Flushed(row, w) ==
  [status        |-> Net(w.old.status, w.new.status, row.status),
   due_date      |-> Net(w.old.due_date, w.new.due_date, row.due_date),
   due_time      |-> Net(w.old.due_time, w.new.due_time, row.due_time),
   repeat_type   |-> Net(w.old.repeat_type, w.new.repeat_type, row.repeat_type),
   template      |-> Net(w.old.template, w.new.template, row.template),
   snoozed_until |-> Net(w.old.snoozed_until, w.new.snoozed_until, row.snoozed_until),
   completed_at  |-> IF w.stamp THEN w.new.completed_at
                     ELSE Net(w.old.completed_at, w.new.completed_at, row.completed_at),
   series_id     |-> row.series_id]

\* An UPDATE is issued only if some column is to be written; it raises
\* StaleDataError when the row is gone.
Writes(w) == w.stamp \/ w.new # w.old

\* Mutant: the bulk UPDATE does not leave completed occurrences out.
IsFutureSiblingOfAnyStatus(row, w) ==
  /\ row.series_id = w.old.series_id
  /\ row.due_date >= w.new.due_date

\* The siblings the bulk UPDATE of scope=future matches, and what it sets.
IsFutureSibling(row, w) ==
  /\ row.series_id = w.old.series_id
  /\ row.due_date >= w.new.due_date
  /\ row.status # "completed"

Rippled(row, w) ==
  [row EXCEPT
     !.due_time    = IF "due_time"    \in w.ripple THEN w.new.due_time    ELSE @,
     !.repeat_type = IF "repeat_type" \in w.ripple THEN w.new.repeat_type ELSE @,
     !.template    = IF "template"    \in w.ripple THEN w.new.template    ELSE @]

=============================================================================
