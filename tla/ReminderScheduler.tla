------------------------- MODULE ReminderScheduler -------------------------
(***************************************************************************)
(* The reminder and retention jobs of backend/app/core/scheduler.py and    *)
(* notification_service.send_task_reminder, running beside the requests of *)
(* module TaskService on the same table.                                   *)
(*                                                                         *)
(* One run of _reminder_job reads the expired snoozes, then all due tasks  *)
(* with their user, and works through that list, awaiting the network and  *)
(* the database for every task while requests go on.  APScheduler starts   *)
(* no second run before the first has ended (max_instances=1).             *)
(***************************************************************************)
EXTENDS TaskService

CONSTANTS
  QuietHours,           \* [start, end] of the user's quiet hours, or NULL
  Linkable,             \* the channels the user may have
  RetentionSlots,       \* completed_task_retention_days, in instants
  MaxFaults             \* bound: crashes, refused sends and lost answers

VARIABLES
  phase,                \* where the run of the job is
  expired,              \* ids of the expired snoozes it has read
  batch,                \* the due rows it has read and not handled yet
  readAt,               \* now_naive of this run
  current,              \* the task being handled
  reachable,            \* the user's channels, as read with the batch
  sending,              \* the attempt to be logged: channel and status
  log,                  \* table notifications_log: SENT entries
  channels,             \* channels the user has now
  delivered,            \* history: messages the user received
  faults                \* history: faults so far

tickVars == <<phase, expired, batch, readAt, current, reachable, sending>>
noteVars == <<channels, delivered, faults>>
vars     == <<serviceVars, tickVars, log, noteVars>>

Channel   == {"telegram", "web_push"}
ClockDays == 0..DayOf(MaxNow)
Phase     == {"idle", "revert", "select", "batch", "log", "spawn"} \cup Channel

ASSUME SchedulerConstants ==
  /\ Linkable \subseteq Channel
  /\ RetentionSlots \in Nat /\ MaxFaults \in Nat
  /\ QuietHours \in [start : Times, end : Times] \cup {NULL}
  /\ NULL \notin [task : TaskIds, row : Row]
  /\ NULL \notin [channel : Channel, sent : BOOLEAN]

NoBatch   == [t \in TaskIds |-> NULL]
Pending   == {t \in TaskIds : batch[t] # NULL}   \* the rest of the batch
DueNow(t) == Live(t) /\ rows[t].status = "pending" /\ Due(rows[t]) <= now

TypeOK ==
  /\ ServiceTypeOK
  /\ phase \in Phase
  /\ expired \subseteq TaskIds
  /\ batch \in [TaskIds -> Row \cup {NULL}]
  /\ readAt \in Instants
  /\ current \in [task : TaskIds, row : Row] \cup {NULL}
  /\ reachable \subseteq Channel
  /\ sending \in [channel : Channel, sent : BOOLEAN] \cup {NULL}
  /\ log \subseteq TaskIds \X Channel \X ClockDays
  /\ channels \subseteq Channel
  /\ delivered \in [TaskIds \X Channel \X ClockDays -> Nat]
  /\ faults \in Nat

Init ==
  /\ ServiceInit
  /\ phase = "idle" /\ expired = {} /\ batch = NoBatch /\ readAt = 0
  /\ current = NULL /\ reachable = {} /\ sending = NULL
  /\ log = {} /\ channels \in SUBSET Linkable
  /\ delivered = [e \in TaskIds \X Channel \X ClockDays |-> 0]
  /\ faults = 0

-----------------------------------------------------------------------------
(***************************************************************************)
(* Helpers.                                                                *)
(***************************************************************************)
\* _in_quiet_hours; a window with start > end wraps midnight.
InQuietHours(t) ==
  LET slot == t % SlotsPerDay IN
  /\ QuietHours # NULL
  /\ IF QuietHours.start <= QuietHours.end
       THEN QuietHours.start <= slot /\ slot < QuietHours.end
       ELSE slot >= QuietHours.start \/ slot < QuietHours.end

AlreadySentToday(t, c) == <<t, c, DayOf(now)>> \in log

\* notifications_log.task_id is ON DELETE CASCADE.
Cascade == log' = {e \in log : rows'[e[1]] # NULL}

\* The run is over: the job returns, or an exception reaches _reminder_job and
\* the rest of the batch is dropped with the database session.
EndRun ==
  /\ phase' = "idle" /\ expired' = {} /\ batch' = NoBatch /\ current' = NULL
  /\ reachable' = {} /\ sending' = NULL
  /\ UNCHANGED readAt

\* A flush that fails leaves the session unusable and its objects expired, so
\* the handler's own `task.id` raises: a failure inside the loop ends the run.
AbandonBatch ==
  /\ EndRun
  /\ UNCHANGED <<serviceVars, log, noteVars>>

GoTo(p) == phase' = p /\ UNCHANGED <<expired, batch, readAt, reachable>>

-----------------------------------------------------------------------------
(***************************************************************************)
(* _revert_expired_snoozes.                                                *)
(***************************************************************************)
ReadExpired ==
  /\ phase = "idle"
  /\ expired' = {t \in TaskIds : /\ Live(t) /\ rows[t].status = "snoozed"
                                 /\ rows[t].snoozed_until # NULL
                                 /\ rows[t].snoozed_until <= now}
  /\ phase' = IF expired' = {} THEN "select" ELSE "revert"
  /\ UNCHANGED <<serviceVars, batch, readAt, current, reachable, sending, log, noteVars>>

\* Mutant: the end of the snooze is cleared and the status is left alone.
RevertEndOnly ==
  /\ phase = "revert"
  /\ \A t \in expired : Live(t)
  /\ rows' = [t \in TaskIds |-> IF t \in expired
                               THEN [rows[t] EXCEPT !.snoozed_until = NULL]
                               ELSE rows[t]]
  /\ phase' = "select"
  /\ expired' = {}
  /\ UNCHANGED <<fresh, session, now, running, batch, readAt, current, reachable,
                 sending, log, noteVars>>

\* Both columns differ from what was read, so both are written, whatever the
\* rows hold by now; one row gone fails the whole transaction.
RevertExpired ==
  /\ phase = "revert"
  /\ \A t \in expired : Live(t)
  /\ rows' = [t \in TaskIds |->
                IF t \in expired
                THEN [rows[t] EXCEPT !.status = "pending", !.snoozed_until = NULL]
                ELSE rows[t]]
  /\ phase' = "select"
  /\ expired' = {}
  /\ UNCHANGED <<fresh, session, now, running, batch, readAt, current, reachable,
                 sending, log, noteVars>>

RevertStale ==
  /\ phase = "revert"
  /\ \E t \in expired : ~Live(t)
  /\ AbandonBatch

(***************************************************************************)
(* _process_due_tasks.                                                     *)
(***************************************************************************)
ReadDue ==
  /\ phase = "select"
  /\ batch' = [t \in TaskIds |-> IF DueNow(t) THEN rows[t] ELSE NULL]
  /\ readAt' = now
  /\ reachable' = channels
  /\ phase' = "batch"
  /\ UNCHANGED <<serviceVars, expired, current, sending, log, noteVars>>

\* Quiet hours: the task is left as it is.
TakeTask(t) ==
  /\ phase = "batch"
  /\ batch[t] # NULL
  /\ batch' = [batch EXCEPT ![t] = NULL]
  /\ IF InQuietHours(readAt)
       THEN UNCHANGED <<phase, current>>
       ELSE phase' = "telegram" /\ current' = [task |-> t, row |-> batch[t]]
  /\ UNCHANGED <<serviceVars, expired, readAt, reachable, sending, log, noteVars>>

FinishRun ==
  /\ phase = "batch"
  /\ Pending = {}
  /\ AbandonBatch

(***************************************************************************)
(* send_task_reminder: each channel in turn, sent and then logged.         *)
(***************************************************************************)
After(c) == IF c = "telegram" THEN "web_push" ELSE "spawn"

SkipChannel(c) ==
  /\ phase = c
  /\ c \notin reachable \/ AlreadySentToday(current.task, c)
  /\ GoTo(After(c))
  /\ UNCHANGED <<serviceVars, current, sending, log, noteVars>>

Fault == faults < MaxFaults /\ faults' = faults + 1

Deliver(c) ==
  delivered' = [delivered EXCEPT ![<<current.task, c, DayOf(now)>>] = @ + 1]

\* The message arrives; it is refused; it arrives but the answer is lost, which
\* the code takes for a failure; the push service answers 404 or 410 and the
\* subscription is deleted.
Send(c) ==
  /\ phase = c
  /\ c \in reachable /\ ~AlreadySentToday(current.task, c)
  /\ GoTo("log")
  /\ \E sent \in BOOLEAN :
       /\ sending' = [channel |-> c, sent |-> sent]
       /\ \/ sent /\ Deliver(c) /\ UNCHANGED <<channels, faults>>
          \/ ~sent /\ Fault /\ UNCHANGED <<channels, delivered>>
          \/ ~sent /\ Fault /\ Deliver(c) /\ UNCHANGED channels
          \/ /\ ~sent /\ c = "web_push"
             /\ channels' = channels \ {c}
             /\ UNCHANGED <<delivered, faults>>
  /\ UNCHANGED <<serviceVars, current, log>>

\* Mutant: every attempt is logged as SENT.
LogAttemptAsSent ==
  /\ phase = "log"
  /\ Live(current.task)
  /\ log' = log \cup {<<current.task, sending.channel, DayOf(now)>>}
  /\ GoTo(After(sending.channel))
  /\ sending' = NULL
  /\ UNCHANGED <<serviceVars, current, noteVars>>

\* Mutant: the entry is added and never committed.
LogAttemptUncommitted ==
  /\ phase = "log"
  /\ Live(current.task)
  /\ GoTo(After(sending.channel))
  /\ sending' = NULL
  /\ UNCHANGED <<serviceVars, current, log, noteVars>>

\* _log_notification; the entry refers to the task.
LogAttempt ==
  /\ phase = "log"
  /\ Live(current.task)
  /\ log' = IF sending.sent
            THEN log \cup {<<current.task, sending.channel, DayOf(now)>>} ELSE log
  /\ GoTo(After(sending.channel))
  /\ sending' = NULL
  /\ UNCHANGED <<serviceVars, current, noteVars>>

LogViolatesForeignKey ==
  /\ phase = "log"
  /\ ~Live(current.task)
  /\ AbandonBatch

(***************************************************************************)
(* _create_next_occurrence, built from the row as it was read.             *)
(***************************************************************************)
\* Mutant: the occurrence is completed and its successor forgotten.
AdvanceWithoutSuccessor ==
  [task |-> current.task, old |-> current.row, new |-> AutoCompleted(current.row, now),
   stamp |-> TRUE, spawn |-> NULL, delete |-> FALSE, ripple |-> {}]

AdvanceWork ==
  [task |-> current.task, old |-> current.row, new |-> AutoCompleted(current.row, now),
   stamp |-> TRUE, spawn |-> NextOccurrence(current.row), delete |-> FALSE, ripple |-> {}]

LeaveOneOff ==
  /\ phase = "spawn"
  /\ ~Recurring(current.row)
  /\ GoTo("batch") /\ current' = NULL
  /\ UNCHANGED <<serviceVars, sending, log, noteVars>>

AdvanceSeries ==
  /\ phase = "spawn"
  /\ Recurring(current.row)
  /\ WithinHorizon(current.row)
  /\ CommitWork(AdvanceWork)
  /\ GoTo("batch") /\ current' = NULL
  /\ UNCHANGED <<session, now, sending, log, noteVars>>

\* StaleDataError; or, at the bounds of the model, a successor it has no id or
\* day for.
AdvanceFails ==
  /\ phase = "spawn"
  /\ Recurring(current.row)
  /\ \/ ~Live(current.task)
     \/ fresh = {}
     \/ ~WithinHorizon(current.row)
  /\ AbandonBatch

-----------------------------------------------------------------------------
\* Mutant: whatever was completed long ago, reopened or snoozed since or not.
CompletedLongAgo(t) ==
  /\ Live(t)
  /\ rows[t].completed_at # NULL
  /\ rows[t].completed_at < now - RetentionSlots

\* purge_old_completed_tasks; disabled by a retention of zero.
PastRetention(t) ==
  /\ Live(t) /\ rows[t].status = "completed"
  /\ rows[t].completed_at # NULL
  /\ rows[t].completed_at < now - RetentionSlots

PurgeOldCompleted ==
  /\ RetentionSlots > 0
  /\ \E t \in TaskIds : PastRetention(t)
  /\ rows' = [t \in TaskIds |-> IF PastRetention(t) THEN NULL ELSE rows[t]]
  /\ Cascade
  /\ UNCHANGED <<fresh, session, now, running, tickVars, noteVars>>

\* The backend process dies and is started again; requests it was serving are
\* lost too (TaskService!Abort).
Crash ==
  /\ phase # "idle"
  /\ Fault
  /\ EndRun
  /\ UNCHANGED <<serviceVars, log, channels, delivered>>

\* The user links or unlinks Telegram, adds or removes a push subscription.
ChangeChannels ==
  /\ \E c \in Linkable :
       channels' = IF c \in channels THEN channels \ {c} ELSE channels \cup {c}
  /\ UNCHANGED <<serviceVars, tickVars, log, delivered, faults>>

Request == UserStep /\ Cascade /\ UNCHANGED <<tickVars, noteVars>>
Clock   == Tick /\ UNCHANGED <<tickVars, log, noteVars>>

JobStep ==
  \/ ReadExpired \/ RevertExpired \/ RevertStale
  \/ ReadDue \/ FinishRun
  \/ \E t \in TaskIds : TakeTask(t)
  \/ \E c \in Channel : SkipChannel(c) \/ Send(c)
  \/ LogAttempt \/ LogViolatesForeignKey
  \/ LeaveOneOff \/ AdvanceSeries \/ AdvanceFails

Next ==
  \/ Request \/ Clock \/ JobStep
  \/ PurgeOldCompleted \/ Crash \/ ChangeChannels

Spec == Init /\ [][Next]_vars

\* The event loop keeps running the job APScheduler has started and starts it
\* again every 60 seconds; time passes.  Users owe nothing.
FairSpec == Spec /\ WF_vars(JobStep) /\ WF_vars(Clock)

-----------------------------------------------------------------------------
(***************************************************************************)
(* As long as a task exists its user gets at most one message per channel  *)
(* and day about it, however often the job runs (_already_sent_today); a   *)
(* crash between a send and its log entry, or a lost answer, may cost one  *)
(* more, and nothing else may.                                             *)
(***************************************************************************)
AtMostOncePerDay ==
  \A t \in TaskIds : Live(t) =>
    \A c \in Channel, d \in ClockDays : delivered[<<t, c, d>>] <= 1 + faults

(***************************************************************************)
(* The background jobs never make an occurrence that is still active       *)
(* disappear: the retention job deletes only what is completed, even a row *)
(* whose completed_at is old but which was snoozed or reopened since.      *)
(***************************************************************************)
JobsSpareActive ==
  [][JobStep \/ PurgeOldCompleted =>
       \A t \in TaskIds : Live(t) /\ IsActive(rows[t]) => rows'[t] # NULL]_vars

(***************************************************************************)
(* An expired snooze is taken back: a task does not stay snoozed past the  *)
(* end of its snooze (_revert_expired_snoozes), unless it is snoozed on.   *)
(***************************************************************************)
IsSnoozed(t) == /\ Live(t) /\ rows[t].status = "snoozed"
                /\ rows[t].snoozed_until # MaxNow + 1   \* after the clock stops

SnoozeExpires == \A t \in TaskIds : IsSnoozed(t) ~> ~IsSnoozed(t)

(***************************************************************************)
(* A one-off task that is due is reminded of on every channel the user     *)
(* has, though sends fail, runs are abandoned and quiet hours come first:  *)
(* it stays PENDING and every run tries again until the message is out.    *)
(***************************************************************************)
AwaitsReminder(t, c) ==
  /\ DueNow(t) /\ ~Recurring(rows[t]) /\ c \in channels
  /\ \A d \in ClockDays : delivered[<<t, c, d>>] = 0

DueTaskReminded ==
  \A t \in TaskIds, c \in Channel : AwaitsReminder(t, c) ~> ~AwaitsReminder(t, c)

(***************************************************************************)
(* A task that is snoozed has an end of its snooze, without which no run   *)
(* would ever take it back (snooze_task, _revert_expired_snoozes).  Two    *)
(* requests that overlap on one task break it: each writes only the        *)
(* columns that differ from what it read.  No job does.                    *)
(***************************************************************************)
SnoozedHasEnd ==
  \A t \in TaskIds : Live(t) /\ rows[t].status = "snoozed" => rows[t].snoozed_until # NULL

OneRequestPerTask ==
  \A r, s \in Sessions :
    session[r] # NULL /\ session[s] # NULL /\ session[r].task = session[s].task => r = s

(***************************************************************************)
(* The scheduler advances a task only while it is still pending            *)
(* (task_service.complete_task: it "only ever advances a task that is      *)
(* still PENDING at its due time").  The code does not keep this: the row  *)
(* was read before the message was sent, and is not read again.            *)
(***************************************************************************)
AdvancesOnlyPending ==
  [][AdvanceSeries => rows[current.task].status = "pending"]_vars

-----------------------------------------------------------------------------
(***************************************************************************)
(* The inductive invariant behind SeriesNeverStops: what a run has read is *)
(* as good as what a request has read.                                     *)
(***************************************************************************)
\* A task is at hand exactly in the phases that handle one, and an attempt
\* exactly in the phase that logs it.
RunShape ==
  /\ (current # NULL) = (phase \in Channel \cup {"log", "spawn"})
  /\ (sending # NULL) = (phase = "log")

Inv ==
  /\ TypeOK
  /\ ServiceInv
  /\ RunShape
  /\ \A t \in TaskIds : batch[t] # NULL => GoodRead(t, batch[t])
  /\ current # NULL => GoodRead(current.task, current.row)

(***************************************************************************)
(* The inductive invariant behind AtMostOncePerDay: a message that no      *)
(* fault accounts for is in the log, or is the one about to be logged, or  *)
(* is of a day that is over.  (A message sent before midnight and logged   *)
(* after it is logged under the wrong day, but its day is then over.)      *)
(***************************************************************************)
Attempted(t, c) ==
  /\ sending # NULL /\ sending.sent /\ sending.channel = c
  /\ current.task = t

Accounted(t, c, d) ==
  \/ d < DayOf(now)
  \/ <<t, c, d>> \in log
  \/ d = DayOf(now) /\ Attempted(t, c)

DedupeInv ==
  \A t \in TaskIds, c \in Channel, d \in ClockDays :
    /\ t \in fresh => delivered[<<t, c, d>>] = 0
    /\ Live(t) => \/ delivered[<<t, c, d>>] <= faults
                  \/ delivered[<<t, c, d>>] = faults + 1 /\ Accounted(t, c, d)

(***************************************************************************)
(* The inductive invariant behind SnoozedHasEnd.  A request sets status    *)
(* and end of the snooze together or neither.  What the jobs may have      *)
(* changed since it read them is harmless: the status is "snoozed" only if *)
(* it was, with the same end, and the end was taken back only if the task  *)
(* was snoozed.  And a task whose expired snooze is about to be taken back *)
(* has nothing to lose by it.                                              *)
(***************************************************************************)
SetsBothOrNone(w) ==
  \/ w.new.status = "snoozed" /\ w.new.snoozed_until # NULL
  \/ w.new.status # "snoozed" /\ w.new.snoozed_until = NULL
  \/ w.new.status = w.old.status /\ w.new.snoozed_until = w.old.snoozed_until

SnoozeAsRead(w) ==
  LET row == rows[w.task] IN
  Live(w.task) =>
    \/ /\ row.snoozed_until = w.old.snoozed_until
       /\ row.status = w.old.status \/ row.status # "snoozed"
    \/ /\ row.snoozed_until = NULL /\ w.old.status = "snoozed"
       /\ row.status # "snoozed"

ExpiredGood ==
  /\ phase # "revert" => expired = {}
  /\ \A t \in expired :
       /\ t \notin fresh
       /\ Live(t) => rows[t].status = "snoozed" \/ rows[t].snoozed_until = NULL
       /\ \A s \in Sessions : Live(t) /\ session[s] # NULL /\ session[s].task = t =>
            /\ rows[t].status = session[s].old.status
            /\ rows[t].snoozed_until = session[s].old.snoozed_until

ReadPending ==
  /\ \A t \in TaskIds : batch[t] # NULL => batch[t].status = "pending"
  /\ current # NULL => current.row.status = "pending"

SnoozeInv ==
  /\ SnoozedHasEnd
  /\ \A s \in Sessions : session[s] # NULL =>
       SetsBothOrNone(session[s]) /\ SnoozeAsRead(session[s])
  /\ ExpiredGood
  /\ ReadPending

=============================================================================
