# Formal model of MJ

MJ is a task manager with reminders: a FastAPI backend on PostgreSQL, a React
site, and a Telegram bot that works on the same database. This directory holds
TLA+ modules translated from the source, TLC configurations that check them on
small instances, and TLAPS proofs of the main invariants for every value of the
constants. `PROJECT.json` maps every definition to the lines it stands for.

Run a check with `tlc -config MCTaskOverlap.cfg MCTaskService.tla`, a proof with
`tlapm AuthSessionProofs.tla`.

## The system

| Component | State | Operations | Correct when |
|---|---|---|---|
| Task service (`backend/app/services/task_service.py`) | table `tasks` | create, update (this / future), delete, complete, reopen, snooze, skip, list | a recurring series never silently stops; completed history is not rewritten |
| Recurrence calendar (`next_due_date`, `_add_one_month`) | none | the next due date | every date exists, one per counted period |
| Reminder scheduler (`core/scheduler.py`, `notification_service.py`) | the run in progress, `notifications_log` | expire snoozes, send due reminders, advance series | a due task is reminded of, at most once per channel and day, in spite of crashes |
| Retention job (`core/scheduler.py`) | none of its own | purge old completed tasks | nothing active is deleted |
| Authentication (`api/v1/auth.py`, `auth_service.py`, `security.py`, `deps.py`) | `refresh_tokens`, password hash, the row of a user | register, login, refresh, logout, logout all, change password, profile | a session ends when it is revoked, and only then |
| Session handling of the site (`authorizedRequest.ts`, `authStore.ts`, `useAuthBootstrap.ts`, `useLogout.ts`, the route guards, `SettingsPage.tsx` and its sections) | access token, user, status, route, cookie | call, refresh on 401, retry, bootstrap, settings that write the user back | no valid session is lost; the loading screen ends; token and user are of one account |
| Telegram linking (`auth_service.py`, `handlers/start.py`) | link code, expiry and chat of each user; the bot's dialogue state | request a code, type it, unlink | a code leads to one account; a link stands |
| List cache (`useTaskMutations.ts`, `TaskRow.tsx`) | query cache, fetch in flight, deletion timers and snapshots | optimistic mutations, bulk actions, delete with undo | a quiet page shows the server's list; undone means kept |
| List page (`ListPage.tsx`, `useDebouncedValue.ts`, `TaskModal.tsx`, `QuickAddTask.tsx`) | search text and its timer, filters, page, ticked rows, a query for each view, the form, the quick add box | search, filter, page, tick, bulk completion, create, edit | the table comes to be the server's; ticked rows are of the filter and the page shown; nothing is created twice |
| Overview pages (`DailyPage.tsx`, `WeeklyPage.tsx`, `StatsPage.tsx`, `ActivityHeatmap.tsx`, `taskStatus.ts`) | the answers of their queries, the week at mount | open, refetch | every place agrees on what is overdue and which day it is |
| Bot dialogues (`task_create.py`, `quick_add.py`, `stt.py`) | FSM state in memory, recordings on disk | wizard, voice and text quick add, play, undo | a task is what the last summary showed; one recording, one task |
| Web push (`push_service.py`, `useWebPush.ts`, `sw.js`) | `push_subscriptions`, the browser's subscription | subscribe, unsubscribe, prune | both sides agree |
| Categories (`category_service.py`, `CategoriesSection.tsx`) | `categories`; the draft of each row | list, create, rename, delete | a save writes what its user meant |
| Voice notes (`VoiceNoteButton.tsx`) | the audio element | fetch, play | the button recovers |
| Statistics (`stats_service.py`) | none | counts, activity, streaks | periods partition the days; a streak is broken by an empty day alone |
| Rate limit, text parsers, layout, migrations, backups, deployment, configuration | small or none | see `PROJECT.json` | |

The components meet in the database. The backend's requests, its two scheduled
jobs and the bot's handlers each hold a session of their own and suspend at every
`await`, so any of them runs between another's SELECT and COMMIT. The site and the
backend exchange messages that are lost, late and answered out of order. The
scheduler and the bot talk to Telegram and to push services that fail, and to a
user who presses a button of yesterday's message.

What is hard in it, in short (the list with lines is `hazards` in
`PROJECT.json`): rows used after an await (the due batch lives through seconds of
network calls); partial UPDATEs (SQLAlchemy writes only the columns that changed,
so two overlapping handlers merge); crashes between a message and its log entry;
several token refreshes in one page; list refetches that overtake mutations;
bot updates of one chat handled at once over one dialogue state;
codes looked up by a column that outlives its expiry; month ends; on the site, state
captured by a closure and written back after an await, answers for a screen that
was left, and the same day computed in three places.

## Modules

    TaskRows <- TaskService <- ReminderScheduler <- ReminderSchedulerProofs
    Series (instance in) TaskService
    Calendar <- Recurrence, Overview <- CalendarPages <- RecurrenceProofs
    AuthSession <- AuthSessionProofs      BotDialogue <- BotDialogueProofs
    AccountLinks (instance in) TelegramLink <- TelegramLinkProofs
    TaskCache <- TaskCacheProofs          ListPage <- TaskPages <- TaskPagesProofs
    Site <- WebPush, Categories, VoiceNote <- SitePages <- SitePagesProofs

(`A <- B`: B extends A.) `MC*.tla` extend a module with the values and symmetries
for TLC.

**TaskRows** is a row of `tasks` and what the service computes from it: the
successor (`NextOccurrence`), the six edits, the columns a flush writes
(`Flushed`: a column is written when the handler changed it from what it had
loaded) and the siblings a `scope=future` PATCH reaches (`IsFutureSibling`).
Title, description, category and priority are one abstract `template`; time is a
count of instants, `SlotsPerDay` to the day. `NextDueDate` is a constant operator,
so what is proved about series holds for any calendar; Recurrence has the real one.

**TaskService** runs these operations in concurrent sessions. Every handler is a
`Begin...` (SELECT and computation) and a `Commit` or an `Abort`. `IsStale` is
SQLAlchemy's StaleDataError on a row that is gone. A new row's id comes from
`fresh`, the ids uuid4 has not given out. `running` is a history variable: the
series created and not ended by their user. **Series** is what the operations
promise of a recurring task, in seven actions on the ids, the running series and the
series of each active occurrence: an occurrence of a running series goes only with
the step that brings its successor (`Succeed`), and a completion that is repeated adds
one and takes none (`Repeat`). `Promise == INSTANCE Series` maps the last to the
rows that are pending or snoozed (`occurrences`); every commit of a request or a job
is a step of `Series`, and every other step none.

**ReminderScheduler** extends it with the jobs. `phase` is where the run of
`_reminder_job` stands: `ReadExpired`, `RevertExpired` and `RevertStale` are
`_revert_expired_snoozes`; `ReadDue`, `TakeTask`, `FinishRun` the batch;
`SkipChannel`, `Send`, `LogAttempt`, `LogViolatesForeignKey` are
`send_task_reminder` for Telegram and then web push; `AdvanceSeries` is
`_create_next_occurrence`, which flushes the row as the batch read it.
`PurgeOldCompleted` is the retention job, `Crash` kills the backend. The requests
of TaskService go on between any two of these steps.

**AuthSession** is one account, its refresh tokens and its browsers. A call is a
record that moves through legs (`first`, `refresh`, `retry`, ...) and, in each,
from `sent` to an answer that may be received much later. An access token is the
instant it expires at, with the instant a session was last seen valid for it, a history
(`seen`). `/refresh` is two steps, the check of the row (`CheckRefresh`) and the grant
(`GrantRefresh`), for a revocation may commit between them. `change_password` is
three (verify; hash and revocations; the new token), as it commits.

**TaskCache** is the mounted page's list. `fetch` is the list query in flight,
`mut` the mutations, `timer` the timer of each task's n-th deletion.
`pendingTimer` and `snapshot` are the two module-level maps of
`useTaskMutations.ts`, `toasts` the undo toasts. TanStack Query is external:
modelled from how the code uses it (cancelled fetches do not write, invalidation
refetches, failed fetches are retried).

**ListPage** and **TaskPages** are the page around that list. A view is what the
query's key is made of (text, filter, offset) and each view has its query: `cache`
and `fetch` by view. `timer` is the debounce, `tickedUnder` the history of the
view each ticked row was ticked in. TaskPages adds the quick add box
(`batch`, the requests of one press of Enter) and the task form (`form`, numbered, so
that a late answer finds another one open); `Remount` leaves the page and
comes back while requests are on their way.

**Site** is one browser with several accounts: the route, the store, the bootstrap
and the two forms (`entry`), logouts, and the calls of the settings page, each with
the user that `authorizedRequest` read before its await (`held`) and the screen it was
sent from (`screen` counts screens; a component lives as long as its screen).
AuthSession has tokens and their expiry in full; here a token is the account it was
issued to and expires where a request finds it so. **WebPush**, **Categories** and
**VoiceNote** are the parts of a screen that outlive neither it nor a reload, and
**SitePages** composes them over the one session.

**TelegramLink** has the three link columns, the site's requests, the bot's
messages and its `waiting_for_code` state. The loop of
`generate_telegram_link_code` is one `TryCode` per turn. **AccountLinks** is what it
promises, in two actions on one variable; `Links == INSTANCE AccountLinks` in
TelegramLink maps `link[u]` to the chat column of `u`, and every step of codes,
expiry, look-ups, checks and restarts is a step of `AccountLinks` or a stutter. The
specification lets requests and messages overlap as they like; `RequestsApart` and
`ChatsApart` name what the properties suppose, and `ApartSpec` in MCTelegramLink is
the specification under both, the hypothesis of the theorems.

**BotDialogue** is one chat: the FSM `state`, its data (`draft`, the wizard's
answers, and `voice`, the recording) and the `handler`s that wait at an await,
each with what it has read. aiogram starts a handler for every update while others
of the chat wait, so a step of the wizard that awaits the account is two actions
(`AnswerTime` and `AskCategory`; `ConfirmYes`, `CreateConfirmed` and
`ClearAfterwards`). `summaries` is the history of what the user was shown.
TelegramLink has the codes and the accounts, BotDialogue what `/start` and a code
do to a dialogue under way.

**Calendar** is the Gregorian calendar with the ordinals of the days
(`date.toordinal`) as the reference, and `_period_range`. **Recurrence** is
`next_due_date` on it. **Overview** is what the pages by day make of the server's
filters and statistics: the two lists of DailyPage, WeeklyPage's columns, the
heatmap, the best weekday, the badge of a task, and the streak; its days are ordinals.

External definitions (marked in the map) are the library, network and clock: unit
of work, query client, datetime, browser reload, lost answers.

## Runs

| Run | Bounds | Shows |
|---|---|---|
| `MCTaskOverlap` | 2 sessions, 2 rows, an edit of date and title, 2 days, 2 instants | any two overlapping requests keep `ServiceInv`, so a running series keeps an active occurrence; an edit of all future occurrences leaves completed ones alone |
| `MCReminderSeries` | 1 session, 2 rows, repetition turned off, 1 channel, 1 fault | `Inv` (with `SeriesNeverStops`) and `ImplementsSeries` beside the jobs |
| `MCReminderOneOff` | 1 row, web push, 3 instants of 2 to the day, quiet evening, retention of one instant, 1 fault | `AtMostOncePerDay` over midnight, crash and lost answers; `SnoozedHasEnd` beside the jobs; `JobsSpareActive`; `SnoozeExpires`, `DueTaskReminded` |
| `MCAuthSessions` | 2 calls, 3 tokens, 2 instants, 1 change of password, 1 fault | `SessionInv`, `GrantedInSession`, `PasswordEndsSessions`, `ValidSessionKept` |
| `MCTaskCache` | 2 tasks, 2 mutations or focus refetches, deletions of one or both with undo, 1 fault | `CacheInv` (with `QuietAgrees`), `UndoneStays` |
| `MCTaskPages` | 2 tasks, a page of 1 row, a text that finds one of them, 4 acts of the user, 2 submissions in flight, 2 forms, 1 fault | `SelectionOfOnePage`, `CreatedAsTyped`, `OwnAnswerCloses`, `ListSettles` |
| `MCSite` | 2 accounts, 2 calls, one part of the site in each behaviour (in one plan, the settings and the notifications) with up to 5 acts of the user, reload, 1 or 2 faults | `ProfileFollows`, `BadgeTrue`, `UntouchedSaveKeeps`, `ButtonRecovers`, `LoadingEnds` |
| `MCLinkCodes` | 2 accounts, 2 chats, 2 codes, 2 attempts, codes live 1 of 3 instants; 2 requests and 2 messages, 3 of them open at once, while `RequestsApart` and `ChatsApart` | `LinkInv` (with `LiveCodesDistinct`), `ImplementsLinks` |
| `MCBotDialogue` | 2 handlers, 2 tasks, 2 recordings, 2 titles, 2 summaries, 1 fault | `BotInv`, `CreatedAsShown`, `OneTaskPerRecording`, `AnsweredOnce` |
| `MCRecurrence` | series from every date of 1999 until 2101; pages from a Friday, a Sunday and a Tuesday at the ends of 1999, of February 2100 and of 2024, 1 task, up to 2 midnights, 2 changes and 1 visit, an activity of 16 days | `StepsByInterval`, `OncePerPeriod`, `DayOnlyClamped`; `SectionsAgree`, `WeekAllShown`, `BestRowNamed`, `StreakKeepsDays` |
| `MCReminderPending` | 3 rows (an occurrence and two successors), no fault | violation of `AdvancesOnlyPending` |
| `MCLinkStaleCode` | as `MCLinkCodes`, codes live 2 of 4 instants, 1 request and 1 message | violation of `LinkCodeResolves` |

Why these bounds are enough to meet the interesting cases: two sessions are the
fewest that overlap, and a session of the first operation can always find what the
second made of its row; two rows are an occurrence and its successor, and a series
needs no third for a stop; one fault reaches every error path, and each is counted
where a property allows for it. Three instants span two midnights. Two calls are
the fewest that refresh side by side. The years 1999 to 2101 hold a leap century
(2000), a plain one (2100) and every day a series may begin on. Two codes among
two accounts make collisions the rule. Two handlers with two titles let one dialogue
change what another has read; a third would only repeat the second. Pages of one row
make a second page, and four acts are the fewest that tick a row, leave its view,
come back and act on the selection. The site's parts meet in the session alone, so a
behaviour of MCSite spends its acts on one of them (`ShortPlans` lists the
budgets; one has a setting answered late, during a press); two screens are left and opened again with every answer on its way. Sixteen
days are two weeks and the odd days on both sides of the heatmap. Bounds of the model are named in the
modules as such; at `WithinHorizon` and where ids run out the code's step is not
taken, which can only remove behaviours beyond the bound.

Every run also checks the types of its modules, in `ServiceInv`, `Inv`, `SessionInv`,
`CacheInv`, `LinkInv`, `BotInv`, `CalendarTypeOK`, `PagesTypeOK` and `SitePagesTypeOK`
(in `MCReminderOneOff` they are those of `Inv`, proved).

Symmetry sets are used in safety runs alone. `CHECK_DEADLOCK FALSE` is given where
the bounds end the behaviour (the clock stops, ids run out), not because the
program stops.

**Fairness.** `MCReminderOneOff` assumes weak fairness of `JobStep` and `Clock`:
APScheduler starts the job every 60 seconds (`start_scheduler`, `coalesce`), the
event loop resumes it after every await, and every network call of
`send_task_reminder` has a time-out. `MCTaskPages` and `MCSite` assume weak fairness
of `Proceed`: a request that was sent is answered or fails, a timer that was set
fires, and a component is rendered. Every step of `Proceed` uses up one of those, so
weak fairness of the whole lets none of them wait for ever. Nothing is assumed of
users, faults, or the retention job.

Some properties hold with exceptions, which are spelled out in them:
`ValidSessionKept` (a mistyped current password is answered 401 like an expired
token and so signs the page out; a lost refresh does; so does the refusal of a
cookie that a change of password replaced, in this browser or another),
`PasswordEndsSessions` (a login, or another change of password, that verified the
old password and stores its token after the revocations), `UndoneStays` (the same
task deleted once more after the undo), `AtMostOncePerDay` (each crash or lost
answer may cost one more message), `AnsweredOnce` (the button pressed again while
the first press is still being handled), `ListSettles` (a change answered while the
first fetch of the view, or any fetch of it off the screen, was on its way, or whose
answer was lost), `SelectionOfOnePage` (a row ticked while the debounce runs),
`GrantedInSession` (the instant is that of the check of the refresh), `ProfileFollows`
(calls that overlap each other, a login or a logout), `BadgeTrue` (a press that
overlapped another or whose answer was lost, or during which the late answer of a
setting put another account in the store, or which overtook the reading of the mount), `UntouchedSaveKeeps` (a draft taken
during an update or from a list behind the server).

## Proofs

The library of facts is `TLAPS`, `SequenceTheorems` (`BotDialogueProofs`,
`RecurrenceProofs`), `FiniteSetTheorems` (`TaskPagesProofs`, `RecurrenceProofs`),
`WellFoundedInduction` (`RecurrenceProofs`) and the arithmetic of the SMT backend;
every constant is arbitrary but for the named assumptions, which TLC evaluates on
every run.

* `ReminderSchedulerProofs`, first of the requests alone: `ServiceSpec =>
  []ServiceInv`, hence `SeriesNeverStops`, from `RowConstants`. `SeriesNeverStops` is
  not inductive: a unit of work that was begun long ago deletes or completes the row
  it read then. The strengthening says what a session has read stays true where it
  matters: ids and series are never reused (`RowsGood`), the row read still belongs
  to its series and, while the series runs, recurs (`GoodRead`), and a unit of work
  that completes such a row carries its successor (`GoodWork`). So the commit that
  takes the last active occurrence away brings the next one.
  `CompletedHistoryStands` follows from the siblings a `scope=future` edit reaches.
  Then beside the jobs: `Spec => []Inv` with `SchedulerConstants` added, hence
  `TypeOK` and `SeriesNeverStops` again. `Inv` adds that the batch and the task at
  hand are as good as what a request reads, so `AdvanceSeries` is one more commit;
  the lemmas of the requests are cited for requests. `AtMostOncePerDay` follows
  from `DedupeInv`, itself inductive beside `Inv`: a message no fault accounts for is
  in the log, about to be logged, or of a day that is over. `JobsSpareActive` and
  `CompletedHistoryStands` are read off each job's step. Last, `ServiceSpec =>
  ImplementsSeries` and `Spec => ImplementsSeries`: `CommitTask` says what a commit
  makes of the row it is about (over with a successor, or with the series; resumed;
  or as it was), and `CommitMaps` names the step of `Series` it is. For this
  `GoodWork` says too that no unit of work both changes the status of a row and turns
  its repetition off. `ImplementsSeries => []SeriesNeverStops` shows that the promise
  is enough, and `OneActiveOccurrence` that a series has a second active occurrence
  only by a step of `Repeat` or `Resume`: the condition of that theorem leaves these
  steps out, and nothing else that overlaps adds one. `Spec /\ []OneRequestPerTask =>
  []SnoozedHasEnd` is about one request on a task at a time with the jobs beside it.
  `SnoozedHasEnd` relates two columns that a flush writes separately, so
  `SnoozeInv` says that a request sets both or neither, that what it read of them is
  still true or the jobs' change is harmless (`SnoozeAsRead`), that the snooze the
  job is about to take back is the one any request that is open on the task has read
  (`ExpiredGood`), and that the job completes only what it read as pending. TLC found
  no violation of `SnoozeInv` before the proof, and one of `SnoozedHasEnd` within
  seconds once two requests share a task.
* `AuthSessionProofs`: `Spec => []SessionInv`, hence `GrantedInSession`, from
  `SessionConstants`. The claim is that an access token was granted while a session was
  valid, or by a refresh that had seen one valid at its check. The invariant extends it
  from the store to every token in a request, a closure or an answer, and to every
  refresh between its check and its grant; it survives revocation because it speaks of
  the instant seen, not of now. `ValidSessionKept` and `PasswordEndsSessions` rest on a
  second one, `KeepInv`: rows are of the past, an answer that is on its way tells
  what the store still has, a cookie a page knows is a row of its account, and of
  two rows the later one outlives the tokens granted before it. The attempt to
  prove `PasswordEndsSessions` as it once stood showed it false for two concurrent
  changes of password, which one change in the run had hidden: its exception now
  names both.
* `BotDialogueProofs`: `Spec => []BotInv`, hence `CreatedAsShown`,
  `OneTaskPerRecording` and `AnsweredOnce`, from `BotConstants`. `CreatedAsShown` is
  about the last summary sent before the press was handled, whichever message the
  pressed button belongs to. These speak of tasks
  and summaries alone and are not inductive: `BotInv` adds that the confirmation
  holds the last summary, that a handler begun there still holds it, and that a
  recording is in one place (data, handler or task). `DialogueStep` sorts the
  actions by what they do to the dialogue.
* `TelegramLinkProofs`, from `LinkConstants`, for any number of requests and messages
  that overlap: `Spec => []ReadInv` (types, and the bot handles no row without a
  code); `Spec /\ []RequestsApart => []LiveCodesDistinct`;
  `Spec /\ []ChatsApart => ImplementsLinks`; with both, `[]LinkInv`. The two conditions
  speak of behaviours, nothing in the code sees to them, and each property is false
  without its own (TLC finds the violation when a conjunct of `ApartNext` is dropped;
  see the departures). They are as weak as the proofs allow: unlinkings of other
  accounts may overlap a request for a code, and the site may do anything beside the
  bot. `CodeInv` says every code in a row is dated, what a request has read of a row
  is still its code or the row has none, and no live code equals the one a request
  has drawn. `ChatInv` says an account whose code is handled has the chat it was read
  with, the chat that typed the code, or none, so a commit links an account that has
  no chat or changes nothing. The refinement takes each commit to `LinkTo`, `Unlink` or
  a stutter and every other action to a stutter.
* `TaskCacheProofs`: `Spec => []PageInv`, hence `CacheInv` (a quiet page shows the
  server's list) and `UndoneStays`, from `NullMutation`. `QuietAgrees` speaks of quiet
  pages and says nothing of the steps that lead there. `PageInv` adds what an
  answer on its way must be: the server's list, unless something that will refetch
  or restore is not settled (`FetchAgrees`, `Unsettled`); that the timers of a task
  are numbered in the order of its deletions (`Numbered`), the one a toast can
  cancel is the last (`PendingIsLast`), and an undone one has none left
  (`UndoneHidden`). Deletions are unbounded here; the run's one per task had hidden
  that a second one reuses the first one's entry, and `UndoneStays` now says so.
* `TaskPagesProofs`: `PagesTypeOK`; `SelectionOfOnePage`, from `SelectionInv`;
  `CreatedAsTyped`, from `FormConstants` (finitely many submissions in flight); and
  `OwnAnswerCloses`. `CreatedAsTyped` counts what is done and is not inductive:
  `BoxInv` adds to it the requests under way and what the next Enter would send
  (`TitlesAccounted`), so that Enter moves a title from ready to under way, an answer
  from under way to created, and only typing or a fault raises the sum. None of the
  four uses a bound on acts, forms or faults.
* `RecurrenceProofs`: `DueTypeOK` (with `OverviewTypeOK`, `CalendarTypeOK`), `DayOnlyClamped`, `StepsByInterval` and
  `OncePerPeriod` for every year, from `RecurrenceConstants`. The lemmas give the
  ordinal of the next month's first day and the weekday seven days on. Of the pages
  by day, from `OverviewConstants`: `OverviewTypeOK`, `SectionsAgree`, `WeekAllShown`,
  `BestRowNamed` and `StreakKeepsDays`. `OverviewInv` adds that an answer WeeklyPage holds is of the
  week it was given in, and that completions are of the past. A streak is the length
  of a run of days (`RunIs`): there is one (`RunFound`, by the least number of days
  back to an empty one, from the well-founded order of the naturals), one only
  (`RunUnique`), a longer past makes none shorter, and a day adds one. `BestRowNamed`
  compares sums, folds over sets of places in two sequences. `AddsExist` and
  `AddsUnique` show that the fold's recursion has one solution on a finite set,
  `SumTakes` that the order does not matter, and `SumMoved` that places may be moved
  and zeros dropped, each by a counterexample with the fewest elements; the rest is
  which square of the heatmap is which weekday (`SquaresAre`, `RowsAreWeekdays`).
* `SitePagesProofs`: `Spec => []SiteInv`, hence `SitePagesTypeOK`, `ProfileFollows`,
  `BadgeTrue` and `UntouchedSaveKeeps`, from `SiteConstants`, `PushConstants` and
  `CategoryConstants`, for any plan. Each part of `SiteInv` says what someone else
  relies on: a call or a sign-in that nothing overlaps holds the store's user and the
  server's row (`AloneInv`, over the accounts and calls of `StoreInv`); a press alone
  has put into the browser and the row what its step says (`PressInv`), until the
  next press (`SettledInv`); what an update writes and what a row's draft holds is
  the server's name unless it was typed, or loose (`WrittenInv`, `DraftsInv`). The
  attempt showed `BadgeTrue` as it once stood false where an earlier account's call
  is answered while another account presses the button (`WrittenBack` puts the earlier
  account in the store); the run's plans, one part each, had hidden it. The press
  now remembers the account it was served for, and one plan has both parts.

Only model-checked: the liveness properties `SnoozeExpires`, `DueTaskReminded`,
`ListSettles`, `ButtonRecovers` and `LoadingEnds` (fairness and ENABLED are out of the
prover's reach); and the two violations.

## Where the code departs from its comments

Two departures are runs, with TLC's trace:

* `MCReminderPending`: a task completed or snoozed after the batch read it is
  advanced too, since the row is not read again after the send
  (`core/scheduler.py:87`); the series of the completed one gets a second successor.
* `MCLinkStaleCode`: an expired code stays in its row and the bot's look-up does
  not skip it, so a second account that is given the same code gets no answer
  (`handlers/start.py:45`).

Others met while modelling. They follow from the named definitions and are not
runs:

* `complete_task` has no guard on the status (`BeginComplete`), so completing an
  occurrence twice adds two successors (`Repeat` of Series; `OneActiveOccurrence` says
  what else does).
* `snooze_task` leaves `completed_at` set on a completed task (`Snoozed`).
* A PATCH that turns repetition on leaves `series_id` NULL (`Patched`).
* Quiet hours are tested against the start of the run (`TakeTask`, `readAt`).
* A successor is copied from the row as the batch read it (`AdvanceWork`), so an
  edit made during the send is missing from it.
* A task deleted during its send ends the run with the rest of the batch
  (`LogViolatesForeignKey`); the next run takes it up.
* A recurring task advances although every channel failed (`AdvanceSeries`).
* A login verified before a change of password stores its token after the
  revocations, and so does a change of password verified before another one commits
  (`ServeLogin`, `IssueTokens`).
* A logout, a logout of all or a change of password that commits between the check and
  the grant of a refresh (`auth.py:110`, `:122`) leaves the page a fresh access token,
  good for one lifetime although its session is over (`CheckRefresh`, `GrantRefresh`).
* Two overlapping handlers may leave `status` and `snoozed_until` of one row to
  different authors (`Flushed`): a snooze and a completion or reopening of one task
  that overlap may leave it snoozed without an end, which no run takes back
  (`SnoozedHasEnd`, proved while `OneRequestPerTask`).
* The confirm button pressed twice at once makes two tasks, and the second
  `state.clear()` may end a dialogue begun since (`ConfirmYes`,
  `ClearAfterwards`).
* A press of the confirm button is not tied to its message: the button of an older
  summary, still in the chat, books the draft of the newer one (`ConfirmYes`;
  `task_create.py:134`).
* `process_due_time` sets the next state after an await: if the dialogue was
  cleared meanwhile, it goes on without its answers and `process_priority` ends in
  a KeyError (`AskCategory`, `ChoosePriority`).
* A recording whose dialogue is cut short, or whose task is skipped or purged,
  stays on disk (`Restart`, `SaveVoice`; `skip_task`, `purge_old_completed_tasks`).
* The background transcription overwrites a title edited meanwhile
  (`quick_add.py:278`), and a quick add of several lines that fails half-way leaves
  the first lines stored (`quick_add.py:162`).
* `useSkipTask` refetches on success only (`Settle`); a refetch shows a task whose
  deletion is pending (`ReceiveFetch`); undoing the deletion of a selection keeps
  the snapshot of its last task (`Undo`); a second deletion of one task hides the
  first timer (`Delete`).
* A snooze committed between the job's SELECT and its UPDATE is taken back
  (`ReadExpired`, `RevertExpired`).
* Two chats that type one code at the same moment both pass the bot's checks, and the
  second takes the link over; two requests for a code at once can draw the same one
  (what `ChatsApart` and `RequestsApart` leave out; `MCLinkCodes` checks the rest).
* A change answered while the first fetch of a view is on its way does not send it
  again (`Invalidate`), and a page whose last row is gone stays on its offset.
* A row ticked after the last key and before the 300 ms of the debounce are over stays
  ticked, out of sight, when the list of the new text comes, and so does one that a
  refetch takes from the list: a bulk action takes it too (`ToggleSelect`,
  `DebounceFires`, `ReceiveFetch`).
* What is typed into the quick add box while a submission is on its way is emptied
  with it (`SettleBatch`); a lost answer leaves a created title in the box to be sent
  again (`CreateLost`), and the lists are not refetched.
* The late answer of a settings call, or its refresh, signs the page in again after a
  logout (`ReceiveCall`, `RefreshCall`), and logout leaves the query cache of the
  account. A press of the notifications' button that such an answer overtakes was
  stored for one account and is shown to another (`Store`, `ToggleEnds`).
* The badge of the notifications is read from the browser alone, so another account on
  it sees its predecessor's (`GetBadge`); its button does not wait for that reading, so a
  press answered before it is painted over by the older state (`SetBadge`); the toast says "enabled" although the
  permission was not granted (`Ask`).
* The draft of a category row outlives a rename from elsewhere: opened and saved without
  typing, it takes the rename back (`Draft`).
* A voice note clicked twice is fetched twice and the first object URL is never
  revoked (`Click`, `ReceiveVoice`).
* No mutation invalidates the statistics (`Change`); WeeklyPage keeps the week of its
  mount over a Sunday's midnight (`WeekColumns`), and the daily and weekly lists ask
  for no `limit` and so show the first 50.
* The longest streak shrinks when a task is reopened or the retention job deletes it
  (`Longest`).

## Not modelled

* The bot's text quick add and the background transcription: their tasks are
  `create_task` and `update_task` of TaskService, and their parsing is string work.
  The quick-add parsers of the site and of the bot, likewise.
* The counts of a period by priority and category, the trend and bar charts,
  skeletons, layout, the collapsed sidebar, the language switch: display without
  protocol.
* The rate limit, translations, migrations, backups, deployment, logging and
  configuration: no state that another component waits on, or none in the program.
* The user who withdraws the notification permission in the browser, the service
  worker's display, the query client's `gcTime`, the wire format of tokens, the order
  of equally dated rows.

The list appears in three modules at three grains: TaskCache has one list and every
mutation, ListPage many views and the bulk completion, Overview the filters and the
day. TaskService's `Row` is not theirs: they keep the columns their pages read.

## Plan

Done, in this order: TaskRows, TaskService, ReminderScheduler, their proofs;
AuthSession and its proof; Recurrence and its proofs; TaskCache; TelegramLink;
BotDialogue and its proof; AccountLinks and Series, the refinements and their
proofs; ListPage and TaskPages; Site with WebPush, Categories and VoiceNote; Calendar and Overview.

Next, should the code grow there:

1. The upsert of `push_service` as two overlapping requests (the second violates the
   unique constraint), and pruning on 404 and 410.
2. Text quick add and its undo, with the background transcription, as requests of
   TaskService.
