---------------------------- MODULE BotDialogue ----------------------------
(***************************************************************************)
(* The dialogues of one chat with the bot: the task wizard                 *)
(* (telegram_bot/handlers/task_create.py), the voice message and its day   *)
(* (quick_add.py) and the commands that cut them short (start.py).         *)
(*                                                                         *)
(* aiogram runs a handler per update, all of them at once, over one FSM    *)
(* state and one dictionary of data per chat, kept in memory.  The state   *)
(* is tested and the handler's first part runs in one step; the handler    *)
(* then gives way wherever it awaits the database or Telegram, and is kept *)
(* in "handler" until its last write.  It looks the account up and acts on *)
(* what it found in one step; what it still sends at its end is left out.  *)
(***************************************************************************)
EXTENDS Naturals, Sequences

CONSTANTS
  Handlers,             \* bound: handlers that wait at once
  Tasks,                \* the ids uuid4() may give to tasks
  Recordings,           \* the file names uuid4() may give to recordings
  Answers,              \* what the user may answer to each question
  NULL,
  MaxSummaries,         \* bound: summaries shown
  MaxFaults             \* bound: handlers that raise, restarts

VARIABLES
  state,                \* the FSM state, or NULL
  draft, voice,         \* its data: the wizard's answers, the recording
  handler,              \* the handlers that wait, NULL where there is none
  linked,               \* users.telegram_chat_id is this chat
  task,                 \* the tasks the dialogues have created
  summaries,            \* history: the summaries the user was shown
  faults                \* history: faults so far

data == <<state, draft, voice>>
vars == <<state, draft, voice, handler, linked, task, summaries, faults>>

Question == {"title", "due_date", "due_time", "category", "priority"}
State    == Question \cup
  {"confirm", "awaiting_date_choice", "awaiting_custom_date", "waiting_for_code"}

ASSUME BotConstants ==
  /\ DOMAIN Answers = Question
  /\ \A q \in Question : NULL \notin Answers[q]
  /\ NULL \notin Recordings \cup State
  /\ MaxSummaries \in Nat /\ MaxFaults \in Nat

Draft   == {d \in [Question -> (UNION {Answers[q] : q \in Question}) \cup {NULL}] :
              \A q \in Question : d[q] \in Answers[q] \cup {NULL}}
NoDraft == [q \in Question |-> NULL]

\* The answers the confirmation reads with data["..."]; a category may be none.
Complete(d) == \A q \in Question \ {"category"} : d[q] # NULL

\* doing: what the handler waits to do.  shown: the number of the last summary
\* when its button was pressed.
Handler == [doing : {"ask title", "greet", "ask category", "confirm", "clear",
                     "check code", "find user", "download", "make task"},
            draft : Draft, shown : 0..MaxSummaries, recording : Recordings \cup {NULL}]

Task == [draft : Draft, shown : 0..MaxSummaries, recording : Recordings \cup {NULL}]

ASSUME NullHandler == NULL \notin Handler

BotTypeOK ==
  /\ state \in State \cup {NULL}
  /\ draft \in Draft
  /\ voice \in Recordings \cup {NULL}
  /\ handler \in [Handlers -> Handler \cup {NULL}]
  /\ linked \in BOOLEAN
  /\ task \in [Tasks -> Task \cup {NULL}]
  /\ summaries \in Seq(Draft) /\ Len(summaries) <= MaxSummaries
  /\ faults \in Nat

Init ==
  /\ state = NULL /\ draft = NoDraft /\ voice = NULL
  /\ handler = [h \in Handlers |-> NULL]
  /\ linked \in BOOLEAN
  /\ task = [t \in Tasks |-> NULL]
  /\ summaries = <<>>
  /\ faults = 0

-----------------------------------------------------------------------------
Await(h, doing) ==
  /\ handler[h] = NULL
  /\ handler' = [handler EXCEPT ![h] =
       [doing |-> doing, draft |-> NoDraft, shown |-> 0, recording |-> NULL]]

Doing(h, doing) == handler[h] # NULL /\ handler[h].doing = doing
Finish(h)       == handler' = [handler EXCEPT ![h] = NULL]

\* Mutant: the state is left and the data stays.
LeaveState == state' = NULL /\ UNCHANGED <<draft, voice>>

\* state.clear(): the state and the whole data of the chat.
Clear == state' = NULL /\ draft' = NoDraft /\ voice' = NULL

Stored(new) == \E t \in Tasks : task[t] = NULL /\ task' = [task EXCEPT ![t] = new]

-----------------------------------------------------------------------------
(***************************************************************************)
(* Commands and the link of the account.                                   *)
(***************************************************************************)
\* /start is answered in any state.
Start(h) ==
  /\ Await(h, "greet")
  /\ UNCHANGED <<data, linked, task, summaries, faults>>

Greet(h) ==
  /\ Doing(h, "greet") /\ Finish(h)
  /\ IF linked THEN Clear ELSE state' = "waiting_for_code" /\ UNCHANGED <<draft, voice>>
  /\ UNCHANGED <<linked, task, summaries, faults>>

\* Any message in this state is taken for a code; a wrong one changes nothing.
TypeCode(h) ==
  /\ state = "waiting_for_code"
  /\ Await(h, "check code")
  /\ UNCHANGED <<data, linked, task, summaries, faults>>

CodeFound(h) ==
  /\ Doing(h, "check code")
  /\ linked' = TRUE
  /\ handler' = [handler EXCEPT ![h].doing = "clear"]
  /\ UNCHANGED <<data, task, summaries, faults>>

CodeRefused(h) ==
  /\ Doing(h, "check code") /\ Finish(h)
  /\ UNCHANGED <<data, linked, task, summaries, faults>>

\* On the web site.
Unlink ==
  /\ linked /\ linked' = FALSE
  /\ UNCHANGED <<data, handler, task, summaries, faults>>

-----------------------------------------------------------------------------
(***************************************************************************)
(* The wizard.  An answer that does not parse is asked for again and       *)
(* changes nothing.                                                        *)
(***************************************************************************)
\* start_task_creation: in any state but that of the code.
NewTask(h) ==
  /\ state # "waiting_for_code"
  /\ Await(h, "ask title")
  /\ UNCHANGED <<data, linked, task, summaries, faults>>

AskTitle(h) ==
  /\ Doing(h, "ask title") /\ Finish(h)
  /\ state' = IF linked THEN "title" ELSE state
  /\ UNCHANGED <<draft, voice, linked, task, summaries, faults>>

\* process_title, process_due_date.
AnswerText ==
  /\ \/ state = "title" /\ state' = "due_date"
     \/ state = "due_date" /\ state' = "due_time"
  /\ \E a \in Answers[state] : draft' = [draft EXCEPT ![state] = a]
  /\ UNCHANGED <<voice, handler, linked, task, summaries, faults>>

\* process_due_time.
AnswerTime(h) ==
  /\ state = "due_time"
  /\ \E a \in Answers["due_time"] : draft' = [draft EXCEPT !["due_time"] = a]
  /\ Await(h, "ask category")
  /\ UNCHANGED <<state, voice, linked, task, summaries, faults>>

AskCategory(h) ==
  /\ Doing(h, "ask category") /\ Finish(h)
  /\ IF linked THEN state' = "category" /\ UNCHANGED <<draft, voice>> ELSE Clear
  /\ UNCHANGED <<linked, task, summaries, faults>>

ChooseCategory ==
  /\ state = "category"
  /\ state' = "priority"
  /\ \E a \in Answers["category"] \cup {NULL} : draft' = [draft EXCEPT !["category"] = a]
  /\ UNCHANGED <<voice, handler, linked, task, summaries, faults>>

\* process_priority stores the answer and then reads what the summary shows:
\* KeyError where an answer is missing.
ChoosePriority ==
  /\ state = "priority"
  /\ \E a \in Answers["priority"] : draft' = [draft EXCEPT !["priority"] = a]
  /\ IF Complete(draft')
       THEN /\ Len(summaries) < MaxSummaries
            /\ summaries' = Append(summaries, draft')
            /\ state' = "confirm"
       ELSE UNCHANGED <<state, summaries>>
  /\ UNCHANGED <<voice, handler, linked, task, faults>>

\* process_confirm_yes reads the data first; the state stays while it works.
ConfirmYes(h) ==
  /\ state = "confirm"
  /\ handler[h] = NULL
  /\ handler' = [handler EXCEPT ![h] =
       [doing |-> "confirm", draft |-> draft, shown |-> Len(summaries), recording |-> NULL]]
  /\ UNCHANGED <<data, linked, task, summaries, faults>>

\* Mutant: the data is read when the account has been found.
CreateConfirmedLateRead(h) ==
  /\ Doing(h, "confirm") /\ linked
  /\ Stored([draft |-> draft, shown |-> handler[h].shown, recording |-> NULL])
  /\ handler' = [handler EXCEPT ![h].doing = "clear"]
  /\ UNCHANGED <<data, linked, summaries, faults>>

\* Mutant: the state is not cleared afterwards.
CreateConfirmedAndStop(h) ==
  /\ Doing(h, "confirm") /\ linked
  /\ Stored([draft |-> handler[h].draft, shown |-> handler[h].shown, recording |-> NULL])
  /\ Finish(h)
  /\ UNCHANGED <<data, linked, summaries, faults>>

CreateConfirmed(h) ==
  /\ Doing(h, "confirm") /\ linked
  /\ Stored([draft |-> handler[h].draft, shown |-> handler[h].shown, recording |-> NULL])
  /\ handler' = [handler EXCEPT ![h].doing = "clear"]
  /\ UNCHANGED <<data, linked, summaries, faults>>

\* No account: the user is told before the state is cleared.
RefuseConfirmed(h) ==
  /\ Doing(h, "confirm") /\ ~linked
  /\ handler' = [handler EXCEPT ![h].doing = "clear"]
  /\ UNCHANGED <<data, linked, task, summaries, faults>>

\* CategoryNotFoundError.
CategoryGone(h) ==
  /\ Doing(h, "confirm") /\ handler[h].draft["category"] # NULL
  /\ Finish(h) /\ Clear
  /\ UNCHANGED <<linked, task, summaries, faults>>

ClearAfterwards(h) ==
  /\ Doing(h, "clear") /\ Finish(h) /\ Clear
  /\ UNCHANGED <<linked, task, summaries, faults>>

ConfirmNo ==
  /\ state = "confirm" /\ Clear
  /\ UNCHANGED <<handler, linked, task, summaries, faults>>

-----------------------------------------------------------------------------
(***************************************************************************)
(* Voice messages.                                                         *)
(***************************************************************************)
SendVoice(h) ==
  /\ state = NULL
  /\ Await(h, "find user")
  /\ UNCHANGED <<data, linked, task, summaries, faults>>

FindUser(h) ==
  /\ Doing(h, "find user")
  /\ IF linked THEN handler' = [handler EXCEPT ![h].doing = "download"] ELSE Finish(h)
  /\ UNCHANGED <<data, linked, task, summaries, faults>>

InHandler(h, r) == handler[h] # NULL /\ handler[h].recording = r
InTask(t, r)    == task[t] # NULL /\ task[t].recording = r

\* A recording is named by uuid4(), so by a name nothing uses.
Used(r) ==
  voice = r \/ (\E h \in Handlers : InHandler(h, r)) \/ \E t \in Tasks : InTask(t, r)

SaveVoice(h) ==
  /\ Doing(h, "download") /\ Finish(h)
  /\ \E r \in Recordings : ~Used(r) /\ voice' = r
  /\ state' = "awaiting_date_choice"
  /\ UNCHANGED <<draft, linked, task, summaries, faults>>

DownloadFails(h) ==
  /\ Doing(h, "download") /\ Finish(h)
  /\ UNCHANGED <<data, linked, task, summaries, faults>>

TakeVoice(h) ==
  /\ handler[h] = NULL
  /\ handler' = IF voice = NULL THEN handler ELSE [handler EXCEPT ![h] =
       [doing |-> "make task", draft |-> NoDraft, shown |-> 0, recording |-> voice]]

\* Mutant: the state is cleared by the next update, not before the first await.
ChooseDayKeepingState(h) ==
  /\ state \in {"awaiting_date_choice", "awaiting_custom_date"}
  /\ TakeVoice(h)
  /\ UNCHANGED <<data, linked, task, summaries, faults>>

\* voice_date_chosen with today or tomorrow, voice_custom_date_entered.
ChooseDay(h) ==
  /\ state \in {"awaiting_date_choice", "awaiting_custom_date"}
  /\ TakeVoice(h) /\ Clear
  /\ UNCHANGED <<linked, task, summaries, faults>>

ChooseCustomDay ==
  /\ state = "awaiting_date_choice"
  /\ state' = "awaiting_custom_date"
  /\ UNCHANGED <<draft, voice, handler, linked, task, summaries, faults>>

\* _create_voice_task.
MakeVoiceTask(h) ==
  /\ Doing(h, "make task") /\ Finish(h)
  /\ IF linked
       THEN Stored([draft |-> NoDraft, shown |-> 0, recording |-> handler[h].recording])
       ELSE UNCHANGED task
  /\ UNCHANGED <<data, linked, summaries, faults>>

-----------------------------------------------------------------------------
(***************************************************************************)
(* Faults.                                                                 *)
(***************************************************************************)
Fault == faults < MaxFaults /\ faults' = faults + 1

\* The database or Telegram fails where the handler waits.
Raise(h) ==
  /\ Fault
  /\ handler[h] # NULL /\ Finish(h)
  /\ UNCHANGED <<data, linked, task, summaries>>

\* The process is killed: MemoryStorage and the handlers are gone, the updates
\* that waited are dropped.
Restart ==
  /\ Fault /\ Clear
  /\ handler' = [h \in Handlers |-> NULL]
  /\ UNCHANGED <<linked, task, summaries>>

-----------------------------------------------------------------------------
Update(h) ==
  \/ Start(h) \/ TypeCode(h) \/ NewTask(h) \/ AnswerTime(h) \/ ConfirmYes(h)
  \/ SendVoice(h) \/ ChooseDay(h)

ShortUpdate ==
  \/ AnswerText \/ ChooseCategory \/ ChoosePriority \/ ConfirmNo \/ ChooseCustomDay

Resume(h) ==
  \/ Greet(h) \/ CodeFound(h) \/ CodeRefused(h)
  \/ AskTitle(h) \/ AskCategory(h)
  \/ CreateConfirmed(h) \/ RefuseConfirmed(h) \/ CategoryGone(h) \/ ClearAfterwards(h)
  \/ FindUser(h) \/ SaveVoice(h) \/ DownloadFails(h) \/ MakeVoiceTask(h)

Next ==
  \/ \E h \in Handlers : Update(h) \/ Resume(h) \/ Raise(h)
  \/ ShortUpdate \/ Unlink \/ Restart

Spec == Init /\ [][Next]_vars

-----------------------------------------------------------------------------
(***************************************************************************)
(* What the wizard creates is what it has shown last: a task has, answer   *)
(* for answer, the content of the last summary the chat was sent before    *)
(* the press was handled, whatever other dialogue has begun, changed the   *)
(* data or cleared it before the task was stored (process_priority,        *)
(* process_confirm_yes).  It need not be the summary above the button that *)
(* was pressed: nothing in the code ties the press to a message, so the    *)
(* button of an older summary books the newer draft.                       *)
(***************************************************************************)
AsShown(x) == x.shown # 0 => x.shown <= Len(summaries) /\ x.draft = summaries[x.shown]

CreatedAsShown == \A t \in Tasks : task[t] # NULL => AsShown(task[t])

(***************************************************************************)
(* A summary is answered once: the button of a summary that has become a   *)
(* task is taken again only while the handler that made the task, or one   *)
(* pressed beside it, still runs or was cut short by a fault               *)
(* (process_confirm_yes, state.clear()).                                   *)
(***************************************************************************)
Answered(n) == \E t \in Tasks : task[t] # NULL /\ task[t].shown = n

Answering(n) == \E h \in Handlers : handler[h] # NULL /\ handler[h].shown = n

AnsweredOnce ==
  [][\A h \in Handlers :
       handler[h] = NULL /\ handler'[h] # NULL /\ handler'[h].doing = "confirm"
       => \/ ~Answered(handler'[h].shown)
          \/ Answering(handler'[h].shown)
          \/ faults > 0]_vars

(***************************************************************************)
(* A recording becomes one task at most, however often a day is chosen for *)
(* it by button or by text (voice_date_chosen and                          *)
(* voice_custom_date_entered clear the state before they await anything).  *)
(***************************************************************************)
OneTaskPerRecording ==
  \A t, u \in Tasks :
    /\ task[t] # NULL /\ task[u] # NULL
    /\ task[t].recording # NULL /\ task[t].recording = task[u].recording
    => t = u

(***************************************************************************)
(* The inductive invariant behind the two: the dialogue at the             *)
(* confirmation holds the last summary, the handlers that were started     *)
(* from a summary still hold it, and a recording is in one place, the      *)
(* dialogue's data, a handler or a task.  Outside a dialogue nothing of an *)
(* earlier one is left that the next would take for its own.               *)
(***************************************************************************)
NothingLeftBehind == state = NULL => draft = NoDraft /\ voice = NULL

ConfirmsLastSummary ==
  state = "confirm" => Len(summaries) > 0 /\ draft = summaries[Len(summaries)]

HandlersAsShown == \A h \in Handlers : handler[h] # NULL => AsShown(handler[h])

InOnePlace(r) ==
  /\ voice = r => (\A h \in Handlers : ~InHandler(h, r)) /\ \A t \in Tasks : ~InTask(t, r)
  /\ \A h \in Handlers : InHandler(h, r) =>
       /\ \A k \in Handlers : InHandler(k, r) => k = h
       /\ \A t \in Tasks : ~InTask(t, r)
  /\ \A t, u \in Tasks : InTask(t, r) /\ InTask(u, r) => t = u

BotInv ==
  /\ BotTypeOK
  /\ NothingLeftBehind
  /\ ConfirmsLastSummary
  /\ HandlersAsShown
  /\ CreatedAsShown
  /\ \A r \in Recordings : InOnePlace(r)

=============================================================================
