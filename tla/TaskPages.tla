------------------------------ MODULE TaskPages -----------------------------
(***************************************************************************)
(* The list page with what creates and edits tasks on it: the quick add    *)
(* box (components/tasks/QuickAddTask.tsx), the task form                  *)
(* (components/tasks/TaskModal.tsx), and their requests, which outlive the *)
(* form, the box and the page they were sent from.                         *)
(*                                                                         *)
(* A title is a task; a text of the quick add box is the set of titles     *)
(* parseQuickAdd makes of it.  While the form is open nothing else on the  *)
(* page can be reached.                                                    *)
(***************************************************************************)
EXTENDS ListPage

CONSTANTS
  Slots,                \* bound: submissions of the quick add box in flight
  MaxForms              \* bound: forms opened

VARIABLES
  title,                \* title, the text of the quick add box
  isSubmitting,
  batch,                \* the submissions in flight
  typed,                \* history: times each title was typed
  made,                 \* history: times each title was created by the box
  form,                 \* the form on the screen, numbered, or 0
  modalTask,            \* what it edits, or NULL for a new task
  opened,               \* history: forms opened so far
  save                  \* the request of each form

quickAdd == <<title, isSubmitting, batch, typed, made>>
taskForm == <<form, modalTask, opened, save>>
vars == <<listVars, quickAdd, taskForm>>

Forms == 1..MaxForms

ASSUME FormConstants == MaxForms \in Nat /\ IsFiniteSet(Slots)

\* todo: titles not served yet.  mine: sent by the box on the screen.
Batch == [titles : SUBSET Tasks, todo : SUBSET Tasks, failed : BOOLEAN, mine : BOOLEAN]

PagesTypeOK ==
  /\ ListTypeOK
  /\ title \subseteq Tasks /\ isSubmitting \in BOOLEAN
  /\ batch \in [Slots -> Batch \cup {NULL}]
  /\ form \in 0..MaxForms /\ modalTask \in Tasks \cup {NULL}
  /\ save \in [Forms -> {"none", "sent", "ok", "failed"}]

-----------------------------------------------------------------------------
(***************************************************************************)
(* The quick add box.                                                      *)
(***************************************************************************)
TypeTitle(titles) ==
  /\ Act /\ titles \notin {title, {}}
  /\ title' = titles
  /\ typed' = [t \in Tasks |-> typed[t] + IF t \in titles THEN 1 ELSE 0]
  /\ UNCHANGED <<server, controls, rows, queries, bulk, faults, isSubmitting, batch, made, taskForm>>

\* Mutant: Enter is not held back while the button is.
SubmitAgain(s) ==
  /\ Act /\ title # {}
  /\ batch[s] = NULL
  /\ isSubmitting' = TRUE
  /\ batch' = [batch EXCEPT ![s] = [titles |-> title, todo |-> title,
                                    failed |-> FALSE, mine |-> TRUE]]
  /\ UNCHANGED <<server, controls, rows, queries, bulk, faults, title, typed, made, taskForm>>

\* handleSubmit: one createTask for each title.
Submit(s) ==
  /\ Act /\ title # {} /\ ~isSubmitting
  /\ batch[s] = NULL
  /\ isSubmitting' = TRUE
  /\ batch' = [batch EXCEPT ![s] = [titles |-> title, todo |-> title,
                                    failed |-> FALSE, mine |-> TRUE]]
  /\ UNCHANGED <<server, controls, rows, queries, bulk, faults, title, typed, made, taskForm>>

\* Mutant: a status the filters do not know.
CreatedAsActive(t) == server' = [server EXCEPT ![t] = IF @ = NULL THEN "active" ELSE @]

\* create_task: a new row.
Created(t) == server' = [server EXCEPT ![t] = IF @ = NULL THEN "pending" ELSE @]

ServeCreate(s, t) ==
  /\ batch[s] # NULL /\ t \in batch[s].todo
  /\ batch' = [batch EXCEPT ![s].todo = @ \ {t}]
  /\ Created(t) /\ made' = [made EXCEPT ![t] = @ + 1]
  /\ UNCHANGED <<controls, rows, queries, bulk, acts, faults, title, isSubmitting, typed, taskForm>>

\* The request or its answer is lost: Promise.all rejects at once, the text
\* stays in the box and nothing is fetched again.
CreateLost(s, t) ==
  /\ batch[s] # NULL /\ t \in batch[s].todo
  /\ faults < MaxFaults /\ faults' = faults + 1
  /\ batch' = [batch EXCEPT ![s].todo = @ \ {t}, ![s].failed = TRUE]
  /\ isSubmitting' = (isSubmitting /\ ~(batch[s].mine /\ ~batch[s].failed))
  /\ \/ Created(t) /\ made' = [made EXCEPT ![t] = @ + 1]
     \/ UNCHANGED <<server, made>>
  /\ UNCHANGED <<controls, rows, queries, bulk, acts, title, typed, taskForm>>

\* All are answered.  The box is emptied, whatever was typed in the meantime.
SettleBatch(s) ==
  /\ batch[s] # NULL /\ batch[s].todo = {}
  /\ batch' = [batch EXCEPT ![s] = NULL]
  /\ IF batch[s].failed
       THEN outdated' = Views /\ UNCHANGED <<cache, fetch, title, isSubmitting>>
       ELSE /\ Invalidate
            /\ title' = IF batch[s].mine THEN {} ELSE title
            /\ isSubmitting' = (isSubmitting /\ ~batch[s].mine)
  /\ UNCHANGED <<server, controls, rows, bulk, acts, faults, typed, made, taskForm>>

-----------------------------------------------------------------------------
(***************************************************************************)
(* The task form.                                                          *)
(***************************************************************************)
\* The add button, or onEdit of a row.
OpenForm ==
  /\ Act /\ form = 0 /\ opened < MaxForms
  /\ opened' = opened + 1 /\ form' = opened + 1
  /\ modalTask' \in Shown \cup {NULL}
  /\ UNCHANGED <<server, controls, rows, queries, bulk, faults, quickAdd, save>>

\* onClose: the cancel button, Escape, or a click beside the form.
CloseForm ==
  /\ Act /\ form # 0
  /\ form' = 0 /\ modalTask' = NULL
  /\ UNCHANGED <<server, controls, rows, queries, bulk, faults, quickAdd, opened, save>>

\* onSubmit; the button is disabled while isSaving.
SaveForm ==
  /\ Act /\ form # 0 /\ save[form] = "none"
  /\ save' = [save EXCEPT ![form] = "sent"]
  /\ UNCHANGED <<server, controls, rows, queries, bulk, faults, quickAdd, form, modalTask, opened>>

\* What an edit writes is not told apart; a new task gets a title that is free.
ServeSave(n) ==
  /\ save[n] = "sent"
  /\ \/ save' = [save EXCEPT ![n] = "ok"] /\ UNCHANGED faults
     \/ faults < MaxFaults /\ faults' = faults + 1 /\ save' = [save EXCEPT ![n] = "failed"]
  /\ \/ UNCHANGED server
     \/ \E t \in Tasks : server[t] = NULL /\ Created(t)
  /\ UNCHANGED <<controls, rows, queries, bulk, acts, quickAdd, form, modalTask, opened>>

\* Mutant: the answer closes the form on the screen.
AnswerClosesAny(n) == form' = 0 /\ modalTask' = NULL

\* The callbacks given to mutate run while the form they belong to is mounted.
AnswerCloses(n) ==
  IF form = n THEN form' = 0 /\ modalTask' = NULL ELSE UNCHANGED <<form, modalTask>>

\* onSuccess: the lists are fetched again, whether or not the form is there.
SaveSucceeds(n) ==
  /\ save[n] = "ok"
  /\ save' = [save EXCEPT ![n] = "none"]
  /\ AnswerCloses(n) /\ Invalidate
  /\ UNCHANGED <<server, controls, rows, bulk, acts, faults, quickAdd, opened>>

\* onError: a toast, and the form stays as it was filled in.
SaveFails(n) ==
  /\ save[n] = "failed"
  /\ save' = [save EXCEPT ![n] = "none"]
  /\ outdated' = Views
  /\ UNCHANGED <<server, controls, rows, cache, fetch, bulk, acts, faults, quickAdd,
                 form, modalTask, opened>>

-----------------------------------------------------------------------------
\* The user goes to another page and comes back: the state of the components is
\* new, what they sent is still under way, and so is the cache of the queries.
Remount(x) ==
  /\ Act /\ form = 0
  /\ text' = x /\ debounced' = x /\ timer' = NULL
  /\ filter' = "all" /\ offset' = 0 /\ Unticked
  /\ UNCHANGED cache
  /\ fetch' = [fetch EXCEPT ![View'] = IF @ = Idle THEN Sent ELSE @]
  /\ outdated' = IF fetch[View'] = Idle THEN outdated \ {View'} ELSE outdated
  /\ title' = {} /\ isSubmitting' = FALSE
  /\ batch' = [s \in Slots |-> IF batch[s] = NULL THEN NULL ELSE [batch[s] EXCEPT !.mine = FALSE]]
  /\ UNCHANGED <<server, bulk, faults, typed, made, taskForm>>

Init ==
  /\ ListInit
  /\ title = {} /\ isSubmitting = FALSE /\ batch = [s \in Slots |-> NULL]
  /\ typed = [t \in Tasks |-> 0] /\ made = [t \in Tasks |-> 0]
  /\ form = 0 /\ modalTask = NULL /\ opened = 0 /\ save = [n \in Forms |-> "none"]

\* What the components and the backend do on their own.
Proceed ==
  \/ ListProceeds /\ UNCHANGED <<quickAdd, taskForm>>
  \/ \E s \in Slots, t \in Tasks : ServeCreate(s, t)
  \/ \E s \in Slots : SettleBatch(s)
  \/ \E n \in Forms : ServeSave(n) \/ SaveSucceeds(n) \/ SaveFails(n)

Next ==
  \/ ListUser /\ form = 0 /\ UNCHANGED <<quickAdd, taskForm>>
  \/ \E titles \in SUBSET Tasks : form = 0 /\ TypeTitle(titles)
  \/ \E s \in Slots : form = 0 /\ Submit(s)
  \/ OpenForm \/ CloseForm \/ SaveForm
  \/ \E x \in Texts : Remount(x)
  \/ \E v \in Views : FetchLost(v) /\ UNCHANGED <<quickAdd, taskForm>>
  \/ \E s \in Slots, t \in Tasks : CreateLost(s, t)
  \/ Proceed

Spec == Init /\ [][Next]_vars

\* The timers fire and every request is served or fails, and is answered: each
\* step of Proceed uses up a request that only a user's act or a fault replaces.
FairSpec == Spec /\ WF_vars(Proceed)

-----------------------------------------------------------------------------
(***************************************************************************)
(* The rows that are ticked were ticked in a list of the filter and the    *)
(* page that are shown now: a bulk action never takes rows of a filter or  *)
(* a page the user has left (every control of ListPage.tsx clears the      *)
(* selection).  Of the search text it is true but once: a row ticked after *)
(* the last key and before the debounce is ticked in the list of the text  *)
(* before, and stays ticked, out of sight, when the list of the new text   *)
(* comes.  So no timer is running where a row is ticked that was ticked    *)
(* under another text than the one shown, and that text is one and the     *)
(* same: the ticked rows are of two lists at most.                         *)
(***************************************************************************)
SelectionOfOnePage ==
  \A t \in selected :
    /\ tickedUnder[t].filter = filter /\ tickedUnder[t].offset = offset
    /\ tickedUnder[t].text # debounced =>
         /\ timer = NULL
         /\ \A u \in selected : tickedUnder[u].text \in {tickedUnder[t].text, debounced}

(***************************************************************************)
(* Once the user is done the page comes to show what the server has for    *)
(* the text in the box, the filter and the page, however many answers of   *)
(* earlier views, saves and bulk completions were still on their way.  It  *)
(* may not where an answer was lost, nor of a view that was off the screen *)
(* or had never been loaded while its fetch was on its way and a change    *)
(* was answered: that fetch is not sent again.                             *)
(***************************************************************************)
ShowsServer ==
  /\ text = debounced
  /\ cache[View] # NULL
  /\ View \notin outdated => cache[View] \in Answers(View)

ListSettles == <>[]ShowsServer

(***************************************************************************)
(* The quick add box creates a title as often as it was typed, and not     *)
(* once for every press of Enter: a title is created again only where a    *)
(* request of it, or one sent with it, has failed (the isSubmitting guard  *)
(* of handleSubmit, and the text that stays in the box in the catch).      *)
(***************************************************************************)
CreatedAsTyped == \A t \in Tasks : made[t] <= typed[t] + faults

(***************************************************************************)
(* A task form goes from the screen because its user closes it or because  *)
(* its own save was answered, never for the late answer of a form that was *)
(* closed while it was saving (onSuccess is given to mutate, not to        *)
(* useCreateTask or useUpdateTask).                                        *)
(***************************************************************************)
OwnAnswerCloses ==
  [][form # 0 /\ form' # form =>
       acts' > acts \/ (save[form] = "ok" /\ save'[form] = "none")]_vars
=============================================================================
