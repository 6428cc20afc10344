------------------------- MODULE BotDialogueProofs -------------------------
(***************************************************************************)
(* Proofs about module BotDialogue: the inductive invariant, and with it   *)
(* that a task is what its summary showed, that a recording becomes one    *)
(* task at most and that a summary is answered once, for any number of     *)
(* handlers, tasks, recordings, summaries and faults.                      *)
(***************************************************************************)
EXTENDS BotDialogue, SequenceTheorems, TLAPS

-----------------------------------------------------------------------------
(***************************************************************************)
(* What a step does to the handlers.                                       *)
(***************************************************************************)
Doings == {"ask title", "greet", "ask category", "confirm", "clear",
           "check code", "find user", "download", "make task"}

HandlersOK == handler \in [Handlers -> Handler \cup {NULL}]

\* The handler k goes on with what it holds, or has just begun with nothing.
Keeps(k) ==
  handler'[k] # NULL =>
    \/ /\ handler[k] # NULL
       /\ handler'[k].draft = handler[k].draft
       /\ handler'[k].shown = handler[k].shown
       /\ handler'[k].recording = handler[k].recording
    \/ handler'[k].shown = 0 /\ handler'[k].recording = NULL

HandlersKeep == \A k \in Handlers : Keeps(k)

LEMMA NoDraftType == NoDraft \in Draft
  BY BotConstants DEF NoDraft, Draft

LEMMA DraftSet ==
  ASSUME NEW d \in Draft, NEW q \in Question, NEW a \in Answers[q] \cup {NULL}
  PROVE  [d EXCEPT ![q] = a] \in Draft
<1>1. d \in [Question -> (UNION {Answers[p] : p \in Question}) \cup {NULL}]
  BY DEF Draft
<1>2. a \in (UNION {Answers[p] : p \in Question}) \cup {NULL}
  <2>1. a # NULL => a \in UNION {Answers[p] : p \in Question}
    OBVIOUS
  <2>2. QED
    BY <2>1
<1>3. [d EXCEPT ![q] = a] \in [Question -> (UNION {Answers[p] : p \in Question}) \cup {NULL}]
  BY <1>1, <1>2
<1>4. \A p \in Question : [d EXCEPT ![q] = a][p] \in Answers[p] \cup {NULL}
  BY <1>1 DEF Draft
<1>5. QED
  BY <1>3, <1>4 DEF Draft

LEMMA AwaitKeeps ==
  ASSUME HandlersOK, NEW h \in Handlers, NEW doing \in Doings, Await(h, doing)
  PROVE  HandlersOK' /\ HandlersKeep
<1> DEFINE new == [doing |-> doing, draft |-> NoDraft, shown |-> 0, recording |-> NULL]
<1>1. new \in Handler
  <2>1. 0 \in 0..MaxSummaries
    BY BotConstants
  <2>2. QED
    BY <2>1, NoDraftType DEF Handler, Doings
<1>2. handler' = [handler EXCEPT ![h] = new]
  BY DEF Await
<1>3. HandlersOK'
  BY <1>1, <1>2 DEF HandlersOK
<1>4. ASSUME NEW k \in Handlers
      PROVE  Keeps(k)
  <2>1. CASE k = h
    BY <1>2, <2>1 DEF HandlersOK, Keeps
  <2>2. CASE k # h
    BY <1>2, <2>2 DEF HandlersOK, Keeps
  <2>3. QED
    BY <2>1, <2>2
<1>5. QED
  BY <1>3, <1>4 DEF HandlersKeep

LEMMA FinishKeeps ==
  ASSUME HandlersOK, NEW h \in Handlers, Finish(h)
  PROVE  HandlersOK' /\ HandlersKeep
  BY DEF HandlersOK, Finish, HandlersKeep, Keeps

LEMMA GoOnKeeps ==
  ASSUME HandlersOK, NEW h \in Handlers, handler[h] # NULL, NEW doing \in Doings,
         handler' = [handler EXCEPT ![h].doing = doing]
  PROVE  HandlersOK' /\ HandlersKeep
<1> DEFINE new == [handler[h] EXCEPT !.doing = doing]
<1>1. handler[h] \in Handler
  BY DEF HandlersOK
<1>2. /\ new \in Handler
      /\ new.draft = handler[h].draft
      /\ new.shown = handler[h].shown
      /\ new.recording = handler[h].recording
  BY <1>1 DEF Handler, Doings
<1>3. handler' = [handler EXCEPT ![h] = new]
  OBVIOUS
<1>4. HandlersOK'
  BY <1>2, <1>3 DEF HandlersOK
<1>5. ASSUME NEW k \in Handlers
      PROVE  Keeps(k)
  <2>1. CASE k = h
    <3>1. handler'[k] = new
      BY <1>3, <2>1 DEF HandlersOK
    <3>2. QED
      BY <1>2, <2>1, <3>1 DEF Keeps
  <2>2. CASE k # h
    <3>1. handler'[k] = handler[k]
      BY <1>3, <2>2 DEF HandlersOK
    <3>2. QED
      BY <3>1 DEF Keeps
  <2>3. QED
    BY <2>1, <2>2
<1>6. QED
  BY <1>4, <1>5 DEF HandlersKeep

\* The steps that only start, resume or end a handler that keeps what it holds.
Begins(h) == Start(h) \/ TypeCode(h) \/ NewTask(h) \/ AnswerTime(h) \/ SendVoice(h)

Ends(h) ==
  \/ Greet(h) \/ CodeRefused(h) \/ AskTitle(h) \/ AskCategory(h)
  \/ CategoryGone(h) \/ ClearAfterwards(h) \/ SaveVoice(h) \/ DownloadFails(h)
  \/ MakeVoiceTask(h) \/ Raise(h)

GoesOn(h) == CodeFound(h) \/ CreateConfirmed(h) \/ RefuseConfirmed(h) \/ FindUser(h)

LEMMA NextSplit ==
  Next => \/ \E h \in Handlers :
               Begins(h) \/ Ends(h) \/ GoesOn(h) \/ ConfirmYes(h) \/ ChooseDay(h)
          \/ ShortUpdate \/ Unlink \/ Restart
  BY DEF Next, Update, Resume, Begins, Ends, GoesOn

LEMMA HandlerStep ==
  ASSUME HandlersOK, [Next]_vars
  PROVE  \/ \E h \in Handlers : ConfirmYes(h) \/ ChooseDay(h)
         \/ HandlersOK' /\ HandlersKeep
<1> DEFINE Goal == HandlersOK' /\ HandlersKeep
<1>1. ASSUME NEW h \in Handlers, Begins(h)
      PROVE  Goal
  <2>1. \E doing \in Doings : Await(h, doing)
    BY <1>1 DEF Begins, Start, TypeCode, NewTask, AnswerTime, SendVoice, Doings
  <2>2. QED
    BY <2>1, AwaitKeeps
<1>2. ASSUME NEW h \in Handlers, Ends(h)
      PROVE  Goal
  <2>1. Finish(h)
    BY <1>2 DEF Ends, Greet, CodeRefused, AskTitle, AskCategory, CategoryGone,
                ClearAfterwards, SaveVoice, DownloadFails, MakeVoiceTask, Raise
  <2>2. QED
    BY <2>1, FinishKeeps
<1>3. ASSUME NEW h \in Handlers, GoesOn(h)
      PROVE  Goal
  <2>1. handler[h] # NULL
    BY <1>3 DEF GoesOn, CodeFound, CreateConfirmed, RefuseConfirmed, FindUser, Doing
  <2>2. \/ Finish(h)
        \/ \E doing \in Doings : handler' = [handler EXCEPT ![h].doing = doing]
    BY <1>3 DEF GoesOn, CodeFound, CreateConfirmed, RefuseConfirmed, FindUser, Doings
  <2>3. QED
    BY <2>1, <2>2, FinishKeeps, GoOnKeeps
<1>4. CASE UNCHANGED handler
  BY <1>4 DEF HandlersOK, HandlersKeep, Keeps
<1>5. CASE ShortUpdate \/ Unlink \/ UNCHANGED vars
  <2>1. UNCHANGED handler
    BY <1>5 DEF ShortUpdate, AnswerText, ChooseCategory, ChoosePriority, ConfirmNo,
                ChooseCustomDay, Unlink, vars
  <2>2. QED
    BY <1>4, <2>1
<1>6. CASE Restart
  BY <1>6 DEF Restart, HandlersOK, HandlersKeep, Keeps
<1>7. QED
  BY <1>1, <1>2, <1>3, <1>5, <1>6, NextSplit

-----------------------------------------------------------------------------
(***************************************************************************)
(* The types.                                                              *)
(***************************************************************************)
RestOK ==
  /\ state \in State \cup {NULL}
  /\ draft \in Draft
  /\ voice \in Recordings \cup {NULL}
  /\ linked \in BOOLEAN
  /\ summaries \in Seq(Draft) /\ Len(summaries) <= MaxSummaries
  /\ faults \in Nat

TasksOK == task \in [Tasks -> Task \cup {NULL}]

LEMMA TypeParts == BotTypeOK <=> RestOK /\ HandlersOK /\ TasksOK
  BY DEF BotTypeOK, RestOK, HandlersOK, TasksOK

LEMMA NowShown ==
  ASSUME RestOK
  PROVE  Len(summaries) \in 0..MaxSummaries
  BY BotConstants, LenProperties DEF RestOK

LEMMA HandlersStep ==
  ASSUME RestOK, HandlersOK, [Next]_vars
  PROVE  HandlersOK'
<1>1. ASSUME NEW h \in Handlers, ConfirmYes(h)
      PROVE  HandlersOK'
  <2> DEFINE new == [doing |-> "confirm", draft |-> draft, shown |-> Len(summaries),
                     recording |-> NULL]
  <2>1. new \in Handler
    BY NowShown DEF RestOK, Handler
  <2>2. handler' = [handler EXCEPT ![h] = new]
    BY <1>1 DEF ConfirmYes
  <2>3. QED
    BY <2>1, <2>2 DEF HandlersOK
<1>2. ASSUME NEW h \in Handlers, ChooseDay(h)
      PROVE  HandlersOK'
  <2> DEFINE new == [doing |-> "make task", draft |-> NoDraft, shown |-> 0,
                     recording |-> voice]
  <2>1. new \in Handler
    <3>1. 0 \in 0..MaxSummaries
      BY BotConstants
    <3>2. QED
      BY <3>1, NoDraftType DEF RestOK, Handler
  <2>2. handler' = handler \/ handler' = [handler EXCEPT ![h] = new]
    BY <1>2 DEF ChooseDay, TakeVoice
  <2>3. QED
    BY <2>1, <2>2 DEF HandlersOK
<1>3. QED
  BY <1>1, <1>2, HandlerStep

\* The tasks change where a handler stores one.
Stores(h) == CreateConfirmed(h) \/ MakeVoiceTask(h)

LEMMA TasksUnlessStored ==
  ASSUME [Next]_vars
  PROVE  UNCHANGED task \/ \E h \in Handlers : Stores(h)
<1>1. ASSUME NEW h \in Handlers,
             Begins(h) \/ Ends(h) \/ GoesOn(h) \/ ConfirmYes(h) \/ ChooseDay(h)
      PROVE  UNCHANGED task \/ Stores(h)
  BY <1>1 DEF Begins, Start, TypeCode, NewTask, AnswerTime, SendVoice, Ends, Greet,
              CodeRefused, AskTitle, AskCategory, CategoryGone, ClearAfterwards, SaveVoice,
              DownloadFails, Raise, GoesOn, CodeFound, RefuseConfirmed, FindUser,
              ConfirmYes, ChooseDay, Stores
<1>2. CASE ShortUpdate \/ Unlink \/ Restart \/ UNCHANGED vars
  BY <1>2 DEF ShortUpdate, AnswerText, ChooseCategory, ChoosePriority, ConfirmNo,
              ChooseCustomDay, Unlink, Restart, vars
<1>3. QED
  BY <1>1, <1>2, NextSplit

LEMMA StoredType ==
  ASSUME TasksOK, NEW new \in Task, Stored(new)
  PROVE  TasksOK'
  BY DEF TasksOK, Stored

LEMMA TasksStep ==
  ASSUME HandlersOK, TasksOK, [Next]_vars
  PROVE  TasksOK'
<1>1. CASE UNCHANGED task
  BY <1>1 DEF TasksOK
<1>2. ASSUME NEW h \in Handlers, CreateConfirmed(h)
      PROVE  TasksOK'
  <2> DEFINE new == [draft |-> handler[h].draft, shown |-> handler[h].shown,
                     recording |-> NULL]
  <2>1. handler[h] \in Handler
    BY <1>2 DEF CreateConfirmed, Doing, HandlersOK
  <2>2. new \in Task
    BY <2>1 DEF Handler, Task
  <2>3. QED
    BY <1>2, <2>2, StoredType DEF CreateConfirmed
<1>3. ASSUME NEW h \in Handlers, MakeVoiceTask(h)
      PROVE  TasksOK'
  <2> DEFINE new == [draft |-> NoDraft, shown |-> 0, recording |-> handler[h].recording]
  <2>1. handler[h] \in Handler
    BY <1>3 DEF MakeVoiceTask, Doing, HandlersOK
  <2>2. new \in Task
    <3>1. 0 \in 0..MaxSummaries
      BY BotConstants
    <3>2. QED
      BY <2>1, <3>1, NoDraftType DEF Handler, Task
  <2>3. QED
    BY <1>1, <1>3, <2>2, StoredType DEF MakeVoiceTask
<1>4. QED
  BY <1>1, <1>2, <1>3, TasksUnlessStored DEF Stores

\* The question that is open is one of the wizard's.
LEMMA AnswerType ==
  ASSUME RestOK, NEW q \in Question, NEW a \in Answers[q] \cup {NULL},
         draft' = [draft EXCEPT ![q] = a]
  PROVE  draft' \in Draft
  BY DraftSet DEF RestOK

LEMMA RestStep ==
  ASSUME RestOK, [Next]_vars
  PROVE  RestOK'
<1>1. ASSUME NEW h \in Handlers, Begins(h)
      PROVE  RestOK'
  <2>1. CASE AnswerTime(h)
    <3>1. PICK a \in Answers["due_time"] : draft' = [draft EXCEPT !["due_time"] = a]
      BY <2>1 DEF AnswerTime
    <3>2. draft' \in Draft
      BY <3>1, AnswerType DEF Question
    <3>3. QED
      BY <2>1, <3>2 DEF AnswerTime, RestOK
  <2>2. CASE Start(h) \/ TypeCode(h) \/ NewTask(h) \/ SendVoice(h)
    BY <2>2 DEF Start, TypeCode, NewTask, SendVoice, data, RestOK
  <2>3. QED
    BY <1>1, <2>1, <2>2 DEF Begins
<1>2. CASE Clear /\ UNCHANGED <<linked, summaries>> /\ faults' \in Nat
  BY <1>2, NoDraftType DEF Clear, RestOK
<1>3. ASSUME NEW h \in Handlers, Ends(h)
      PROVE  RestOK'
  <2>1. CASE Greet(h)
    BY <1>2, <2>1 DEF Greet, RestOK, State, Question
  <2>2. CASE AskTitle(h)
    BY <2>2 DEF AskTitle, RestOK, State, Question
  <2>3. CASE AskCategory(h)
    BY <1>2, <2>3 DEF AskCategory, RestOK, State, Question
  <2>4. CASE CategoryGone(h) \/ ClearAfterwards(h)
    BY <1>2, <2>4 DEF CategoryGone, ClearAfterwards, RestOK
  <2>5. CASE SaveVoice(h)
    BY <2>5 DEF SaveVoice, RestOK, State
  <2>6. CASE CodeRefused(h) \/ DownloadFails(h) \/ MakeVoiceTask(h)
    BY <2>6 DEF CodeRefused, DownloadFails, MakeVoiceTask, data, RestOK
  <2>7. CASE Raise(h)
    BY <2>7 DEF Raise, Fault, data, RestOK
  <2>8. QED
    BY <1>3, <2>1, <2>2, <2>3, <2>4, <2>5, <2>6, <2>7 DEF Ends
<1>4. ASSUME NEW h \in Handlers, GoesOn(h) \/ ConfirmYes(h)
      PROVE  RestOK'
  BY <1>4 DEF GoesOn, CodeFound, CreateConfirmed, RefuseConfirmed, FindUser, ConfirmYes,
              data, RestOK
<1>5. ASSUME NEW h \in Handlers, ChooseDay(h)
      PROVE  RestOK'
  BY <1>2, <1>5 DEF ChooseDay, RestOK
<1>6. CASE ShortUpdate
  <2>1. CASE AnswerText
    <3>1. state \in Question /\ state' \in State
      BY <2>1 DEF AnswerText, Question, State
    <3>2. PICK a \in Answers[state] : draft' = [draft EXCEPT ![state] = a]
      BY <2>1 DEF AnswerText
    <3>3. draft' \in Draft
      BY <3>1, <3>2, AnswerType
    <3>4. QED
      BY <2>1, <3>1, <3>3 DEF AnswerText, RestOK
  <2>2. CASE ChooseCategory
    <3>1. PICK a \in Answers["category"] \cup {NULL} :
            draft' = [draft EXCEPT !["category"] = a]
      BY <2>2 DEF ChooseCategory
    <3>2. draft' \in Draft
      BY <3>1, AnswerType DEF Question
    <3>3. QED
      BY <2>2, <3>2 DEF ChooseCategory, RestOK, State, Question
  <2>3. CASE ChoosePriority
    <3>1. PICK a \in Answers["priority"] : draft' = [draft EXCEPT !["priority"] = a]
      BY <2>3 DEF ChoosePriority
    <3>2. draft' \in Draft
      BY <3>1, AnswerType DEF Question
    <3>3. summaries' \in Seq(Draft) /\ Len(summaries') <= MaxSummaries
      <4>1. CASE Complete(draft')
        <5>1. summaries' = Append(summaries, draft') /\ Len(summaries) < MaxSummaries
          BY <2>3, <4>1 DEF ChoosePriority
        <5>2. summaries' \in Seq(Draft) /\ Len(summaries') = Len(summaries) + 1
          BY <3>2, <5>1, AppendProperties DEF RestOK
        <5>3. QED
          BY <5>1, <5>2, NowShown, BotConstants
      <4>2. CASE ~Complete(draft')
        BY <2>3, <4>2 DEF ChoosePriority, RestOK
      <4>3. QED
        BY <4>1, <4>2
    <3>4. state' \in State \cup {NULL}
      BY <2>3 DEF ChoosePriority, RestOK, State
    <3>5. QED
      BY <2>3, <3>2, <3>3, <3>4 DEF ChoosePriority, RestOK
  <2>4. CASE ConfirmNo
    BY <1>2, <2>4 DEF ConfirmNo, RestOK
  <2>5. CASE ChooseCustomDay
    BY <2>5 DEF ChooseCustomDay, RestOK, State
  <2>6. QED
    BY <1>6, <2>1, <2>2, <2>3, <2>4, <2>5 DEF ShortUpdate
<1>7. CASE Unlink
  BY <1>7 DEF Unlink, data, RestOK
<1>8. CASE Restart
  BY <1>2, <1>8 DEF Restart, Fault, RestOK
<1>9. CASE UNCHANGED vars
  BY <1>9 DEF vars, RestOK
<1>10. QED
  BY <1>1, <1>3, <1>4, <1>5, <1>6, <1>7, <1>8, <1>9, NextSplit

-----------------------------------------------------------------------------
(***************************************************************************)
(* The dialogue: after a step it is closed and empty, or stands as it did, *)
(* or waits at a question, or has just shown a summary.                    *)
(***************************************************************************)
Shows ==
  /\ state' = "confirm"
  /\ draft' \in Draft
  /\ summaries' = Append(summaries, draft')

DialogueMoves ==
  \/ Clear /\ UNCHANGED summaries
  \/ UNCHANGED <<state, draft, voice, summaries>>
  \/ state' \in State \ {"confirm"} /\ UNCHANGED summaries
  \/ Shows

LEMMA DialogueStep ==
  ASSUME RestOK, [Next]_vars
  PROVE  DialogueMoves
<1>1. ASSUME NEW h \in Handlers, Begins(h)
      PROVE  DialogueMoves
  <2>1. CASE AnswerTime(h)
    BY <2>1 DEF AnswerTime, DialogueMoves, State, Question
  <2>2. CASE Start(h) \/ TypeCode(h) \/ NewTask(h) \/ SendVoice(h)
    BY <2>2 DEF Start, TypeCode, NewTask, SendVoice, data, DialogueMoves
  <2>3. QED
    BY <1>1, <2>1, <2>2 DEF Begins
<1>2. ASSUME NEW h \in Handlers, Ends(h)
      PROVE  DialogueMoves
  <2>1. CASE Greet(h) \/ AskCategory(h) \/ SaveVoice(h)
    BY <2>1 DEF Greet, AskCategory, SaveVoice, DialogueMoves, State, Question
  <2>2. CASE AskTitle(h)
    BY <2>2 DEF AskTitle, DialogueMoves, State, Question
  <2>3. CASE CategoryGone(h) \/ ClearAfterwards(h)
    BY <2>3 DEF CategoryGone, ClearAfterwards, DialogueMoves
  <2>4. CASE CodeRefused(h) \/ DownloadFails(h) \/ MakeVoiceTask(h) \/ Raise(h)
    BY <2>4 DEF CodeRefused, DownloadFails, MakeVoiceTask, Raise, data, DialogueMoves
  <2>5. QED
    BY <1>2, <2>1, <2>2, <2>3, <2>4 DEF Ends
<1>3. ASSUME NEW h \in Handlers, GoesOn(h) \/ ConfirmYes(h) \/ ChooseDay(h)
      PROVE  DialogueMoves
  BY <1>3 DEF GoesOn, CodeFound, CreateConfirmed, RefuseConfirmed, FindUser, ConfirmYes,
              ChooseDay, data, DialogueMoves
<1>4. CASE ShortUpdate
  <2>1. CASE AnswerText \/ ChooseCategory \/ ChooseCustomDay
    BY <2>1 DEF AnswerText, ChooseCategory, ChooseCustomDay, DialogueMoves, State, Question
  <2>2. CASE ConfirmNo
    BY <2>2 DEF ConfirmNo, DialogueMoves
  <2>3. CASE ChoosePriority
    <3>1. draft' \in Draft
      BY <1>4, RestStep DEF RestOK
    <3>2. CASE Complete(draft')
      BY <2>3, <3>1, <3>2 DEF ChoosePriority, DialogueMoves, Shows
    <3>3. CASE ~Complete(draft')
      BY <2>3, <3>3 DEF ChoosePriority, DialogueMoves, State, Question
    <3>4. QED
      BY <3>2, <3>3
  <2>4. QED
    BY <1>4, <2>1, <2>2, <2>3 DEF ShortUpdate
<1>5. CASE Unlink \/ Restart \/ UNCHANGED vars
  BY <1>5 DEF Unlink, Restart, vars, data, DialogueMoves
<1>6. QED
  BY <1>1, <1>2, <1>3, <1>4, <1>5, NextSplit

LEMMA DialogueInvStep ==
  ASSUME RestOK, NothingLeftBehind, ConfirmsLastSummary, [Next]_vars
  PROVE  NothingLeftBehind' /\ ConfirmsLastSummary'
<1>1. NULL # "confirm" /\ \A q \in State : q # NULL
  BY BotConstants DEF State
<1>2. CASE Clear /\ UNCHANGED summaries
  BY <1>1, <1>2 DEF Clear, NothingLeftBehind, ConfirmsLastSummary
<1>3. CASE UNCHANGED <<state, draft, voice, summaries>>
  BY <1>3 DEF NothingLeftBehind, ConfirmsLastSummary
<1>4. CASE state' \in State \ {"confirm"} /\ UNCHANGED summaries
  BY <1>1, <1>4 DEF NothingLeftBehind, ConfirmsLastSummary
<1>5. CASE Shows
  <2>1. Len(summaries') = Len(summaries) + 1 /\ summaries'[Len(summaries) + 1] = draft'
    BY <1>5, AppendProperties DEF Shows, RestOK
  <2>2. Len(summaries) \in Nat
    BY LenProperties DEF RestOK
  <2>3. QED
    BY <1>1, <1>5, <2>1, <2>2 DEF Shows, NothingLeftBehind, ConfirmsLastSummary
<1>6. QED
  BY <1>2, <1>3, <1>4, <1>5, DialogueStep DEF DialogueMoves

-----------------------------------------------------------------------------
(***************************************************************************)
(* What was shown stays shown.                                             *)
(***************************************************************************)
LEMMA ShownStays ==
  ASSUME RestOK, [Next]_vars, NEW n \in 1..MaxSummaries, n <= Len(summaries)
  PROVE  n <= Len(summaries') /\ summaries'[n] = summaries[n]
<1>1. CASE UNCHANGED summaries
  BY <1>1
<1>2. CASE Shows
  <2>1. Len(summaries) \in Nat /\ MaxSummaries \in Nat /\ n \in 1..Len(summaries)
    BY LenProperties, BotConstants DEF RestOK
  <2>2. Len(summaries') = Len(summaries) + 1 /\ summaries'[n] = summaries[n]
    BY <1>2, <2>1, AppendProperties DEF Shows, RestOK
  <2>3. QED
    BY <2>1, <2>2
<1>3. QED
  BY <1>1, <1>2, DialogueStep DEF DialogueMoves

LEMMA StaysAsShown ==
  ASSUME RestOK, [Next]_vars, NEW n \in 0..MaxSummaries, NEW d,
         n # 0 => n <= Len(summaries) /\ d = summaries[n]
  PROVE  n # 0 => n <= Len(summaries') /\ d = summaries'[n]
<1>1. n # 0 => n \in 1..MaxSummaries
  BY BotConstants
<1>2. QED
  BY <1>1, ShownStays

LEMMA KeptAsShown ==
  ASSUME RestOK, HandlersOK, HandlersAsShown, HandlersKeep, [Next]_vars
  PROVE  HandlersAsShown'
<1>1. SUFFICES ASSUME NEW h \in Handlers, handler'[h] # NULL,
                      handler'[h].shown # 0
               PROVE  /\ handler'[h].shown <= Len(summaries')
                      /\ handler'[h].draft = summaries'[handler'[h].shown]
  BY DEF HandlersAsShown, AsShown
<1>2. /\ handler[h] # NULL
      /\ handler'[h].draft = handler[h].draft
      /\ handler'[h].shown = handler[h].shown
  BY <1>1 DEF HandlersKeep, Keeps
<1>3. handler[h].shown \in 0..MaxSummaries
  BY <1>2 DEF HandlersOK, Handler
<1>4. QED
  BY <1>1, <1>2, <1>3, StaysAsShown DEF HandlersAsShown, AsShown

LEMMA HandlersAsShownStep ==
  ASSUME RestOK, HandlersOK, ConfirmsLastSummary, HandlersAsShown, [Next]_vars
  PROVE  HandlersAsShown'
<1>1. ASSUME NEW h \in Handlers, ConfirmYes(h)
      PROVE  HandlersAsShown'
  <2>1. UNCHANGED summaries /\ draft = summaries[Len(summaries)]
    BY <1>1 DEF ConfirmYes, ConfirmsLastSummary
  <2>2. /\ handler'[h].shown = Len(summaries)
        /\ handler'[h].draft = draft
        /\ \A k \in Handlers : k # h => handler'[k] = handler[k]
    BY <1>1 DEF ConfirmYes, HandlersOK
  <2>3. Len(summaries) \in Nat
    BY LenProperties DEF RestOK
  <2>4. ASSUME NEW k \in Handlers, handler'[k] # NULL
        PROVE  AsShown(handler[k])'
    <3>1. CASE k = h
      BY <2>1, <2>2, <2>3, <3>1 DEF AsShown
    <3>2. CASE k # h
      BY <2>1, <2>2, <2>4, <3>2 DEF AsShown, HandlersAsShown
    <3>3. QED
      BY <3>1, <3>2
  <2>5. QED
    BY <2>4 DEF HandlersAsShown
<1>2. ASSUME NEW h \in Handlers, ChooseDay(h)
      PROVE  HandlersAsShown'
  <2>1. UNCHANGED summaries
    BY <1>2 DEF ChooseDay
  <2>2. /\ handler'[h] # NULL => handler'[h].shown = 0 \/ handler'[h] = handler[h]
        /\ \A k \in Handlers : k # h => handler'[k] = handler[k]
    BY <1>2 DEF ChooseDay, TakeVoice, HandlersOK
  <2>3. QED
    BY <2>1, <2>2 DEF AsShown, HandlersAsShown
<1>3. QED
  BY <1>1, <1>2, HandlerStep, KeptAsShown

LEMMA CreatedAsShownStep ==
  ASSUME RestOK, HandlersOK, TasksOK, HandlersAsShown, CreatedAsShown, [Next]_vars
  PROVE  CreatedAsShown'
<1>1. ASSUME NEW t \in Tasks, task[t] # NULL
      PROVE  /\ task[t].shown \in 0..MaxSummaries
             /\ task[t].shown # 0 =>
                  /\ task[t].shown <= Len(summaries')
                  /\ task[t].draft = summaries'[task[t].shown]
  <2>1. task[t].shown \in 0..MaxSummaries
    BY <1>1 DEF TasksOK, Task
  <2>2. QED
    BY <1>1, <2>1, StaysAsShown DEF CreatedAsShown, AsShown
<1>2. CASE UNCHANGED task
  BY <1>1, <1>2 DEF CreatedAsShown, AsShown
<1>3. ASSUME NEW new, Stored(new), new.shown # 0 => /\ new.shown <= Len(summaries')
                                                    /\ new.draft = summaries'[new.shown]
      PROVE  CreatedAsShown'
  <2>1. PICK t \in Tasks : task' = [task EXCEPT ![t] = new]
    BY <1>3 DEF Stored
  <2>2. task'[t] = new /\ \A u \in Tasks : u # t => task'[u] = task[u]
    BY <2>1 DEF TasksOK
  <2>3. QED
    BY <1>1, <1>3, <2>2 DEF CreatedAsShown, AsShown
<1>4. ASSUME NEW h \in Handlers, CreateConfirmed(h)
      PROVE  CreatedAsShown'
  <2>1. handler[h] # NULL /\ UNCHANGED summaries
    BY <1>4 DEF CreateConfirmed, Doing
  <2>2. handler[h].shown # 0 => /\ handler[h].shown <= Len(summaries)
                                /\ handler[h].draft = summaries[handler[h].shown]
    BY <2>1 DEF HandlersAsShown, AsShown
  <2>3. QED
    BY <1>3, <1>4, <2>1, <2>2 DEF CreateConfirmed
<1>5. ASSUME NEW h \in Handlers, MakeVoiceTask(h)
      PROVE  CreatedAsShown'
  BY <1>2, <1>3, <1>5 DEF MakeVoiceTask
<1>6. QED
  BY <1>2, <1>4, <1>5, TasksUnlessStored DEF Stores

-----------------------------------------------------------------------------
(***************************************************************************)
(* A recording moves from the data to a handler to a task and is never     *)
(* copied.                                                                 *)
(***************************************************************************)
LEMMA KeptRecording ==
  ASSUME HandlersKeep, NEW r \in Recordings, NEW k \in Handlers, InHandler(k, r)'
  PROVE  InHandler(k, r)
  BY BotConstants DEF HandlersKeep, Keeps, InHandler

LEMMA VoiceUnlessSaved ==
  ASSUME [Next]_vars
  PROVE  voice' \in {voice, NULL} \/ \E h \in Handlers : SaveVoice(h)
<1>1. ASSUME NEW h \in Handlers, Begins(h) \/ Ends(h)
      PROVE  voice' \in {voice, NULL} \/ SaveVoice(h)
  BY <1>1 DEF Begins, Start, TypeCode, NewTask, AnswerTime, SendVoice, Ends, Greet,
              CodeRefused, AskTitle, AskCategory, CategoryGone, ClearAfterwards,
              DownloadFails, MakeVoiceTask, Raise, data, Clear
<1>2. ASSUME NEW h \in Handlers, GoesOn(h) \/ ConfirmYes(h) \/ ChooseDay(h)
      PROVE  voice' \in {voice, NULL}
  BY <1>2 DEF GoesOn, CodeFound, CreateConfirmed, RefuseConfirmed, FindUser, ConfirmYes,
              ChooseDay, data, Clear
<1>3. CASE ShortUpdate \/ Unlink \/ Restart \/ UNCHANGED vars
  BY <1>3 DEF ShortUpdate, AnswerText, ChooseCategory, ChoosePriority, ConfirmNo,
              ChooseCustomDay, Unlink, Restart, vars, data, Clear
<1>4. QED
  BY <1>1, <1>2, <1>3, NextSplit

LEMMA RecordingStep ==
  ASSUME HandlersOK, TasksOK, [Next]_vars, NEW r \in Recordings, InOnePlace(r)
  PROVE  InOnePlace(r)'
<1>1. r # NULL
  BY BotConstants
\* A recording is in a place only if it was there before.
<1>2. CASE /\ voice' \in {voice, NULL}
           /\ \A k \in Handlers : InHandler(k, r)' => InHandler(k, r)
           /\ \A t \in Tasks : InTask(t, r)' => InTask(t, r)
  <2>1. voice' = r => voice = r
    BY <1>1, <1>2
  <2>2. QED
    BY <1>2, <2>1 DEF InOnePlace
<1>3. ASSUME NEW h \in Handlers, SaveVoice(h)
      PROVE  InOnePlace(r)'
  <2>1. voice' = r => ~Used(r)
    BY <1>3 DEF SaveVoice
  <2>2. \A k \in Handlers : InHandler(k, r)' => InHandler(k, r)
    BY <1>3, FinishKeeps, KeptRecording DEF SaveVoice
  <2>3. \A t \in Tasks : InTask(t, r)' <=> InTask(t, r)
    BY <1>3 DEF SaveVoice, InTask
  <2>4. QED
    BY <2>1, <2>2, <2>3 DEF InOnePlace, Used
<1>4. ASSUME NEW h \in Handlers, ChooseDay(h)
      PROVE  InOnePlace(r)'
  <2>1. voice' # r
    BY <1>1, <1>4 DEF ChooseDay, Clear
  <2>2. /\ InHandler(h, r)' => InHandler(h, r) \/ voice = r
        /\ \A k \in Handlers : k # h /\ InHandler(k, r)' => InHandler(k, r)
    BY <1>4 DEF ChooseDay, TakeVoice, HandlersOK, InHandler
  <2>3. \A t \in Tasks : InTask(t, r)' <=> InTask(t, r)
    BY <1>4 DEF ChooseDay, InTask
  <2>4. QED
    BY <2>1, <2>2, <2>3 DEF InOnePlace
<1>5. ASSUME NEW h \in Handlers, MakeVoiceTask(h)
      PROVE  InOnePlace(r)'
  <2>1. voice' = voice
    BY <1>5 DEF MakeVoiceTask, data
  <2>2. ~InHandler(h, r)' /\ \A k \in Handlers : InHandler(k, r)' => InHandler(k, r)
    BY <1>5 DEF MakeVoiceTask, Finish, HandlersOK, InHandler
  <2>3. CASE UNCHANGED task
    BY <2>1, <2>2, <2>3 DEF InOnePlace, InTask
  <2>4. ASSUME NEW t \in Tasks,
               task' = [task EXCEPT ![t] =
                 [draft |-> NoDraft, shown |-> 0, recording |-> handler[h].recording]]
        PROVE  InOnePlace(r)'
    <3>1. InTask(t, r)' => InHandler(h, r)
      BY <1>5, <2>4 DEF MakeVoiceTask, Doing, TasksOK, InTask, InHandler
    <3>2. \A u \in Tasks : u # t /\ InTask(u, r)' => InTask(u, r)
      BY <2>4 DEF TasksOK, InTask
    <3>3. QED
      BY <2>1, <2>2, <3>1, <3>2 DEF InOnePlace
  <2>5. QED
    BY <1>5, <2>3, <2>4 DEF MakeVoiceTask, Stored
<1>6. ASSUME ~\E h \in Handlers :
                SaveVoice(h) \/ ConfirmYes(h) \/ ChooseDay(h) \/ MakeVoiceTask(h)
      PROVE  InOnePlace(r)'
  <2>1. voice' \in {voice, NULL}
    BY <1>6, VoiceUnlessSaved
  <2>2. \A k \in Handlers : InHandler(k, r)' => InHandler(k, r)
    BY <1>6, HandlerStep, KeptRecording
  <2>3. \A t \in Tasks : InTask(t, r)' => InTask(t, r)
    <3>1. CASE UNCHANGED task
      BY <3>1 DEF InTask
    <3>2. ASSUME NEW h \in Handlers, CreateConfirmed(h)
          PROVE  \A t \in Tasks : InTask(t, r)' => InTask(t, r)
      BY <1>1, <3>2 DEF CreateConfirmed, Stored, TasksOK, InTask
    <3>3. QED
      BY <1>6, <3>1, <3>2, TasksUnlessStored DEF Stores
  <2>4. QED
    BY <1>2, <2>1, <2>2, <2>3
<1>7. ASSUME NEW h \in Handlers, ConfirmYes(h)
      PROVE  InOnePlace(r)'
  <2>1. \A k \in Handlers : InHandler(k, r)' => InHandler(k, r)
    BY <1>1, <1>7 DEF ConfirmYes, HandlersOK, InHandler
  <2>2. UNCHANGED <<voice, task>>
    BY <1>7 DEF ConfirmYes, data
  <2>3. QED
    BY <1>2, <2>1, <2>2 DEF InTask
<1>8. QED
  BY <1>3, <1>4, <1>5, <1>6, <1>7

-----------------------------------------------------------------------------
(***************************************************************************)
(* The summary on the screen.  A handler that came from a summary waits    *)
(* for the account or is about to clear the dialogue, and while the        *)
(* dialogue is still at a summary that has become a task, such a handler   *)
(* is there to take it away.                                               *)
(***************************************************************************)
OnlyConfirmsShown ==
  \A h \in Handlers :
    handler[h] # NULL /\ handler[h].doing \notin {"confirm", "clear"} => handler[h].shown = 0

ShownAnswered ==
  state = "confirm" /\ Answered(Len(summaries)) => Answering(Len(summaries)) \/ faults > 0

LEMMA OnlyConfirmsShownStep ==
  ASSUME HandlersOK, OnlyConfirmsShown, [Next]_vars
  PROVE  OnlyConfirmsShown'
<1> USE DEF HandlersOK
<1>1. ASSUME NEW h \in Handlers, Begins(h)
      PROVE  OnlyConfirmsShown'
  <2>1. /\ handler'[h].shown = 0
        /\ \A k \in Handlers : k # h => handler'[k] = handler[k]
    <3>1. PICK doing \in Doings : Await(h, doing)
      BY <1>1 DEF Begins, Start, TypeCode, NewTask, AnswerTime, SendVoice, Doings
    <3>2. handler' = [handler EXCEPT ![h] =
            [doing |-> doing, draft |-> NoDraft, shown |-> 0, recording |-> NULL]]
      BY <3>1 DEF Await
    <3>3. QED
      BY <3>2
  <2>2. QED
    BY <2>1 DEF OnlyConfirmsShown
<1>2. ASSUME NEW h \in Handlers, Finish(h)
      PROVE  OnlyConfirmsShown'
  BY <1>2 DEF Finish, OnlyConfirmsShown
<1>3. ASSUME NEW h \in Handlers, handler[h] # NULL, NEW doing \in Doings,
             handler' = [handler EXCEPT ![h].doing = doing],
             doing \in {"confirm", "clear"} \/ handler[h].shown = 0
      PROVE  OnlyConfirmsShown'
  <2>1. handler[h] \in Handler
    BY <1>3
  <2>2. handler'[h].doing = doing /\ handler'[h].shown = handler[h].shown
    BY <1>3, <2>1 DEF Handler, Doings
  <2>3. \A k \in Handlers : k # h => handler'[k] = handler[k]
    BY <1>3
  <2>4. QED
    BY <1>3, <2>2, <2>3 DEF OnlyConfirmsShown
<1>4. ASSUME NEW h \in Handlers, Ends(h)
      PROVE  OnlyConfirmsShown'
  <2>1. Finish(h)
    BY <1>4 DEF Ends, Greet, CodeRefused, AskTitle, AskCategory, CategoryGone,
                ClearAfterwards, SaveVoice, DownloadFails, MakeVoiceTask, Raise
  <2>2. QED
    BY <1>2, <2>1
<1>5. ASSUME NEW h \in Handlers, GoesOn(h)
      PROVE  OnlyConfirmsShown'
  <2>1. handler[h] # NULL
    BY <1>5 DEF GoesOn, CodeFound, CreateConfirmed, RefuseConfirmed, FindUser, Doing
  <2>2. CASE CodeFound(h) \/ CreateConfirmed(h) \/ RefuseConfirmed(h)
    <3>1. handler' = [handler EXCEPT ![h].doing = "clear"] /\ "clear" \in Doings
      BY <2>2 DEF CodeFound, CreateConfirmed, RefuseConfirmed, Doings
    <3>2. QED
      BY <1>3, <2>1, <3>1
  <2>3. CASE FindUser(h)
    <3>1. handler[h].shown = 0 /\ "download" \in Doings
      BY <2>1, <2>3 DEF FindUser, Doing, OnlyConfirmsShown, Doings
    <3>2. Finish(h) \/ handler' = [handler EXCEPT ![h].doing = "download"]
      BY <2>3 DEF FindUser
    <3>3. QED
      BY <1>2, <1>3, <2>1, <3>1, <3>2
  <2>4. QED
    BY <1>5, <2>2, <2>3 DEF GoesOn
<1>6. ASSUME NEW h \in Handlers, ConfirmYes(h) \/ ChooseDay(h)
      PROVE  OnlyConfirmsShown'
  <2>1. /\ \/ UNCHANGED handler
           \/ handler'[h].doing = "confirm"
           \/ handler'[h].shown = 0
        /\ \A k \in Handlers : k # h => handler'[k] = handler[k]
    <3>1. CASE ConfirmYes(h)
      <4>1. handler' = [handler EXCEPT ![h] =
              [doing |-> "confirm", draft |-> draft, shown |-> Len(summaries),
               recording |-> NULL]]
        BY <3>1 DEF ConfirmYes
      <4>2. QED
        BY <4>1
    <3>2. CASE ChooseDay(h)
      <4> DEFINE new == [doing |-> "make task", draft |-> NoDraft, shown |-> 0,
                         recording |-> voice]
      <4>1. UNCHANGED handler \/ handler' = [handler EXCEPT ![h] = new]
        BY <3>2 DEF ChooseDay, TakeVoice
      <4>2. new.shown = 0
        OBVIOUS
      <4> HIDE DEF new
      <4>3. QED
        BY <4>1, <4>2
    <3>3. QED
      BY <1>6, <3>1, <3>2
  <2>2. QED
    BY <2>1 DEF OnlyConfirmsShown
<1>7. CASE ShortUpdate \/ Unlink \/ UNCHANGED vars
  <2>1. UNCHANGED handler
    BY <1>7 DEF ShortUpdate, AnswerText, ChooseCategory, ChoosePriority, ConfirmNo,
                ChooseCustomDay, Unlink, vars
  <2>2. QED
    BY <2>1 DEF OnlyConfirmsShown
<1>8. CASE Restart
  BY <1>8 DEF Restart, OnlyConfirmsShown
<1>9. QED
  BY <1>1, <1>4, <1>5, <1>6, <1>7, <1>8, NextSplit

\* A handler that came from a summary goes when the dialogue does.
LEMMA AnsweringStays ==
  ASSUME HandlersOK, OnlyConfirmsShown, faults \in Nat, [Next]_vars,
         NEW n \in Nat, n # 0, Answering(n), state' = "confirm"
  PROVE  Answering(n)' \/ faults' > 0
<1>1. PICK k \in Handlers : handler[k] # NULL /\ handler[k].shown = n
  BY DEF Answering
<1>2. handler[k] \in Handler /\ handler[k].doing \in {"confirm", "clear"}
  BY <1>1 DEF HandlersOK, OnlyConfirmsShown
<1>3. ~Clear
  BY BotConstants DEF Clear, State
<1>4. CASE handler'[k] = handler[k]
  BY <1>1, <1>4 DEF Answering
<1>5. ASSUME NEW h \in Handlers, handler[h] = NULL,
             \A j \in Handlers : j # h => handler'[j] = handler[j]
      PROVE  Answering(n)'
  <2>1. handler'[k] = handler[k]
    BY <1>1, <1>5
  <2>2. QED
    BY <1>1, <2>1 DEF Answering
<1>6. ASSUME NEW h \in Handlers, Begins(h) \/ ConfirmYes(h)
      PROVE  Answering(n)'
  <2>1. handler[h] = NULL /\ \E new : handler' = [handler EXCEPT ![h] = new]
    BY <1>6 DEF Begins, Start, TypeCode, NewTask, AnswerTime, SendVoice, Await, ConfirmYes
  <2>2. \A j \in Handlers : j # h => handler'[j] = handler[j]
    BY <2>1 DEF HandlersOK
  <2>3. QED
    BY <1>5, <2>1, <2>2
<1>7. ASSUME NEW h \in Handlers, ChooseDay(h)
      PROVE  Answering(n)'
  <2>1. handler[h] = NULL /\ \A j \in Handlers : j # h => handler'[j] = handler[j]
    BY <1>7 DEF ChooseDay, TakeVoice, HandlersOK
  <2>2. QED
    BY <1>5, <2>1
<1>8. ASSUME NEW h \in Handlers, Ends(h)
      PROVE  Answering(n)' \/ faults' > 0
  <2>1. CASE Raise(h)
    BY <2>1 DEF Raise, Fault
  <2>2. CASE ~Raise(h)
    <3>1. Finish(h) /\ h # k
      BY <1>2, <1>3, <1>8, <2>2
      DEF Ends, Greet, CodeRefused, AskTitle, AskCategory, CategoryGone, ClearAfterwards,
          SaveVoice, DownloadFails, MakeVoiceTask, Doing
    <3>2. handler'[k] = handler[k]
      BY <3>1 DEF Finish, HandlersOK
    <3>3. QED
      BY <1>4, <3>2
  <2>3. QED
    BY <2>1, <2>2
<1>9. ASSUME NEW h \in Handlers, GoesOn(h)
      PROVE  Answering(n)'
  <2>1. CASE h = k
    <3>1. \E doing \in Doings : handler' = [handler EXCEPT ![k].doing = doing]
      BY <1>2, <1>9, <2>1 DEF GoesOn, CodeFound, CreateConfirmed, RefuseConfirmed,
                              FindUser, Doing, Doings
    <3>2. PICK doing \in Doings : handler' = [handler EXCEPT ![k].doing = doing]
      BY <3>1
    <3>3. handler'[k] = [handler[k] EXCEPT !.doing = doing]
      BY <3>2 DEF HandlersOK
    <3>4. handler'[k] \in Handler /\ handler'[k].shown = n
      BY <1>1, <1>2, <3>3 DEF Handler, Doings
    <3>5. handler'[k] # NULL
      BY <3>4, NullHandler
    <3>6. QED
      BY <3>4, <3>5 DEF Answering
  <2>2. CASE h # k
    <3>1. \/ Finish(h)
          \/ \E doing \in Doings : handler' = [handler EXCEPT ![h].doing = doing]
      BY <1>9 DEF GoesOn, CodeFound, CreateConfirmed, RefuseConfirmed, FindUser, Doings
    <3>2. handler'[k] = handler[k]
      BY <2>2, <3>1 DEF Finish, HandlersOK
    <3>3. QED
      BY <1>1, <3>2 DEF Answering
  <2>3. QED
    BY <2>1, <2>2
<1>10. CASE ShortUpdate \/ Unlink \/ UNCHANGED vars
  <2>1. UNCHANGED handler
    BY <1>10 DEF ShortUpdate, AnswerText, ChooseCategory, ChoosePriority, ConfirmNo,
                 ChooseCustomDay, Unlink, vars
  <2>2. QED
    BY <1>4, <2>1
<1>11. CASE Restart
  BY <1>3, <1>11 DEF Restart
<1>12. QED
  BY <1>6, <1>7, <1>8, <1>9, <1>10, <1>11, NextSplit

LEMMA FaultsStep ==
  ASSUME [Next]_vars
  PROVE  faults' = faults \/ faults' = faults + 1
<1>1. ASSUME NEW h \in Handlers,
             Begins(h) \/ Ends(h) \/ GoesOn(h) \/ ConfirmYes(h) \/ ChooseDay(h)
      PROVE  faults' = faults \/ faults' = faults + 1
  BY <1>1 DEF Begins, Start, TypeCode, NewTask, AnswerTime, SendVoice, Ends, Greet,
              CodeRefused, AskTitle, AskCategory, CategoryGone, ClearAfterwards, SaveVoice,
              DownloadFails, MakeVoiceTask, Raise, Fault, GoesOn, CodeFound,
              CreateConfirmed, RefuseConfirmed, FindUser, ConfirmYes, ChooseDay
<1>2. CASE ShortUpdate \/ Unlink \/ Restart \/ UNCHANGED vars
  BY <1>2 DEF ShortUpdate, AnswerText, ChooseCategory, ChoosePriority, ConfirmNo,
              ChooseCustomDay, Unlink, Restart, Fault, vars
<1>3. QED
  BY <1>1, <1>2, NextSplit

LEMMA ShownAnsweredStep ==
  ASSUME BotInv, OnlyConfirmsShown, ShownAnswered, [Next]_vars
  PROVE  ShownAnswered'
<1>0. RestOK /\ HandlersOK /\ TasksOK /\ ConfirmsLastSummary /\ CreatedAsShown
  BY TypeParts DEF BotInv
<1>1. SUFFICES ASSUME state' = "confirm", Answered(Len(summaries))', ~(faults' > 0)
               PROVE  Answering(Len(summaries))'
  BY DEF ShownAnswered
<1>2. Len(summaries) \in Nat /\ faults \in Nat /\ faults' \in Nat
  BY <1>0, LenProperties, RestStep DEF RestOK
<1>3. PICK t \in Tasks : task'[t] # NULL /\ task'[t].shown = Len(summaries')
  BY <1>1 DEF Answered
\* A new summary has no task yet.
<1>4. CASE Shows
  <2>1. Len(summaries') = Len(summaries) + 1
    BY <1>0, <1>4, AppendProperties DEF Shows, RestOK
  <2>2. CASE UNCHANGED task
    <3>1. task[t] # NULL /\ task[t].shown = Len(summaries) + 1
      BY <1>3, <2>1, <2>2
    <3>2. QED
      BY <1>0, <1>2, <3>1 DEF CreatedAsShown, AsShown
  <2>3. CASE ~UNCHANGED task
    <3>1. PICK h \in Handlers : Stores(h)
      BY <2>3, TasksUnlessStored
    <3>2. UNCHANGED summaries
      BY <3>1 DEF Stores, CreateConfirmed, MakeVoiceTask
    <3>3. QED
      BY <1>2, <2>1, <3>2
  <2>4. QED
    BY <2>2, <2>3
\* The summary of before: it was answered already, or it has just been.
<1>5. CASE UNCHANGED <<state, draft, voice, summaries>>
  <2>1. state = "confirm" /\ Len(summaries) # 0 /\ Len(summaries') = Len(summaries)
    BY <1>0, <1>1, <1>2, <1>5 DEF ConfirmsLastSummary
  <2>2. ASSUME Answering(Len(summaries))
        PROVE  Answering(Len(summaries))'
    <3>1. PICK n \in Nat : n = Len(summaries)
      BY <1>2
    <3>2. Answering(n)'
      BY <1>0, <1>1, <1>2, <2>1, <2>2, <3>1, AnsweringStays
    <3>3. QED
      BY <2>1, <3>1, <3>2 DEF Answering
  <2>3. CASE Answered(Len(summaries))
    <3>1. ~(faults > 0)
      <4>1. faults' = faults \/ faults' = faults + 1
        BY <1>2, FaultsStep
      <4>2. QED
        BY <1>1, <1>2, <4>1
    <3>2. QED
      BY <2>1, <2>2, <2>3, <3>1 DEF ShownAnswered
  <2>4. CASE ~Answered(Len(summaries))
    <3>1. task'[t] # task[t]
      BY <1>3, <2>1, <2>4 DEF Answered
    <3>2. PICK h \in Handlers : Stores(h)
      BY <3>1, TasksUnlessStored
    <3>3. PICK new : Stored(new) /\ new.shown \in {0, handler[h].shown}
                     /\ (new.shown # 0 => CreateConfirmed(h))
      <4>1. CASE CreateConfirmed(h)
        <5>1. PICK new : /\ new = [draft |-> handler[h].draft, shown |-> handler[h].shown,
                                   recording |-> NULL]
                         /\ Stored(new)
          BY <4>1 DEF CreateConfirmed
        <5>2. new.shown = handler[h].shown
          BY <5>1
        <5>3. QED
          BY <4>1, <5>1, <5>2
      <4>2. CASE MakeVoiceTask(h)
        <5>1. PICK new : /\ new = [draft |-> NoDraft, shown |-> 0,
                                   recording |-> handler[h].recording]
                         /\ Stored(new)
          BY <3>1, <4>2 DEF MakeVoiceTask
        <5>2. new.shown = 0
          BY <5>1
        <5>3. QED
          BY <5>1, <5>2
      <4>3. QED
        BY <3>2, <4>1, <4>2 DEF Stores
    <3>4. task'[t] = new
      BY <1>0, <3>1, <3>3 DEF Stored, TasksOK
    <3>5. new.shown = handler[h].shown /\ CreateConfirmed(h) /\ new.shown = Len(summaries)
      BY <1>3, <2>1, <3>3, <3>4
    <3>6. Answering(Len(summaries))
      BY <3>5 DEF Answering, CreateConfirmed, Doing
    <3>7. QED
      BY <2>2, <3>6
  <2>5. QED
    BY <2>3, <2>4
<1>6. CASE Clear
  BY <1>1, <1>6, BotConstants DEF Clear, State
<1>7. CASE state' \in State \ {"confirm"}
  BY <1>1, <1>7
<1>8. QED
  BY <1>0, <1>4, <1>5, <1>6, <1>7, DialogueStep DEF DialogueMoves

\* Only the button of a summary starts a handler that creates a task.
LEMMA ConfirmBegins ==
  ASSUME HandlersOK, [Next]_vars, NEW h \in Handlers,
         handler[h] = NULL, handler'[h] # NULL, handler'[h].doing = "confirm"
  PROVE  ConfirmYes(h)
<1>1. ASSUME NEW k \in Handlers, k # h, \E new : handler' = [handler EXCEPT ![k] = new]
      PROVE  FALSE
  BY <1>1 DEF HandlersOK
<1>2. ASSUME NEW k \in Handlers, Begins(k)
      PROVE  FALSE
  <2>1. PICK doing \in Doings \ {"confirm"} : Await(k, doing)
    BY <1>2 DEF Begins, Start, TypeCode, NewTask, AnswerTime, SendVoice, Doings
  <2>2. handler' = [handler EXCEPT ![k] =
          [doing |-> doing, draft |-> NoDraft, shown |-> 0, recording |-> NULL]]
    BY <2>1 DEF Await
  <2>3. CASE k = h
    BY <2>2, <2>3 DEF HandlersOK
  <2>4. QED
    BY <1>1, <2>2, <2>3
<1>3. ASSUME NEW k \in Handlers, Ends(k)
      PROVE  FALSE
  <2>1. Finish(k)
    BY <1>3 DEF Ends, Greet, CodeRefused, AskTitle, AskCategory, CategoryGone,
                ClearAfterwards, SaveVoice, DownloadFails, MakeVoiceTask, Raise
  <2>2. QED
    BY <2>1 DEF Finish, HandlersOK
<1>4. ASSUME NEW k \in Handlers, GoesOn(k)
      PROVE  FALSE
  <2>1. handler[k] # NULL
    BY <1>4 DEF GoesOn, CodeFound, CreateConfirmed, RefuseConfirmed, FindUser, Doing
  <2>2. \/ Finish(k)
        \/ \E doing \in Doings : handler' = [handler EXCEPT ![k].doing = doing]
    BY <1>4 DEF GoesOn, CodeFound, CreateConfirmed, RefuseConfirmed, FindUser, Doings
  <2>3. QED
    BY <1>1, <2>1, <2>2 DEF Finish
<1>5. ASSUME NEW k \in Handlers, ChooseDay(k)
      PROVE  FALSE
  <2>1. \/ UNCHANGED handler
        \/ handler' = [handler EXCEPT ![k] =
             [doing |-> "make task", draft |-> NoDraft, shown |-> 0, recording |-> voice]]
    BY <1>5 DEF ChooseDay, TakeVoice
  <2>2. CASE UNCHANGED handler
    BY <2>2
  <2>3. ASSUME NEW new, handler' = [handler EXCEPT ![k] = new], new.doing = "make task"
        PROVE  FALSE
    BY <1>1, <2>3 DEF HandlersOK
  <2>4. QED
    BY <2>1, <2>2, <2>3
<1>6. ASSUME NEW k \in Handlers, ConfirmYes(k)
      PROVE  k = h
  BY <1>1, <1>6 DEF ConfirmYes
<1>7. CASE ShortUpdate \/ Unlink \/ UNCHANGED vars
  BY <1>7 DEF ShortUpdate, AnswerText, ChooseCategory, ChoosePriority, ConfirmNo,
              ChooseCustomDay, Unlink, vars
<1>8. CASE Restart
  BY <1>8 DEF Restart
<1>9. QED
  BY <1>2, <1>3, <1>4, <1>5, <1>6, <1>7, <1>8, NextSplit

-----------------------------------------------------------------------------
LEMMA InitBotInv == Init => BotInv
<1> SUFFICES ASSUME Init PROVE BotInv
  OBVIOUS
<1>1. BotTypeOK
  <2>1. <<>> \in Seq(Draft) /\ Len(<<>>) = 0
    BY EmptySeq
  <2>2. QED
    BY <2>1, NoDraftType, BotConstants DEF Init, BotTypeOK
<1>2. NothingLeftBehind
  BY DEF Init, NothingLeftBehind
<1>3. ConfirmsLastSummary
  BY BotConstants DEF Init, ConfirmsLastSummary, State
<1>4. HandlersAsShown /\ CreatedAsShown
  BY DEF Init, HandlersAsShown, CreatedAsShown
<1>5. \A r \in Recordings : InOnePlace(r)
  BY BotConstants DEF Init, InOnePlace, InHandler, InTask
<1>6. QED
  BY <1>1, <1>2, <1>3, <1>4, <1>5 DEF BotInv

LEMMA StepBotInv == BotInv /\ [Next]_vars => BotInv'
<1> SUFFICES ASSUME BotInv, [Next]_vars PROVE BotInv'
  OBVIOUS
<1>1. RestOK /\ HandlersOK /\ TasksOK
  BY TypeParts DEF BotInv
<1>2. BotTypeOK'
  <2>1. RestOK' /\ HandlersOK' /\ TasksOK'
    BY <1>1, RestStep, HandlersStep, TasksStep
  <2>2. QED
    BY <2>1 DEF BotTypeOK, RestOK, HandlersOK, TasksOK
<1>3. NothingLeftBehind' /\ ConfirmsLastSummary'
  BY <1>1, DialogueInvStep DEF BotInv
<1>4. HandlersAsShown' /\ CreatedAsShown'
  BY <1>1, HandlersAsShownStep, CreatedAsShownStep DEF BotInv
<1>5. \A r \in Recordings : InOnePlace(r)'
  BY <1>1, RecordingStep DEF BotInv
<1>6. QED
  BY <1>2, <1>3, <1>4, <1>5 DEF BotInv

(***************************************************************************)
(* BotInv holds in every state: the dialogue at the confirmation and the   *)
(* handlers started from it hold what was shown, whatever other handlers   *)
(* do to the shared state and data, and a recording is in one place.       *)
(***************************************************************************)
THEOREM BotInvariance == Spec => []BotInv
<1>1. Init => BotInv
  BY InitBotInv
<1>2. BotInv /\ [Next]_vars => BotInv'
  BY StepBotInv
<1>3. QED
  BY <1>1, <1>2, PTL DEF Spec

(***************************************************************************)
(* What the wizard creates is what it has shown last before the press,     *)
(* whichever message the pressed button belongs to (process_priority,      *)
(* process_confirm_yes).                                                   *)
(***************************************************************************)
THEOREM WizardCreatesAsShown == Spec => []CreatedAsShown
<1>1. BotInv => CreatedAsShown
  BY DEF BotInv
<1>2. QED
  BY <1>1, BotInvariance, PTL

(***************************************************************************)
(* A recording becomes one task at most (voice_date_chosen,                *)
(* voice_custom_date_entered, _create_voice_task).                         *)
(***************************************************************************)
THEOREM RecordingUsedOnce == Spec => []OneTaskPerRecording
<1>1. BotInv => OneTaskPerRecording
  <2> SUFFICES ASSUME BotInv, NEW t \in Tasks, NEW u \in Tasks,
                      task[t] # NULL, task[u] # NULL, task[t].recording # NULL,
                      task[t].recording = task[u].recording
               PROVE  t = u
    BY DEF OneTaskPerRecording
  <2>1. task[t].recording \in Recordings
    BY DEF BotInv, BotTypeOK, Task
  <2>2. InTask(t, task[t].recording) /\ InTask(u, task[t].recording)
    BY DEF InTask
  <2>3. QED
    BY <2>1, <2>2 DEF BotInv, InOnePlace
<1>2. QED
  BY <1>1, BotInvariance, PTL

(***************************************************************************)
(* A summary that has become a task is answered again only beside a        *)
(* handler that came from it, or after a fault (process_confirm_yes,       *)
(* state.clear()).                                                         *)
(***************************************************************************)
THEOREM SummaryAnsweredOnce == Spec => AnsweredOnce
<1> DEFINE Inv == BotInv /\ OnlyConfirmsShown /\ ShownAnswered
           OnceStep == \A h \in Handlers :
                         handler[h] = NULL /\ handler'[h] # NULL
                         /\ handler'[h].doing = "confirm"
                         => \/ ~Answered(handler'[h].shown)
                            \/ Answering(handler'[h].shown)
                            \/ faults > 0
<1>1. Init => Inv
  <2> SUFFICES ASSUME Init PROVE Inv
    OBVIOUS
  <2>1. OnlyConfirmsShown /\ ShownAnswered
    BY DEF Init, OnlyConfirmsShown, ShownAnswered, Answered
  <2>2. QED
    BY <2>1, InitBotInv
<1>2. Inv /\ [Next]_vars => Inv'
  <2> SUFFICES ASSUME Inv, [Next]_vars PROVE Inv'
    OBVIOUS
  <2>1. HandlersOK
    BY TypeParts DEF BotInv
  <2>2. QED
    BY <2>1, StepBotInv, OnlyConfirmsShownStep, ShownAnsweredStep
<1>3. Inv /\ [Next]_vars => OnceStep
  <2> SUFFICES ASSUME Inv, [Next]_vars, NEW h \in Handlers,
                      handler[h] = NULL, handler'[h] # NULL, handler'[h].doing = "confirm"
               PROVE  \/ ~Answered(handler'[h].shown)
                      \/ Answering(handler'[h].shown)
                      \/ faults > 0
    OBVIOUS
  <2>0. HandlersOK
    BY TypeParts DEF BotInv
  <2>1. ConfirmYes(h)
    BY <2>0, ConfirmBegins
  <2>2. state = "confirm" /\ handler'[h].shown = Len(summaries)
    BY <2>0, <2>1 DEF ConfirmYes, HandlersOK
  <2>3. QED
    BY <2>2 DEF ShownAnswered
<1>4. AnsweredOnce <=> [][OnceStep]_vars
  BY PTL DEF AnsweredOnce
<1>5. QED
  BY <1>1, <1>2, <1>3, <1>4, PTL DEF Spec

=============================================================================
