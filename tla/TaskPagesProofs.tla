-------------------------- MODULE TaskPagesProofs ---------------------------
(***************************************************************************)
(* Proofs about TaskPages, for any tasks, texts, forms and submissions and *)
(* without a use of the bounds: types, ticked rows are of one page, a      *)
(* title is created as often as it was typed, and a form is closed by its  *)
(* own answer only.                                                        *)
(***************************************************************************)
EXTENDS TaskPages, TLAPS, FiniteSetTheorems

-----------------------------------------------------------------------------
(***************************************************************************)
(* The selection.                                                          *)
(***************************************************************************)

SelectionInv ==
  /\ selected \subseteq Tasks
  /\ tickedUnder = [t \in Tasks |-> tickedUnder[t]]
  /\ SelectionOfOnePage

\* A step that unticks every row, or leaves the rows and the controls alone,
\* keeps the selection of one page.
LEMMA QuietSelection ==
  ASSUME SelectionInv,
         Unticked \/ (UNCHANGED rows /\ UNCHANGED <<timer, debounced, filter, offset>>)
  PROVE  SelectionInv'
BY DEF SelectionInv, SelectionOfOnePage, Unticked, NoTicks, rows

\* What the user does on the list.
LEMMA UserSelection ==
  ASSUME SelectionInv, ListUser
  PROVE  SelectionInv'
<1>1. CASE \E x \in Texts : TypeSearch(x)
  BY <1>1, QuietSelection DEF TypeSearch
<1>2. CASE SetFilter
  BY <1>2, QuietSelection DEF SetFilter
<1>3. CASE TurnPage
  BY <1>3, QuietSelection DEF TurnPage
<1>4. CASE ClearSelection
  BY <1>4, QuietSelection DEF ClearSelection
<1>5. CASE BulkComplete
  BY <1>5, QuietSelection DEF BulkComplete
<1>6. ASSUME NEW t \in Tasks, ToggleSelect(t) PROVE SelectionInv'
  <2>1. /\ selected' = IF t \in selected THEN selected \ {t} ELSE selected \cup {t}
        /\ tickedUnder' = [tickedUnder EXCEPT ![t] = IF t \in selected THEN NULL ELSE View]
        /\ UNCHANGED <<timer, debounced, filter, offset>>
    BY <1>6 DEF ToggleSelect, controls
  <2>2. /\ selected' \subseteq Tasks
        /\ tickedUnder' = [u \in Tasks |-> tickedUnder'[u]]
    BY <2>1 DEF SelectionInv
\* A row that is ticked now was ticked before, or is ticked in this view.
  <2>3. ASSUME NEW u \in selected'
        PROVE  \/ u \in selected /\ tickedUnder'[u] = tickedUnder[u]
               \/ tickedUnder'[u] = View
    <3>1. u \in Tasks /\ tickedUnder = [v \in Tasks |-> tickedUnder[v]]
      BY <2>2 DEF SelectionInv
    <3>2. CASE u = t
      BY <2>1, <3>1, <3>2
    <3>3. CASE u # t
      BY <2>1, <3>1, <3>3
    <3> QED
      BY <3>2, <3>3
  <2>4. /\ View.text = debounced /\ View.filter = filter /\ View.offset = offset
        /\ timer' = timer /\ debounced' = debounced /\ filter' = filter /\ offset' = offset
    BY <2>1 DEF View
  <2>5. SelectionOfOnePage'
    BY <2>3, <2>4 DEF SelectionInv, SelectionOfOnePage
  <2> QED
    BY <2>2, <2>5 DEF SelectionInv
<1> QED
  BY <1>1, <1>2, <1>3, <1>4, <1>5, <1>6 DEF ListUser

\* What the list does on its own.  Until the debounce fires every row is ticked
\* under the text shown; then, all under the text before.
LEMMA ProceedingSelection ==
  ASSUME SelectionInv, ListProceeds
  PROVE  SelectionInv'
<1>1. CASE DebounceFires
  <2>1. /\ timer # NULL /\ timer' = NULL
        /\ UNCHANGED <<selected, tickedUnder, filter, offset>>
    BY <1>1 DEF DebounceFires, rows
  <2>2. \A t \in selected : tickedUnder[t].text = debounced
    BY <2>1 DEF SelectionInv, SelectionOfOnePage
  <2>3. SelectionOfOnePage'
    BY <2>1, <2>2 DEF SelectionInv, SelectionOfOnePage
  <2> QED
    BY <2>1, <2>3 DEF SelectionInv
<1>2. CASE SettleBulk
  BY <1>2, QuietSelection DEF SettleBulk, rows, controls
<1>3. ASSUME NEW v \in Views, ServeFetch(v) \/ ReceiveFetch(v) PROVE SelectionInv'
  BY <1>3, QuietSelection DEF ServeFetch, ReceiveFetch, rows, controls
<1>4. ASSUME NEW t \in Tasks, ServeBulk(t) PROVE SelectionInv'
  BY <1>4, QuietSelection DEF ServeBulk, rows, controls
<1> QED
  BY <1>1, <1>2, <1>3, <1>4 DEF ListProceeds

\* The box and the form do not touch the rows.
LEMMA ElsewhereSelection ==
  ASSUME SelectionInv, UNCHANGED <<controls, rows>>
  PROVE  SelectionInv'
BY QuietSelection DEF rows, controls

LEMMA NextKeepsSelection ==
  ASSUME SelectionInv, [Next]_vars
  PROVE  SelectionInv'
<1>1. CASE ListUser
  BY <1>1, UserSelection
<1>2. CASE ListProceeds
  BY <1>2, ProceedingSelection
<1>3. ASSUME NEW titles, TypeTitle(titles) PROVE SelectionInv'
  BY <1>3, ElsewhereSelection DEF TypeTitle
<1>4. ASSUME NEW s \in Slots, Submit(s) \/ SettleBatch(s) PROVE SelectionInv'
  BY <1>4, ElsewhereSelection DEF Submit, SettleBatch
<1>5. ASSUME NEW s \in Slots, NEW t \in Tasks, ServeCreate(s, t) \/ CreateLost(s, t)
      PROVE  SelectionInv'
  BY <1>5, ElsewhereSelection DEF ServeCreate, CreateLost
<1>6. CASE OpenForm \/ CloseForm \/ SaveForm
  BY <1>6, ElsewhereSelection DEF OpenForm, CloseForm, SaveForm
<1>7. ASSUME NEW n \in Forms, ServeSave(n) \/ SaveSucceeds(n) \/ SaveFails(n)
      PROVE  SelectionInv'
  BY <1>7, ElsewhereSelection DEF ServeSave, SaveSucceeds, SaveFails
<1>8. ASSUME NEW x \in Texts, Remount(x) PROVE SelectionInv'
  BY <1>8, QuietSelection DEF Remount
<1>9. ASSUME NEW v \in Views, FetchLost(v) PROVE SelectionInv'
  BY <1>9, ElsewhereSelection DEF FetchLost
<1>10. CASE UNCHANGED vars
  BY <1>10, ElsewhereSelection DEF vars, listVars
<1> QED
  BY <1>1, <1>2, <1>3, <1>4, <1>5, <1>6, <1>7, <1>8, <1>9, <1>10 DEF Next, Proceed

(***************************************************************************)
(* The rows that are ticked were ticked in a list of the filter and the    *)
(* page that ListPage.tsx shows now, and under its text, but for those of  *)
(* one text before, ticked while its debounce was running.                 *)
(***************************************************************************)
THEOREM TickedOnOnePage == Spec => []SelectionOfOnePage
<1>1. Init => SelectionInv
  BY DEF Init, ListInit, Mounted, NoTicks, SelectionInv, SelectionOfOnePage
<1>2. SelectionInv /\ [Next]_vars => SelectionInv'
  BY NextKeepsSelection
<1>3. SelectionInv => SelectionOfOnePage
  BY DEF SelectionInv
<1> QED
  BY <1>1, <1>2, <1>3, PTL DEF Spec

-----------------------------------------------------------------------------
(***************************************************************************)
(* The quick add box.                                                      *)
(***************************************************************************)

\* The submissions that still have a request for t.
Under(t) == {s \in Slots : batch[s] # NULL /\ t \in batch[s].todo}

\* Whether Enter would send t.
Ready(t) == IF t \in title /\ ~isSubmitting THEN 1 ELSE 0

BoxTypeOK ==
  /\ typed \in [Tasks -> Nat] /\ made \in [Tasks -> Nat] /\ faults \in Nat
  /\ title \subseteq Tasks /\ isSubmitting \in BOOLEAN
  /\ batch \in [Slots -> Batch \cup {NULL}]

\* The strengthening: what was created, what is under way and what the next
\* Enter would send together were typed, but for the faults.
TitlesAccounted ==
  \A t \in Tasks : made[t] + Cardinality(Under(t)) + Ready(t) <= typed[t] + faults

BoxInv == BoxTypeOK /\ TitlesAccounted

\* No more submissions are under way than before, and one less where one of
\* them is served.
LEMMA UnderShrinks ==
  ASSUME NEW t \in Tasks, Under(t)' \subseteq Under(t)
  PROVE  /\ Cardinality(Under(t)) \in Nat /\ Cardinality(Under(t)') \in Nat
         /\ Cardinality(Under(t)') <= Cardinality(Under(t))
         /\ \A s \in Under(t) : s \notin Under(t)' =>
              Cardinality(Under(t)') + 1 <= Cardinality(Under(t))
<1>1. IsFiniteSet(Under(t))
  BY FormConstants, FS_Subset DEF Under
<1>2. IsFiniteSet(Under(t)') /\ Cardinality(Under(t)') <= Cardinality(Under(t))
  BY <1>1, FS_Subset
<1>3. Cardinality(Under(t)) \in Nat /\ Cardinality(Under(t)') \in Nat
  BY <1>1, <1>2, FS_CardinalityType
<1>4. ASSUME NEW s \in Under(t), s \notin Under(t)'
      PROVE  Cardinality(Under(t)') + 1 <= Cardinality(Under(t))
  <2>1. Under(t)' \in SUBSET Under(t) /\ Under(t)' # Under(t)
    BY <1>4
  <2>2. Cardinality(Under(t)) # Cardinality(Under(t)')
    BY <1>1, <2>1, FS_Subset
  <2> QED
    BY <1>2, <1>3, <2>2
<1> QED
  BY <1>2, <1>3, <1>4

\* A title that is less ready, no more under way and created no more often.
LEMMA NoMoreOwed ==
  ASSUME BoxInv, BoxTypeOK', NEW t \in Tasks,
         Under(t)' \subseteq Under(t), made'[t] = made[t],
         typed'[t] >= typed[t], faults' >= faults,
         Ready(t)' <= Ready(t) \/ typed'[t] + faults' > typed[t] + faults
  PROVE  made'[t] + Cardinality(Under(t)') + Ready(t)' <= typed'[t] + faults'
<1>1. /\ Cardinality(Under(t)) \in Nat /\ Cardinality(Under(t)') \in Nat
      /\ Cardinality(Under(t)') <= Cardinality(Under(t))
  BY UnderShrinks
<1>2. /\ made[t] \in Nat /\ typed[t] \in Nat /\ typed'[t] \in Nat
      /\ faults \in Nat /\ faults' \in Nat
  BY DEF BoxInv, BoxTypeOK
<1>3. Ready(t) \in {0, 1} /\ Ready(t)' \in {0, 1}
  BY DEF Ready
<1>4. made[t] + Cardinality(Under(t)) + Ready(t) <= typed[t] + faults
  BY DEF BoxInv, TitlesAccounted
<1> QED
  BY <1>1, <1>2, <1>3, <1>4

\* A step that leaves the box alone, with a fault or without.
LEMMA ElsewhereBox ==
  ASSUME BoxInv, UNCHANGED quickAdd, faults' = faults \/ faults' = faults + 1
  PROVE  BoxInv'
<1>1. BoxTypeOK'
  BY DEF BoxInv, BoxTypeOK, quickAdd
<1>2. ASSUME NEW t \in Tasks
      PROVE  made'[t] + Cardinality(Under(t)') + Ready(t)' <= typed'[t] + faults'
  <2>1. Under(t)' = Under(t) /\ Ready(t)' = Ready(t) /\ made' = made /\ typed' = typed
    BY DEF Under, Ready, quickAdd
  <2>2. typed[t] \in Nat /\ faults \in Nat /\ Ready(t) \in {0, 1}
    BY DEF BoxInv, BoxTypeOK, Ready
  <2> QED
    BY <1>1, <2>1, <2>2, NoMoreOwed
<1> QED
  BY <1>1, <1>2 DEF BoxInv, TitlesAccounted

\* Typing: a title becomes ready only where it is counted.
LEMMA TypingBox ==
  ASSUME BoxInv, NEW titles \in SUBSET Tasks, TypeTitle(titles)
  PROVE  BoxInv'
<1>1. /\ title' = titles
      /\ typed' = [t \in Tasks |-> typed[t] + IF t \in titles THEN 1 ELSE 0]
      /\ UNCHANGED <<isSubmitting, batch, made, faults>>
  BY DEF TypeTitle
<1>2. BoxTypeOK'
  <2>1. \A t \in Tasks : typed[t] + (IF t \in titles THEN 1 ELSE 0) \in Nat
    BY DEF BoxInv, BoxTypeOK
  <2>2. typed' \in [Tasks -> Nat]
    BY <1>1, <2>1
  <2> QED
    BY <1>1, <2>2 DEF BoxInv, BoxTypeOK
<1>3. ASSUME NEW t \in Tasks
      PROVE  made'[t] + Cardinality(Under(t)') + Ready(t)' <= typed'[t] + faults'
  <2>1. Under(t)' = Under(t) /\ made'[t] = made[t]
    BY <1>1 DEF Under
  <2>2. typed[t] \in Nat /\ faults \in Nat
    BY DEF BoxInv, BoxTypeOK
  <2>3. CASE t \in titles
    <3>1. typed'[t] = typed[t] + 1
      BY <1>1, <2>3
    <3> QED
      BY <1>1, <1>2, <2>1, <2>2, <3>1, NoMoreOwed
  <2>4. CASE t \notin titles
    <3>1. typed'[t] = typed[t]
      BY <1>1, <2>2, <2>4
    <3>2. Ready(t)' <= Ready(t)
      BY <1>1, <2>4 DEF Ready
    <3> QED
      BY <1>1, <1>2, <2>1, <2>2, <3>1, <3>2, NoMoreOwed
  <2> QED
    BY <2>3, <2>4
<1> QED
  BY <1>2, <1>3 DEF BoxInv, TitlesAccounted

\* Enter: what was ready is under way.
LEMMA SubmittingBox ==
  ASSUME BoxInv, NEW s \in Slots, Submit(s)
  PROVE  BoxInv'
<1> DEFINE sent == [titles |-> title, todo |-> title, failed |-> FALSE, mine |-> TRUE]
<1>1. /\ ~isSubmitting /\ isSubmitting' = TRUE /\ batch[s] = NULL
      /\ batch' = [batch EXCEPT ![s] = sent]
      /\ UNCHANGED <<title, typed, made, faults>>
  BY DEF Submit
<1>2. BoxTypeOK'
  <2>1. sent \in Batch
    BY DEF BoxInv, BoxTypeOK, Batch
  <2>2. batch' \in [Slots -> Batch \cup {NULL}]
    BY <1>1, <2>1 DEF BoxInv, BoxTypeOK
  <2> QED
    BY <1>1, <2>2 DEF BoxInv, BoxTypeOK
<1>3. ASSUME NEW t \in Tasks
      PROVE  made'[t] + Cardinality(Under(t)') + Ready(t)' <= typed'[t] + faults'
  <2>1. batch'[s] = sent /\ \A r \in Slots : r # s => batch'[r] = batch[r]
    BY <1>1 DEF BoxInv, BoxTypeOK
  <2>2. sent.todo = title
    OBVIOUS
  <2>3. CASE t \in title
    <3>1. Under(t)' \subseteq Under(t) \cup {s} /\ s \notin Under(t)
      BY <1>1, <2>1 DEF Under
    <3>2. IsFiniteSet(Under(t))
      BY FormConstants, FS_Subset DEF Under
    <3>3. /\ IsFiniteSet(Under(t) \cup {s})
          /\ Cardinality(Under(t) \cup {s}) = Cardinality(Under(t)) + 1
      BY <3>1, <3>2, FS_AddElement
    <3>4. IsFiniteSet(Under(t)') /\ Cardinality(Under(t)') <= Cardinality(Under(t)) + 1
      BY <3>1, <3>3, FS_Subset
    <3>5. Cardinality(Under(t)) \in Nat /\ Cardinality(Under(t)') \in Nat
      BY <3>2, <3>4, FS_CardinalityType
    <3>6. Ready(t) = 1 /\ Ready(t)' = 0
      BY <1>1, <2>3 DEF Ready
    <3>7. made[t] \in Nat /\ typed[t] \in Nat /\ faults \in Nat
      BY DEF BoxInv, BoxTypeOK
    <3>8. made[t] + Cardinality(Under(t)) + Ready(t) <= typed[t] + faults
      BY DEF BoxInv, TitlesAccounted
    <3> QED
      BY <1>1, <3>4, <3>5, <3>6, <3>7, <3>8
  <2>4. CASE t \notin title
    <3>1. Under(t)' \subseteq Under(t)
      BY <2>1, <2>2, <2>4 DEF Under
    <3>2. Ready(t)' = 0 /\ Ready(t) = 0
      BY <1>1, <2>4 DEF Ready
    <3>3. typed[t] \in Nat /\ faults \in Nat
      BY DEF BoxInv, BoxTypeOK
    <3> QED
      BY <1>1, <1>2, <3>1, <3>2, <3>3, NoMoreOwed
  <2> QED
    BY <2>3, <2>4
<1> QED
  BY <1>2, <1>3 DEF BoxInv, TitlesAccounted

\* A title is served: one request less is under way.
LEMMA ServingBox ==
  ASSUME BoxInv, NEW s \in Slots, NEW d \in Tasks, ServeCreate(s, d)
  PROVE  BoxInv'
<1>1. /\ batch[s] # NULL /\ d \in batch[s].todo
      /\ batch' = [batch EXCEPT ![s].todo = @ \ {d}]
      /\ made' = [made EXCEPT ![d] = @ + 1]
      /\ UNCHANGED <<title, isSubmitting, typed, faults>>
  BY DEF ServeCreate
<1>2. /\ batch[s] \in Batch
      /\ batch'[s] = [batch[s] EXCEPT !.todo = batch[s].todo \ {d}]
      /\ \A r \in Slots : r # s => batch'[r] = batch[r]
  BY <1>1 DEF BoxInv, BoxTypeOK
<1>3. batch'[s] \in Batch /\ batch'[s].todo = batch[s].todo \ {d}
  BY <1>2 DEF Batch
<1>4. BoxTypeOK'
  <2>1. batch' \in [Slots -> Batch \cup {NULL}]
    BY <1>1, <1>2, <1>3 DEF BoxInv, BoxTypeOK
  <2>2. made' \in [Tasks -> Nat]
    BY <1>1 DEF BoxInv, BoxTypeOK
  <2> QED
    BY <1>1, <2>1, <2>2 DEF BoxInv, BoxTypeOK
<1>5. ASSUME NEW t \in Tasks
      PROVE  made'[t] + Cardinality(Under(t)') + Ready(t)' <= typed'[t] + faults'
  <2>1. Under(t)' \subseteq Under(t)
    BY <1>1, <1>2, <1>3 DEF Under
  <2>2. Ready(t)' = Ready(t) /\ Ready(t) \in {0, 1}
    BY <1>1 DEF Ready
  <2>3. made[t] \in Nat /\ typed[t] \in Nat /\ faults \in Nat
    BY DEF BoxInv, BoxTypeOK
  <2>4. CASE t = d
    <3>1. s \in Under(t) /\ s \notin Under(t)'
      BY <1>1, <1>3, <2>4 DEF Under
    <3>2. /\ Cardinality(Under(t)) \in Nat /\ Cardinality(Under(t)') \in Nat
          /\ Cardinality(Under(t)') + 1 <= Cardinality(Under(t))
      BY <2>1, <3>1, UnderShrinks
    <3>3. made'[t] = made[t] + 1
      BY <1>1, <2>4 DEF BoxInv, BoxTypeOK
    <3>4. made[t] + Cardinality(Under(t)) + Ready(t) <= typed[t] + faults
      BY DEF BoxInv, TitlesAccounted
    <3> QED
      BY <1>1, <2>2, <2>3, <3>2, <3>3, <3>4
  <2>5. CASE t # d
    <3>1. made'[t] = made[t]
      BY <1>1, <2>5 DEF BoxInv, BoxTypeOK
    <3> QED
      BY <1>1, <1>4, <2>1, <2>2, <2>3, <3>1, NoMoreOwed
  <2> QED
    BY <2>4, <2>5
<1> QED
  BY <1>4, <1>5 DEF BoxInv, TitlesAccounted

\* A request or its answer is lost: Enter may send the text again, and the
\* fault pays for it.
LEMMA LosingBox ==
  ASSUME BoxInv, NEW s \in Slots, NEW d \in Tasks, CreateLost(s, d)
  PROVE  BoxInv'
<1>1. /\ batch[s] # NULL /\ d \in batch[s].todo
      /\ batch' = [batch EXCEPT ![s].todo = @ \ {d}, ![s].failed = TRUE]
      /\ isSubmitting' = (isSubmitting /\ ~(batch[s].mine /\ ~batch[s].failed))
      /\ made' = [made EXCEPT ![d] = @ + 1] \/ made' = made
      /\ faults' = faults + 1
      /\ UNCHANGED <<title, typed>>
  BY DEF CreateLost
<1>2. /\ batch[s] \in Batch
      /\ batch'[s] = [batch[s] EXCEPT !.todo = batch[s].todo \ {d}, !.failed = TRUE]
      /\ \A r \in Slots : r # s => batch'[r] = batch[r]
  BY <1>1 DEF BoxInv, BoxTypeOK
<1>3. batch'[s] \in Batch /\ batch'[s].todo = batch[s].todo \ {d}
  BY <1>2 DEF Batch
<1>4. BoxTypeOK'
  <2>1. batch' \in [Slots -> Batch \cup {NULL}]
    BY <1>1, <1>2, <1>3 DEF BoxInv, BoxTypeOK
  <2>2. made' \in [Tasks -> Nat]
    BY <1>1 DEF BoxInv, BoxTypeOK
  <2>3. isSubmitting' \in BOOLEAN
    BY <1>1
  <2>4. faults' \in Nat /\ typed' \in [Tasks -> Nat] /\ title' \subseteq Tasks
    BY <1>1 DEF BoxInv, BoxTypeOK
  <2> QED
    BY <2>1, <2>2, <2>3, <2>4 DEF BoxTypeOK
<1>5. ASSUME NEW t \in Tasks
      PROVE  made'[t] + Cardinality(Under(t)') + Ready(t)' <= typed'[t] + faults'
  <2>1. Under(t)' \subseteq Under(t)
    BY <1>1, <1>2, <1>3 DEF Under
  <2>2. Ready(t) \in {0, 1} /\ Ready(t)' \in {0, 1}
    BY DEF Ready
  <2>3. made[t] \in Nat /\ typed[t] \in Nat /\ faults \in Nat
    BY DEF BoxInv, BoxTypeOK
  <2>4. CASE made'[t] = made[t]
    BY <1>1, <1>4, <2>1, <2>3, <2>4, NoMoreOwed
  <2>5. CASE made'[t] # made[t]
    <3>1. t = d /\ made'[t] = made[t] + 1
      BY <1>1, <2>5 DEF BoxInv, BoxTypeOK
    <3>2. s \in Under(t) /\ s \notin Under(t)'
      BY <1>1, <1>3, <3>1 DEF Under
    <3>3. /\ Cardinality(Under(t)) \in Nat /\ Cardinality(Under(t)') \in Nat
          /\ Cardinality(Under(t)') + 1 <= Cardinality(Under(t))
      BY <2>1, <3>2, UnderShrinks
    <3>4. made[t] + Cardinality(Under(t)) + Ready(t) <= typed[t] + faults
      BY DEF BoxInv, TitlesAccounted
    <3> QED
      BY <1>1, <2>2, <2>3, <3>1, <3>3, <3>4
  <2> QED
    BY <2>4, <2>5
<1> QED
  BY <1>4, <1>5 DEF BoxInv, TitlesAccounted

\* A step that at most empties the box and forgets submissions.
LEMMA RestingBox ==
  ASSUME BoxInv, BoxTypeOK', UNCHANGED <<typed, made, faults>>,
         title' = {} \/ (title' = title /\ isSubmitting' = isSubmitting),
         \A t \in Tasks : Under(t)' \subseteq Under(t)
  PROVE  BoxInv'
<1>1. ASSUME NEW t \in Tasks
      PROVE  made'[t] + Cardinality(Under(t)') + Ready(t)' <= typed'[t] + faults'
  <2>1. Ready(t)' <= Ready(t)
    BY DEF Ready
  <2>2. typed[t] \in Nat /\ faults \in Nat
    BY DEF BoxInv, BoxTypeOK
  <2> QED
    BY <2>1, <2>2, NoMoreOwed
<1> QED
  BY <1>1 DEF BoxInv, TitlesAccounted

\* All requests of a submission are answered.
LEMMA SettlingBox ==
  ASSUME BoxInv, NEW s \in Slots, SettleBatch(s)
  PROVE  BoxInv'
<1>1. /\ batch' = [batch EXCEPT ![s] = NULL]
      /\ UNCHANGED <<typed, made, faults>>
      /\ \/ UNCHANGED <<title, isSubmitting>>
         \/ /\ title' = IF batch[s].mine THEN {} ELSE title
            /\ isSubmitting' = (isSubmitting /\ ~batch[s].mine)
  BY DEF SettleBatch
<1>2. batch[s] # NULL /\ batch[s] \in Batch
  BY DEF SettleBatch, BoxInv, BoxTypeOK
<1>3. batch[s].mine \in BOOLEAN
  BY <1>2 DEF Batch
<1>4. batch' \in [Slots -> Batch \cup {NULL}] /\ isSubmitting \in BOOLEAN
  BY <1>1 DEF BoxInv, BoxTypeOK
<1>5. title' = {} \/ (title' = title /\ isSubmitting' = isSubmitting)
  <2>1. CASE batch[s].mine
    BY <1>1, <2>1
  <2>2. CASE ~batch[s].mine
    BY <1>1, <1>4, <2>2
  <2> QED
    BY <2>1, <2>2
<1>6. isSubmitting' \in BOOLEAN
  BY <1>1, <1>4
<1>7. BoxTypeOK'
  BY <1>1, <1>4, <1>5, <1>6 DEF BoxInv, BoxTypeOK
<1>8. \A t \in Tasks : Under(t)' \subseteq Under(t)
  BY <1>1 DEF Under, BoxInv, BoxTypeOK
<1> QED
  BY <1>1, <1>5, <1>7, <1>8, RestingBox

\* The page is left: what it sent is no longer the box's own.
LEMMA RemountingBox ==
  ASSUME BoxInv, NEW x \in Texts, Remount(x)
  PROVE  BoxInv'
<1>1. /\ title' = {} /\ isSubmitting' = FALSE
      /\ batch' = [s \in Slots |-> IF batch[s] = NULL THEN NULL
                                   ELSE [batch[s] EXCEPT !.mine = FALSE]]
      /\ UNCHANGED <<typed, made, faults>>
  BY DEF Remount
<1>2. ASSUME NEW s \in Slots, batch[s] # NULL
      PROVE  batch'[s] \in Batch /\ batch'[s].todo = batch[s].todo
  <2>1. batch[s] \in Batch
    BY <1>2 DEF BoxInv, BoxTypeOK
  <2>2. batch'[s] = [batch[s] EXCEPT !.mine = FALSE]
    BY <1>1, <1>2
  <2> QED
    BY <2>1, <2>2 DEF Batch
<1>3. \A s \in Slots : batch[s] = NULL => batch'[s] = NULL
  BY <1>1
<1>4. batch' \in [Slots -> Batch \cup {NULL}]
  <2>1. batch' = [s \in Slots |-> batch'[s]]
    BY <1>1
  <2>2. \A s \in Slots : batch'[s] \in Batch \cup {NULL}
    BY <1>2, <1>3
  <2> QED
    BY <2>1, <2>2
<1>5. BoxTypeOK'
  BY <1>1, <1>4 DEF BoxInv, BoxTypeOK
<1>6. \A t \in Tasks : Under(t)' \subseteq Under(t)
  BY <1>2, <1>3 DEF Under
<1> QED
  BY <1>1, <1>5, <1>6, RestingBox

LEMMA NextKeepsBox ==
  ASSUME BoxInv, [Next]_vars
  PROVE  BoxInv'
<1>1. CASE ListUser /\ form = 0 /\ UNCHANGED <<quickAdd, taskForm>>
  <2>1. UNCHANGED faults
    BY <1>1 DEF ListUser, TypeSearch, SetFilter, TurnPage, ClearSelection, BulkComplete,
                ToggleSelect
  <2> QED
    BY <1>1, <2>1, ElsewhereBox
<1>2. CASE ListProceeds /\ UNCHANGED <<quickAdd, taskForm>>
  <2>1. faults' = faults \/ faults' = faults + 1
    BY <1>2 DEF ListProceeds, DebounceFires, SettleBulk, ServeFetch, ReceiveFetch, ServeBulk
  <2> QED
    BY <1>2, <2>1, ElsewhereBox
<1>3. ASSUME NEW titles \in SUBSET Tasks, TypeTitle(titles) PROVE BoxInv'
  BY <1>3, TypingBox
<1>4. ASSUME NEW s \in Slots, Submit(s) \/ SettleBatch(s) PROVE BoxInv'
  BY <1>4, SubmittingBox, SettlingBox
<1>5. ASSUME NEW s \in Slots, NEW t \in Tasks, ServeCreate(s, t) \/ CreateLost(s, t)
      PROVE  BoxInv'
  BY <1>5, ServingBox, LosingBox
<1>6. CASE OpenForm \/ CloseForm \/ SaveForm
  BY <1>6, ElsewhereBox DEF OpenForm, CloseForm, SaveForm
<1>7. ASSUME NEW n \in Forms, ServeSave(n) \/ SaveSucceeds(n) \/ SaveFails(n)
      PROVE  BoxInv'
  BY <1>7, ElsewhereBox DEF ServeSave, SaveSucceeds, SaveFails
<1>8. ASSUME NEW x \in Texts, Remount(x) PROVE BoxInv'
  BY <1>8, RemountingBox
<1>9. ASSUME NEW v \in Views, FetchLost(v), UNCHANGED <<quickAdd, taskForm>> PROVE BoxInv'
  BY <1>9, ElsewhereBox DEF FetchLost
<1>10. CASE UNCHANGED vars
  BY <1>10, ElsewhereBox DEF vars, listVars
<1> QED
  BY <1>1, <1>2, <1>3, <1>4, <1>5, <1>6, <1>7, <1>8, <1>9, <1>10 DEF Next, Proceed

LEMMA BoxInitially == Init => BoxInv
<1> SUFFICES ASSUME Init PROVE BoxInv
  OBVIOUS
<1>1. BoxTypeOK
  BY DEF Init, ListInit, BoxTypeOK
<1>2. ASSUME NEW t \in Tasks
      PROVE  made[t] + Cardinality(Under(t)) + Ready(t) <= typed[t] + faults
  <2>1. Under(t) = {}
    BY DEF Init, Under
  <2>2. Cardinality(Under(t)) = 0
    BY <2>1, FS_EmptySet
  <2>3. Ready(t) = 0 /\ made[t] = 0 /\ typed[t] = 0 /\ faults = 0
    BY DEF Init, ListInit, Ready
  <2> QED
    BY <2>2, <2>3
<1> QED
  BY <1>1, <1>2 DEF BoxInv, TitlesAccounted

LEMMA BoxInvBounds == BoxInv => CreatedAsTyped
<1> SUFFICES ASSUME BoxInv, NEW t \in Tasks PROVE made[t] <= typed[t] + faults
  BY DEF CreatedAsTyped
<1>1. Cardinality(Under(t)) \in Nat
  BY FormConstants, FS_Subset, FS_CardinalityType DEF Under
<1>2. made[t] \in Nat /\ typed[t] \in Nat /\ faults \in Nat /\ Ready(t) \in {0, 1}
  BY DEF BoxInv, BoxTypeOK, Ready
<1>3. made[t] + Cardinality(Under(t)) + Ready(t) <= typed[t] + faults
  BY DEF BoxInv, TitlesAccounted
<1> QED
  BY <1>1, <1>2, <1>3

(***************************************************************************)
(* The quick add box creates a title as often as it was typed, and once    *)
(* more only for a request that failed, for any number of submissions that *)
(* overlap: handleSubmit holds Enter back while isSubmitting, and the text *)
(* stays in the box in its catch.                                          *)
(***************************************************************************)
THEOREM EnterCreatesOnce == Spec => []CreatedAsTyped
<1>1. BoxInv /\ [Next]_vars => BoxInv'
  BY NextKeepsBox
<1> QED
  BY <1>1, BoxInitially, BoxInvBounds, PTL DEF Spec

-----------------------------------------------------------------------------
(***************************************************************************)
(* The task form.                                                          *)
(***************************************************************************)

FormInv ==
  /\ acts \in Nat
  /\ save \in [Forms -> {"none", "sent", "ok", "failed"}]

\* A step that touches no form is an act of the user or none.
LEMMA ElsewhereForm ==
  ASSUME FormInv, UNCHANGED <<form, save>>, Act \/ UNCHANGED acts
  PROVE  FormInv'
BY DEF FormInv, Act

LEMMA NextKeepsForms ==
  ASSUME FormInv, [Next]_vars
  PROVE  /\ FormInv'
         /\ form # 0 /\ form' # form =>
              acts' > acts \/ (save[form] = "ok" /\ save'[form] = "none")
<1> DEFINE Closes == form # 0 /\ form' # form =>
                       acts' > acts \/ (save[form] = "ok" /\ save'[form] = "none")
<1> SUFFICES FormInv' /\ Closes
  OBVIOUS
<1>1. ASSUME ListUser, UNCHANGED taskForm PROVE FormInv' /\ Closes
  <2>1. Act
    BY <1>1 DEF ListUser, TypeSearch, SetFilter, TurnPage, ClearSelection, BulkComplete,
                ToggleSelect
  <2> QED
    BY <1>1, <2>1, ElsewhereForm DEF taskForm
<1>2. ASSUME ListProceeds, UNCHANGED taskForm PROVE FormInv' /\ Closes
  <2>1. UNCHANGED acts
    BY <1>2 DEF ListProceeds, DebounceFires, SettleBulk, ServeFetch, ReceiveFetch, ServeBulk
  <2> QED
    BY <1>2, <2>1, ElsewhereForm DEF taskForm
<1>3. ASSUME NEW titles, TypeTitle(titles) PROVE FormInv' /\ Closes
  BY <1>3, ElsewhereForm DEF TypeTitle, taskForm
<1>4. ASSUME NEW s \in Slots, Submit(s) \/ SettleBatch(s) PROVE FormInv' /\ Closes
  BY <1>4, ElsewhereForm DEF Submit, SettleBatch, taskForm
<1>5. ASSUME NEW s \in Slots, NEW t \in Tasks, ServeCreate(s, t) \/ CreateLost(s, t)
      PROVE  FormInv' /\ Closes
  BY <1>5, ElsewhereForm DEF ServeCreate, CreateLost, taskForm
<1>6. CASE OpenForm
  BY <1>6 DEF OpenForm, Act, FormInv
<1>7. CASE CloseForm
  BY <1>7 DEF CloseForm, Act, FormInv
<1>8. CASE SaveForm
  <2>1. acts' = acts + 1 /\ save' = [save EXCEPT ![form] = "sent"] /\ form' = form
    BY <1>8 DEF SaveForm, Act
  <2>2. acts' \in Nat
    BY <2>1 DEF FormInv
  <2>3. save' \in [Forms -> {"none", "sent", "ok", "failed"}]
    BY <2>1 DEF FormInv
  <2> QED
    BY <2>1, <2>2, <2>3 DEF FormInv
<1>9. ASSUME NEW n \in Forms, ServeSave(n) \/ SaveFails(n) PROVE FormInv' /\ Closes
  BY <1>9 DEF ServeSave, SaveFails, FormInv
<1>10. ASSUME NEW n \in Forms, SaveSucceeds(n) PROVE FormInv' /\ Closes
  <2>1. /\ save[n] = "ok" /\ save' = [save EXCEPT ![n] = "none"]
        /\ AnswerCloses(n) /\ UNCHANGED acts
    BY <1>10 DEF SaveSucceeds
  <2>2. FormInv' /\ save'[n] = "none"
    BY <2>1 DEF FormInv
  <2>3. form' # form => form = n
    BY <2>1 DEF AnswerCloses
  <2> QED
    BY <2>1, <2>2, <2>3
<1>11. ASSUME NEW x \in Texts, Remount(x) PROVE FormInv' /\ Closes
  BY <1>11, ElsewhereForm DEF Remount, taskForm
<1>12. ASSUME NEW v \in Views, FetchLost(v), UNCHANGED taskForm PROVE FormInv' /\ Closes
  BY <1>12, ElsewhereForm DEF FetchLost, taskForm
<1>13. CASE UNCHANGED vars
  BY <1>13, ElsewhereForm DEF vars, listVars, taskForm
<1> HIDE DEF Closes
<1> QED
  BY <1>1, <1>2, <1>3, <1>4, <1>5, <1>6, <1>7, <1>8, <1>9, <1>10, <1>11, <1>12, <1>13
  DEF Next, Proceed

(***************************************************************************)
(* A task form leaves the screen when its user closes it or when its own   *)
(* save is answered, however many forms were opened and closed while their *)
(* saves were on their way: the onSuccess that closes it is given to       *)
(* mutate in onSubmit of TaskModal.tsx.                                    *)
(***************************************************************************)
THEOREM LateAnswersCloseNothing == Spec => OwnAnswerCloses
<1>1. Init => FormInv
  BY DEF Init, ListInit, FormInv
<1>2. FormInv /\ [Next]_vars => FormInv'
  BY NextKeepsForms
<1>3. FormInv /\ [Next]_vars =>
        [form # 0 /\ form' # form =>
           acts' > acts \/ (save[form] = "ok" /\ save'[form] = "none")]_vars
  BY NextKeepsForms
<1> QED
  BY <1>1, <1>2, <1>3, PTL DEF Spec, OwnAnswerCloses

-----------------------------------------------------------------------------
(***************************************************************************)
(* Types: an offset is one of the pager's and an answer one of the sizes   *)
(* list_tasks gives, whatever was asked for, served and received.          *)
(***************************************************************************)
ServerTyped   == server \in [Tasks -> Status \cup {NULL}] /\ Tasks # {}
ControlsTyped == /\ text \in Texts /\ debounced \in Texts /\ timer \in Texts \cup {NULL}
                 /\ filter \in Filters /\ offset \in Offsets
TicksTyped    == selected \subseteq Tasks /\ bulk \in (SUBSET Tasks) \cup {NULL}
QueriesTyped  == /\ cache \in [Views -> Answer \cup {NULL}]
                 /\ fetch \in [Views -> Answer \cup {Idle, Sent}]
                 /\ outdated \subseteq Views
FormTyped     == /\ form \in 0..MaxForms /\ modalTask \in Tasks \cup {NULL}
                 /\ opened \in Nat /\ save \in [Forms -> {"none", "sent", "ok", "failed"}]

TableInv == ServerTyped /\ ControlsTyped /\ TicksTyped /\ QueriesTyped

PagesInv == TableInv /\ BoxInv /\ FormTyped

\* The first page is a page, and the pager goes from page to page.
LEMMA FirstPage ==
  ASSUME Tasks # {}
  PROVE  0 \in Offsets /\ Cardinality(Tasks) \in Nat
<1>1. Cardinality(Tasks) \in Nat /\ Cardinality(Tasks) # 0
  BY ListConstants, FS_CardinalityType, FS_EmptySet
<1>2. 0 \in 0..(Cardinality(Tasks) - 1) /\ 0 = PageSize * 0
  BY <1>1, ListConstants
<1> QED
  BY <1>1, <1>2 DEF Offsets

LEMMA NextPage ==
  ASSUME Tasks # {}, NEW o \in Offsets
  PROVE  /\ o \in Nat
         /\ o > 0 => o - PageSize \in Offsets
         /\ o + PageSize < Cardinality(Tasks) => o + PageSize \in Offsets
<1> DEFINE n == Cardinality(Tasks)
<1>1. n \in Nat
  BY FirstPage
<1> HIDE DEF n
<1>2. PICK k \in 0..(n - 1) : o = PageSize * k
  BY DEF Offsets, n
<1>3. PageSize \in Nat /\ PageSize >= 1 /\ k \in Nat
  BY <1>1, ListConstants
<1>4. o \in Nat
  BY <1>2, <1>3
<1>5. ASSUME o > 0 PROVE o - PageSize \in Offsets
  <2>1. k > 0
    BY <1>2, <1>3, <1>5
  <2>2. k - 1 \in 0..(n - 1) /\ PageSize * (k - 1) = o - PageSize
    BY <1>1, <1>2, <1>3, <2>1
  <2> QED
    BY <2>2 DEF Offsets, n
<1>6. ASSUME o + PageSize < n PROVE o + PageSize \in Offsets
  <2>1. PageSize * (k + 1) = o + PageSize /\ PageSize * (k + 1) >= k + 1
    BY <1>2, <1>3
  <2>2. k + 1 \in 0..(n - 1)
    BY <1>1, <1>3, <1>4, <1>6, <2>1
  <2> QED
    BY <2>1, <2>2 DEF Offsets, n
<1> QED
  BY <1>4, <1>5, <1>6 DEF n

\* What list_tasks answers: rows it found, and how many there are.
LEMMA AnswersTyped ==
  ASSUME NEW v \in Views
  PROVE  Answers(v) \subseteq Answer
<1>1. Found(v) \subseteq Tasks
  BY ListConstants DEF Found, Views
<1>2. IsFiniteSet(Found(v)) /\ Cardinality(Found(v)) <= Cardinality(Tasks)
  BY <1>1, ListConstants, FS_Subset
<1>3. Cardinality(Found(v)) \in 0..Cardinality(Tasks)
  BY <1>2, ListConstants, FS_CardinalityType
<1>4. \A size : kSubset(size, Found(v)) \subseteq SUBSET Tasks
  BY <1>1 DEF kSubset
<1> QED
  BY <1>3, <1>4 DEF Answers, Answer

LEMMA ViewTyped ==
  ASSUME ControlsTyped
  PROVE  View \in Views
BY DEF ControlsTyped, View, Views

\* The query of the next view is asked for, or not.
LEMMA ObserveTyped ==
  ASSUME QueriesTyped, ControlsTyped', Observe
  PROVE  QueriesTyped'
<1>1. CASE UNCHANGED queries
  BY <1>1 DEF QueriesTyped, queries
<1>2. CASE ~UNCHANGED queries
  <2>1. /\ fetch' = [fetch EXCEPT ![View'] = IF @ = Idle THEN Sent ELSE @]
        /\ outdated' = IF fetch[View'] = Idle THEN outdated \ {View'} ELSE outdated
        /\ UNCHANGED cache
    BY <1>2 DEF Observe
  <2>2. View' \in Views
    BY DEF ControlsTyped, View, Views
  <2> HIDE DEF View
  <2>3. fetch[View'] \in Answer \cup {Idle, Sent}
    BY <2>2 DEF QueriesTyped
  <2> QED
    BY <2>1, <2>2, <2>3 DEF QueriesTyped
<1> QED
  BY <1>1, <1>2

LEMMA InvalidateTyped ==
  ASSUME QueriesTyped, ControlsTyped, Invalidate
  PROVE  QueriesTyped'
<1>1. View \in Views
  BY ViewTyped
<1>2. fetch' = fetch \/ fetch' = [fetch EXCEPT ![View] = Sent]
  BY DEF Invalidate
<1>3. outdated' \subseteq Views /\ UNCHANGED cache
  BY <1>1 DEF Invalidate, QueriesTyped
<1> QED
  BY <1>1, <1>2, <1>3 DEF QueriesTyped

\* What the table shows.
LEMMA ShownTyped ==
  ASSUME QueriesTyped, ControlsTyped
  PROVE  Shown \subseteq Tasks /\ Total \in {0} \cup 0..Cardinality(Tasks)
<1>1. cache[View] = NULL \/ cache[View] \in Answer
  BY ViewTyped DEF QueriesTyped
<1> QED
  BY <1>1 DEF Shown, Total, Answer

\* What the user does with the controls, the rows and the selection.
LEMMA UserTyped ==
  ASSUME TableInv, ListUser
  PROVE  TableInv'
<1> USE DEF TableInv
<1>1. 0 \in Offsets /\ Cardinality(Tasks) \in Nat
  BY FirstPage DEF ServerTyped
<1>2. ASSUME NEW x \in Texts, TypeSearch(x) PROVE TableInv'
  <2>1. /\ text' = x /\ timer' = x /\ offset' = 0 /\ selected' = {}
        /\ UNCHANGED <<debounced, filter, server, bulk>> /\ Observe
    BY <1>2 DEF TypeSearch, SetTimer, Unticked
  <2>2. ControlsTyped'
    BY <1>1, <2>1 DEF ControlsTyped
  <2> QED
    BY <2>1, <2>2, ObserveTyped DEF ServerTyped, TicksTyped
<1>3. CASE SetFilter
  <2>1. /\ filter' \in Filters /\ offset' = 0 /\ selected' = {}
        /\ UNCHANGED <<text, timer, debounced, server, bulk>> /\ Observe
    BY <1>3 DEF SetFilter, Unticked
  <2>2. ControlsTyped'
    BY <1>1, <2>1 DEF ControlsTyped
  <2> QED
    BY <2>1, <2>2, ObserveTyped DEF ServerTyped, TicksTyped
<1>4. CASE TurnPage
  <2>1. /\ \/ offset > 0 /\ offset' = offset - PageSize
           \/ offset + PageSize < Total /\ offset' = offset + PageSize
        /\ selected' = {}
        /\ UNCHANGED <<text, timer, debounced, filter, server, bulk>> /\ Observe
    BY <1>4 DEF TurnPage, Unticked
  <2>2. Total \in 0..Cardinality(Tasks)
    BY <1>1, ShownTyped
  <2>3. offset' \in Offsets
    <3>1. offset \in Offsets /\ offset \in Nat /\ PageSize \in Nat
      BY NextPage, ListConstants DEF ControlsTyped, ServerTyped
    <3>2. CASE offset > 0 /\ offset' = offset - PageSize
      BY <3>1, <3>2, NextPage DEF ServerTyped
    <3>3. CASE offset + PageSize < Total /\ offset' = offset + PageSize
      <4>1. offset + PageSize < Cardinality(Tasks)
        BY <1>1, <2>2, <3>1, <3>3
      <4> QED
        BY <3>1, <3>3, <4>1, NextPage DEF ServerTyped
    <3> QED
      BY <2>1, <3>2, <3>3
  <2>4. ControlsTyped'
    BY <2>1, <2>3 DEF ControlsTyped
  <2> QED
    BY <2>1, <2>4, ObserveTyped DEF ServerTyped, TicksTyped
<1>5. ASSUME \/ ClearSelection \/ BulkComplete
             \/ \E t \in Tasks : ToggleSelect(t)
      PROVE  TableInv'
  <2>1. TicksTyped'
    <3>1. CASE ClearSelection
      BY <3>1 DEF ClearSelection, Unticked, TicksTyped
    <3>2. CASE BulkComplete
      BY <3>2 DEF BulkComplete, Unticked, TicksTyped
    <3>3. ASSUME NEW t \in Tasks, ToggleSelect(t) PROVE TicksTyped'
      BY <3>3 DEF ToggleSelect, TicksTyped
    <3> QED
      BY <1>5, <3>1, <3>2, <3>3
  <2>2. UNCHANGED <<server, controls, queries>>
    BY <1>5 DEF ClearSelection, BulkComplete, ToggleSelect
  <2> QED
    BY <2>1, <2>2 DEF ServerTyped, ControlsTyped, QueriesTyped, controls, queries
<1> QED
  BY <1>2, <1>3, <1>4, <1>5 DEF ListUser

\* What the list does on its own, and a fetch that is lost.
LEMMA ProceedingTyped ==
  ASSUME TableInv, ListProceeds \/ \E v \in Views : FetchLost(v)
  PROVE  TableInv'
<1> USE DEF TableInv
<1>1. CASE DebounceFires
  <2>1. /\ timer # NULL /\ debounced' = timer /\ timer' = NULL
        /\ UNCHANGED <<text, filter, offset, server, rows, bulk>> /\ Observe
    BY <1>1 DEF DebounceFires
  <2>2. ControlsTyped'
    BY <2>1 DEF ControlsTyped
  <2> QED
    BY <2>1, <2>2, ObserveTyped DEF ServerTyped, TicksTyped, rows
<1>2. CASE SettleBulk
  <2>1. bulk' = NULL /\ UNCHANGED <<server, controls, rows>> /\ Invalidate
    BY <1>2 DEF SettleBulk
  <2>2. QueriesTyped'
    BY <2>1, InvalidateTyped
  <2>3. ServerTyped' /\ TicksTyped' /\ ControlsTyped'
    BY <2>1 DEF ServerTyped, TicksTyped, ControlsTyped, rows, controls
  <2> QED
    BY <2>2, <2>3
<1>3. ASSUME NEW v \in Views, ServeFetch(v) \/ ReceiveFetch(v) \/ FetchLost(v)
      PROVE  TableInv'
  <2>1. UNCHANGED <<server, controls, rows, bulk>>
    BY <1>3 DEF ServeFetch, ReceiveFetch, FetchLost
  <2>2. QueriesTyped'
    <3>1. CASE ServeFetch(v)
      BY <3>1, AnswersTyped DEF ServeFetch, QueriesTyped
    <3>2. CASE ReceiveFetch(v)
      BY <3>2 DEF ReceiveFetch, QueriesTyped
    <3>3. CASE FetchLost(v)
      BY <3>3 DEF FetchLost, QueriesTyped
    <3> QED
      BY <1>3, <3>1, <3>2, <3>3
  <2> QED
    BY <2>1, <2>2 DEF ServerTyped, TicksTyped, ControlsTyped, rows, controls
<1>4. ASSUME NEW t \in Tasks, ServeBulk(t) PROVE TableInv'
  <2>1. /\ bulk # NULL /\ bulk' = bulk \ {t}
        /\ server' \in {server, [server EXCEPT ![t] = "completed"]}
        /\ UNCHANGED <<controls, rows, queries>>
    BY <1>4 DEF ServeBulk
  <2>2. ServerTyped'
    BY <2>1 DEF ServerTyped, Status
  <2> QED
    BY <2>1, <2>2 DEF TicksTyped, ControlsTyped, QueriesTyped, rows, controls, queries
<1> QED
  BY <1>1, <1>2, <1>3, <1>4 DEF ListProceeds

\* The box and the form: at most the rows of the server change, by a row that is
\* created, and the queries by a refetch.
LEMMA ElsewhereTyped ==
  ASSUME TableInv, UNCHANGED <<controls, rows, bulk>>,
         UNCHANGED server \/ \E t \in Tasks : Created(t),
         \/ UNCHANGED queries \/ Invalidate
         \/ outdated' = Views /\ UNCHANGED <<cache, fetch>>
  PROVE  TableInv'
<1> USE DEF TableInv
<1>1. ServerTyped'
  BY DEF ServerTyped, Created, Status
<1>2. ControlsTyped' /\ TicksTyped'
  BY DEF ControlsTyped, TicksTyped, controls, rows
<1>3. QueriesTyped'
  BY InvalidateTyped DEF QueriesTyped, queries
<1> QED
  BY <1>1, <1>2, <1>3

LEMMA RemountTyped ==
  ASSUME TableInv, NEW x \in Texts, Remount(x)
  PROVE  TableInv'
<1> USE DEF TableInv
<1>1. /\ text' = x /\ debounced' = x /\ timer' = NULL /\ filter' = "all" /\ offset' = 0
      /\ selected' = {} /\ UNCHANGED <<cache, server, bulk>>
      /\ fetch' = [fetch EXCEPT ![View'] = IF @ = Idle THEN Sent ELSE @]
      /\ outdated' = IF fetch[View'] = Idle THEN outdated \ {View'} ELSE outdated
  BY DEF Remount, Unticked
<1>2. ControlsTyped'
  BY <1>1, FirstPage DEF ControlsTyped, ServerTyped, Filters
<1>3. View' \in Views
  BY <1>2 DEF ControlsTyped, View, Views
<1>4. QueriesTyped'
  <2> HIDE DEF View
  <2>1. fetch[View'] \in Answer \cup {Idle, Sent}
    BY <1>3 DEF QueriesTyped
  <2> QED
    BY <1>1, <1>3, <2>1 DEF QueriesTyped
<1> QED
  BY <1>1, <1>2, <1>4 DEF ServerTyped, TicksTyped

LEMMA NextKeepsTable ==
  ASSUME TableInv, [Next]_vars
  PROVE  TableInv'
<1>1. CASE ListUser
  BY <1>1, UserTyped
<1>2. CASE ListProceeds \/ \E v \in Views : FetchLost(v)
  BY <1>2, ProceedingTyped
<1>3. ASSUME NEW titles, TypeTitle(titles) PROVE TableInv'
  BY <1>3, ElsewhereTyped DEF TypeTitle
<1>4. ASSUME NEW s \in Slots, Submit(s) PROVE TableInv'
  BY <1>4, ElsewhereTyped DEF Submit
<1>5. ASSUME NEW s \in Slots, SettleBatch(s) PROVE TableInv'
  BY <1>5, ElsewhereTyped DEF SettleBatch
<1>6. ASSUME NEW s \in Slots, NEW t \in Tasks, ServeCreate(s, t) \/ CreateLost(s, t)
      PROVE  TableInv'
  BY <1>6, ElsewhereTyped DEF ServeCreate, CreateLost
<1>7. CASE OpenForm \/ CloseForm \/ SaveForm
  BY <1>7, ElsewhereTyped DEF OpenForm, CloseForm, SaveForm
<1>8. ASSUME NEW n \in Forms, ServeSave(n) PROVE TableInv'
  BY <1>8, ElsewhereTyped DEF ServeSave
<1>9. ASSUME NEW n \in Forms, SaveSucceeds(n) \/ SaveFails(n) PROVE TableInv'
  BY <1>9, ElsewhereTyped DEF SaveSucceeds, SaveFails
<1>10. ASSUME NEW x \in Texts, Remount(x) PROVE TableInv'
  BY <1>10, RemountTyped
<1>11. CASE UNCHANGED vars
  BY <1>11, ElsewhereTyped DEF vars, listVars
<1> QED
  BY <1>1, <1>2, <1>3, <1>4, <1>5, <1>6, <1>7, <1>8, <1>9, <1>10, <1>11 DEF Next, Proceed

\* The form on the screen is one that was opened, and edits a row of the table.
LEMMA NextKeepsForm ==
  ASSUME TableInv, FormTyped, FormInv', [Next]_vars
  PROVE  FormTyped'
<1>1. save' \in [Forms -> {"none", "sent", "ok", "failed"}]
  BY DEF FormInv
<1>2. CASE UNCHANGED <<form, modalTask, opened>>
  BY <1>1, <1>2 DEF FormTyped
<1>3. CASE OpenForm
  <2>1. /\ opened < MaxForms /\ opened' = opened + 1 /\ form' = opened + 1
        /\ modalTask' \in Shown \cup {NULL}
    BY <1>3 DEF OpenForm
  <2>2. Shown \subseteq Tasks
    BY ShownTyped DEF TableInv
  <2> QED
    BY <1>1, <2>1, <2>2, FormConstants DEF FormTyped
<1>4. CASE form' = 0 /\ modalTask' = NULL /\ UNCHANGED opened
  BY <1>1, <1>4, FormConstants DEF FormTyped
<1>5. CASE UNCHANGED taskForm
  BY <1>2, <1>5 DEF taskForm
<1>6. CASE CloseForm \/ SaveForm
  BY <1>2, <1>4, <1>6 DEF CloseForm, SaveForm
<1>7. ASSUME NEW n \in Forms, ServeSave(n) \/ SaveSucceeds(n) \/ SaveFails(n)
      PROVE  FormTyped'
  BY <1>2, <1>4, <1>7 DEF ServeSave, SaveSucceeds, SaveFails, AnswerCloses
<1>8. ASSUME NEW titles, TypeTitle(titles) PROVE UNCHANGED taskForm
  BY <1>8 DEF TypeTitle
<1>9. ASSUME NEW s \in Slots, Submit(s) \/ SettleBatch(s) PROVE UNCHANGED taskForm
  BY <1>9 DEF Submit, SettleBatch
<1>10. ASSUME NEW s \in Slots, NEW t \in Tasks, ServeCreate(s, t) \/ CreateLost(s, t)
       PROVE  UNCHANGED taskForm
  BY <1>10 DEF ServeCreate, CreateLost
<1>11. ASSUME NEW x \in Texts, Remount(x) PROVE UNCHANGED taskForm
  BY <1>11 DEF Remount
<1>12. ASSUME UNCHANGED vars PROVE UNCHANGED taskForm
  BY <1>12 DEF vars
<1> QED
  BY <1>3, <1>5, <1>6, <1>7, <1>8, <1>9, <1>10, <1>11, <1>12 DEF Next, Proceed

LEMMA PagesInitially == Init => TableInv /\ FormTyped
<1> SUFFICES ASSUME Init PROVE TableInv /\ FormTyped
  OBVIOUS
<1>1. ServerTyped
  <2>1. /\ server \in [Tasks -> {"pending", NULL}] /\ server # [t \in Tasks |-> NULL]
    BY DEF Init, ListInit
  <2>2. Tasks # {}
    BY <2>1
  <2> QED
    BY <2>1, <2>2 DEF ServerTyped, Status
<1>2. ControlsTyped
  BY <1>1, FirstPage, ListConstants
  DEF Init, ListInit, Mounted, ControlsTyped, ServerTyped, Filters
<1>3. TicksTyped /\ QueriesTyped
  <2>1. /\ selected = {} /\ bulk = NULL /\ outdated = {}
        /\ cache = [v \in Views |-> NULL]
        /\ fetch = [v \in Views |-> IF v = View THEN Sent ELSE Idle]
    BY DEF Init, ListInit, Mounted
  <2> QED
    BY <2>1 DEF TicksTyped, QueriesTyped
<1>4. FormTyped
  BY FormConstants DEF Init, FormTyped
<1> QED
  BY <1>1, <1>2, <1>3, <1>4 DEF TableInv

(***************************************************************************)
(* Type correctness of the list page, the quick add box and the form, for  *)
(* any tasks, texts and page size: the offset is always one of the pager's *)
(* (ListPage.tsx turns by PAGE_SIZE and goes back to 0 with every change   *)
(* of a filter), and every view's answer is one list_tasks can give.       *)
(***************************************************************************)
THEOREM PagesTyped == Spec => []PagesTypeOK
<1>1. Init => FormInv
  BY DEF Init, ListInit, FormInv
<1>2. PagesInv /\ FormInv /\ [Next]_vars => (PagesInv /\ FormInv)'
  BY NextKeepsTable, NextKeepsBox, NextKeepsForms, NextKeepsForm DEF PagesInv
<1>3. PagesInv => PagesTypeOK
  BY DEF PagesInv, TableInv, ServerTyped, ControlsTyped, TicksTyped, QueriesTyped, FormTyped,
         BoxInv, BoxTypeOK, PagesTypeOK, ListTypeOK
<1> QED
  BY <1>1, <1>2, <1>3, PagesInitially, BoxInitially, PTL DEF Spec, PagesInv
=============================================================================
