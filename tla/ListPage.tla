------------------------------ MODULE ListPage ------------------------------
(***************************************************************************)
(* The list of all tasks, pages/ListPage.tsx: the search box and the value *)
(* useDebouncedValue makes of it, the filters, the pager, the rows that    *)
(* are ticked, and the query useTasks keeps for every view the page asks   *)
(* for.                                                                    *)
(*                                                                         *)
(* A filter stands for the status, the priority, the category and the sort *)
(* order, which the page treats alike.  The query client is the library's: *)
(* a view shown before appears from the cache while it is fetched again,   *)
(* and a fetch that fails is sent again (three times: MaxFaults \leq 3).   *)
(* The bulk deletion and its undo are those of TaskCache.                  *)
(***************************************************************************)
EXTENDS Integers, FiniteSets, FiniteSetsExt

CONSTANTS
  Tasks,
  NULL,
  Sent,                 \* stands for a request that is not served yet
  Texts, Blank,         \* what may stand in the search box; Blank is no text
  Matching,             \* the tasks a text finds
  PageSize,             \* PAGE_SIZE
  MaxActs,              \* bound: what the user does
  MaxFaults             \* bound: requests or answers lost

VARIABLES
  server,               \* the rows: status, NULL where there is no row
  text,                 \* search, the text of the box
  timer,                \* the text the debounce timer is set with, or NULL
  debounced,            \* debouncedSearch
  filter, offset,
  selected,             \* selectedIds
  cache,                \* the answer the query of each view holds, or NULL
  fetch,                \* the request of each view's query
  bulk,                 \* a bulk completion: the ids not served yet, or NULL
  tickedUnder,          \* history: the view each ticked row was ticked in, or NULL
  outdated,             \* history: views changed behind the back of their query
  acts, faults          \* counters for the bounds

controls == <<text, timer, debounced, filter, offset>>
rows     == <<selected, tickedUnder>>
queries  == <<cache, fetch, outdated>>
listVars == <<server, controls, rows, queries, bulk, acts, faults>>

Filters == {"all", "pending"}
Offsets == {PageSize * k : k \in 0..(Cardinality(Tasks) - 1)}
Views   == [text : Texts, filter : Filters, offset : Offsets]
Status  == {"pending", "completed"}
Answer  == [items : SUBSET Tasks, total : 0..Cardinality(Tasks)]
Idle == NULL

ASSUME ListConstants ==
  /\ Blank \in Texts /\ NULL \notin Texts \cup Status \cup {Sent}
  /\ IsFiniteSet(Tasks)
  /\ Matching \in [Texts -> SUBSET Tasks] /\ Matching[Blank] = Tasks
  /\ PageSize \in Nat \ {0} /\ MaxActs \in Nat /\ MaxFaults \in 0..3

ListTypeOK ==
  /\ server \in [Tasks -> Status \cup {NULL}]
  /\ text \in Texts /\ debounced \in Texts /\ timer \in Texts \cup {NULL}
  /\ filter \in Filters /\ offset \in Offsets
  /\ selected \subseteq Tasks
  /\ \A v \in Views : cache[v] = NULL \/ cache[v] \in Answer
  /\ \A v \in Views : fetch[v] \in {Idle, Sent} \/ fetch[v] \in Answer
  /\ bulk \in (SUBSET Tasks) \cup {NULL}
  /\ outdated \subseteq Views

-----------------------------------------------------------------------------
(***************************************************************************)
(* The query.                                                              *)
(***************************************************************************)
View == [text |-> debounced, filter |-> filter, offset |-> offset]

Found(v) == {t \in Matching[v.text] : server[t] # NULL /\ v.filter \in {"all", server[t]}}

\* list_tasks.  The order of tasks due at the same time is the database's.
Answers(v) ==
  LET total == Cardinality(Found(v))
      size  == IF total > v.offset THEN Min({PageSize, total - v.offset}) ELSE 0
  IN {[items |-> items, total |-> total] : items \in kSubset(size, Found(v))}

Shown == IF cache[View] = NULL THEN {} ELSE cache[View].items
Total == IF cache[View] = NULL THEN 0 ELSE cache[View].total

\* Another query key: its query is fetched, unless it is on its way already.
Observe ==
  IF View' = View THEN UNCHANGED queries
  ELSE /\ fetch' = [fetch EXCEPT ![View'] = IF @ = Idle THEN Sent ELSE @]
       /\ outdated' = IF fetch[View'] = Idle THEN outdated \ {View'} ELSE outdated
       /\ UNCHANGED cache

\* invalidateQueries: the query on the screen is fetched again.  A fetch on its
\* way is dropped for it, but the first fetch of a query is not, and neither are
\* those of the views that are not on the screen.
Invalidate ==
  LET flying == {v \in Views : fetch[v] # Idle}
      joined == IF cache[View] = NULL THEN {View} ELSE {}
  IN /\ fetch' = IF View \in flying \cap joined THEN fetch ELSE [fetch EXCEPT ![View] = Sent]
     /\ outdated' = (outdated \ {View}) \cup (flying \ {View}) \cup (flying \cap joined)
     /\ UNCHANGED cache

ServeFetch(v) ==
  /\ fetch[v] = Sent
  /\ \E answer \in Answers(v) : fetch' = [fetch EXCEPT ![v] = answer]
  /\ UNCHANGED <<server, controls, rows, cache, outdated, bulk, acts, faults>>

FetchLost(v) ==
  /\ fetch[v] \notin {Idle, Sent}
  /\ faults < MaxFaults /\ faults' = faults + 1
  /\ fetch' = [fetch EXCEPT ![v] = Sent]
  /\ outdated' = outdated \ {v}
  /\ UNCHANGED <<server, controls, rows, cache, bulk, acts>>

ReceiveFetch(v) ==
  /\ fetch[v] \notin {Idle, Sent}
  /\ cache' = [cache EXCEPT ![v] = fetch[v]]
  /\ fetch' = [fetch EXCEPT ![v] = Idle]
  /\ UNCHANGED <<server, controls, rows, outdated, bulk, acts, faults>>

-----------------------------------------------------------------------------
(***************************************************************************)
(* The controls.                                                           *)
(***************************************************************************)
Act == acts < MaxActs /\ acts' = acts + 1

NoTicks == [t \in Tasks |-> NULL]

Unticked == selected' = {} /\ tickedUnder' = NoTicks

\* Mutant: the effect leaves a timer that is running alone.
SetTimerOnce(x) == timer' = IF timer = NULL THEN x ELSE timer

\* useDebouncedValue: the effect's clean-up clears the timer of the text before.
SetTimer(x) == timer' = x

TypeSearch(x) ==
  /\ Act /\ x # text
  /\ text' = x /\ SetTimer(x)
  /\ offset' = 0 /\ Unticked
  /\ UNCHANGED <<debounced, filter>> /\ Observe
  /\ UNCHANGED <<server, bulk, faults>>

DebounceFires ==
  /\ timer # NULL
  /\ debounced' = timer /\ timer' = NULL
  /\ UNCHANGED <<text, filter, offset>> /\ Observe
  /\ UNCHANGED <<server, rows, bulk, acts, faults>>

SetFilter ==
  /\ Act
  /\ \E f \in Filters \ {filter} : filter' = f
  /\ offset' = 0 /\ Unticked
  /\ UNCHANGED <<text, timer, debounced>> /\ Observe
  /\ UNCHANGED <<server, bulk, faults>>

\* Mutant: the ticks outlive the page.
TurnPageTicked ==
  /\ Act /\ Total > PageSize
  /\ \/ offset > 0 /\ offset' = offset - PageSize
     \/ offset + PageSize < Total /\ offset' = offset + PageSize
  /\ UNCHANGED <<text, timer, debounced, filter, rows>> /\ Observe
  /\ UNCHANGED <<server, bulk, faults>>

\* The pager is there while there is more than a page.
TurnPage ==
  /\ Act /\ Total > PageSize
  /\ \/ offset > 0 /\ offset' = offset - PageSize
     \/ offset + PageSize < Total /\ offset' = offset + PageSize
  /\ Unticked
  /\ UNCHANGED <<text, timer, debounced, filter>> /\ Observe
  /\ UNCHANGED <<server, bulk, faults>>

\* toggleSelect, of a row of the table.
ToggleSelect(t) ==
  /\ Act /\ t \in Shown
  /\ selected' = IF t \in selected THEN selected \ {t} ELSE selected \cup {t}
  /\ tickedUnder' = [tickedUnder EXCEPT ![t] = IF t \in selected THEN NULL ELSE View]
  /\ UNCHANGED <<server, controls, queries, bulk, faults>>

\* The cancel button of the selection.
ClearSelection ==
  /\ Act /\ selected # {} /\ Unticked
  /\ UNCHANGED <<server, controls, queries, bulk, faults>>

-----------------------------------------------------------------------------
(***************************************************************************)
(* handleBulkComplete.  (One at a time: TaskCache has overlapping ones.)   *)
(***************************************************************************)
BulkComplete ==
  /\ Act /\ selected # {} /\ bulk = NULL
  /\ bulk' = selected /\ Unticked
  /\ UNCHANGED <<server, controls, queries, faults>>

\* complete_task of one row; the request, or only its answer, may be lost.
ServeBulk(t) ==
  /\ bulk # NULL /\ t \in bulk
  /\ bulk' = bulk \ {t}
  /\ \/ UNCHANGED faults /\ server' = [server EXCEPT ![t] = "completed"]
     \/ /\ faults < MaxFaults /\ faults' = faults + 1
        /\ server' \in {server, [server EXCEPT ![t] = "completed"]}
  /\ UNCHANGED <<controls, rows, queries, acts>>

\* Promise.allSettled: the list is fetched again whatever was lost.
SettleBulk ==
  /\ bulk = {} /\ bulk' = NULL
  /\ Invalidate
  /\ UNCHANGED <<server, controls, rows, acts, faults>>

-----------------------------------------------------------------------------
\* The page is mounted: by the top bar's search with a text.
Mounted(x) ==
  /\ text = x /\ debounced = x /\ timer = NULL
  /\ filter = "all" /\ offset = 0
  /\ selected = {} /\ tickedUnder = NoTicks

ListInit ==
  /\ server \in [Tasks -> {"pending", NULL}] /\ server # [t \in Tasks |-> NULL]
  /\ Mounted(Blank)
  /\ cache = [v \in Views |-> NULL]
  /\ fetch = [v \in Views |-> IF v = View THEN Sent ELSE Idle]
  /\ bulk = NULL /\ outdated = {} /\ acts = 0 /\ faults = 0

ListUser ==
  \/ \E x \in Texts : TypeSearch(x)
  \/ SetFilter \/ TurnPage \/ ClearSelection \/ BulkComplete
  \/ \E t \in Tasks : ToggleSelect(t)

ListProceeds ==
  \/ DebounceFires \/ SettleBulk
  \/ \E v \in Views : ServeFetch(v) \/ ReceiveFetch(v)
  \/ \E t \in Tasks : ServeBulk(t)

ListNext == ListUser \/ ListProceeds \/ \E v \in Views : FetchLost(v)
=============================================================================
