----------------------------- MODULE TaskCache -----------------------------
(***************************************************************************)
(* The task list a page shows and what it does to it: the query cache of   *)
(* useTasks, the mutations of useTaskMutations.ts and ListPage.tsx, and    *)
(* delete-with-undo with its timers, snapshots and toasts.                 *)
(*                                                                         *)
(* The list is that of the mounted page, without filter, and a task is its *)
(* status.  The query client is the library's: it fetches again when the   *)
(* window gets the focus, a fetch that fails is sent again (three times:   *)
(* MaxFaults \leq 3), and a fetch that is cancelled does not write.        *)
(***************************************************************************)
EXTENDS Naturals, Sequences

CONSTANTS
  Tasks,
  Slots,                \* bound: mutations in flight at once
  NULL,
  Acts,                 \* what the user does
  MaxStarts,            \* bound: mutations begun and times the window gets the focus
  MaxDeletes,           \* bound: times each task is deleted
  MaxFaults             \* bound: requests or answers lost

VARIABLES
  server,               \* the rows: status, NULL where there is no row
  cache,                \* the items of the cached list
  fetch,                \* the list query in flight
  mut,                  \* the mutations in flight
  timer,                \* the timer of a task's n-th deletion, then its DELETE
  pendingTimer,         \* pendingDeleteTimers: the number of the timer, or 0
  snapshot,             \* pendingDeleteSnapshots
  toasts,               \* the undo toasts on the screen
  undone,               \* history: tasks whose deletion was undone in time
  unreconciled,         \* history: no refetch asked for since an undo, or since a skip failed
  starts, faults        \* counters for the bounds

deletion == <<timer, pendingTimer, snapshot, toasts, undone>>
vars == <<server, cache, fetch, mut, deletion, unreconciled, starts, faults>>

ASSUME CacheConstants ==
  /\ MaxStarts \in Nat /\ MaxDeletes \in Nat /\ MaxFaults \in 0..3
  /\ NULL \notin {"pending", "completed", "snoozed"}

Status == {"pending", "completed", "snoozed"}
List   == [Tasks -> Status \cup {NULL}]
Order  == 1..MaxDeletes

\* todo: the tasks whose request is not answered yet.
Mutation == [kind : {"complete", "reopen", "snooze", "skip", "bulk"},
             todo : SUBSET Tasks,
             ok   : BOOLEAN,
             previous : List]

ASSUME NullMutation == NULL \notin Mutation

Idle == "idle"
CacheTypeOK ==
  /\ server \in List /\ cache \in List
  /\ fetch \in [stage : {Idle, "sent", "answered"}, data : List]
  /\ mut \in [Slots -> Mutation \cup {NULL}]
  /\ timer \in [Tasks -> [Order -> {Idle, "waiting", "cancelled", "sent", "answered", "done"}]]
  /\ pendingTimer \in [Tasks -> 0..MaxDeletes]
  /\ \A t \in Tasks : snapshot[t] \in List \cup {NULL}
  /\ \A ids \in toasts : ids \in Seq(Tasks)
  /\ undone \subseteq Tasks /\ unreconciled \in BOOLEAN

Shown == {t \in Tasks : cache[t] # NULL}
Sending == [stage |-> "sent", data |-> [t \in Tasks |-> NULL]]
NoFetch == [stage |-> Idle, data |-> [t \in Tasks |-> NULL]]

Init ==
  /\ server \in [Tasks -> {"pending", NULL}] /\ server # [t \in Tasks |-> NULL]
  /\ cache = server /\ fetch = NoFetch
  /\ mut = [s \in Slots |-> NULL]
  /\ timer = [t \in Tasks |-> [n \in Order |-> Idle]]
  /\ pendingTimer = [t \in Tasks |-> 0]
  /\ snapshot = [t \in Tasks |-> NULL]
  /\ toasts = {} /\ undone = {} /\ unreconciled = FALSE
  /\ starts = 0 /\ faults = 0

-----------------------------------------------------------------------------
(***************************************************************************)
(* The list query.                                                         *)
(***************************************************************************)
\* Mutant: the fetch in flight is joined.
InvalidateJoining ==
  fetch' = (IF fetch.stage = Idle THEN Sending ELSE fetch) /\ unreconciled' = FALSE

\* invalidateQueries: a fetch in flight is dropped and a new one sent.
Invalidate == fetch' = Sending /\ unreconciled' = FALSE

Focus ==
  /\ starts < MaxStarts /\ starts' = starts + 1
  /\ fetch.stage = Idle
  /\ Invalidate
  /\ UNCHANGED <<server, cache, mut, deletion, faults>>

ServeFetch ==
  /\ fetch.stage = "sent"
  /\ fetch' = [stage |-> "answered", data |-> server]
  /\ UNCHANGED <<server, cache, mut, deletion, starts, faults, unreconciled>>

FetchLost ==
  /\ faults < MaxFaults /\ faults' = faults + 1
  /\ fetch.stage = "answered"
  /\ fetch' = Sending
  /\ UNCHANGED <<server, cache, mut, deletion, starts, unreconciled>>

ReceiveFetch ==
  /\ fetch.stage = "answered"
  /\ cache' = fetch.data
  /\ fetch' = NoFetch
  /\ UNCHANGED <<server, mut, deletion, starts, faults, unreconciled>>

-----------------------------------------------------------------------------
(***************************************************************************)
(* Mutations.                                                              *)
(***************************************************************************)
\* The status a mutation gives the cached task, and complete_task and its
\* neighbours give the row.
PatchedStatus(kind) ==
  CASE kind = "complete" -> "completed"
    [] kind = "reopen"   -> "pending"
    [] kind = "snooze"   -> "snoozed"

Optimistic == {"complete", "reopen", "snooze"}

Begin(s, kind, todo) ==
  /\ mut[s] = NULL /\ kind \in Acts
  /\ starts < MaxStarts /\ starts' = starts + 1
  /\ mut' = [mut EXCEPT ![s] = [kind |-> kind, todo |-> todo, ok |-> TRUE, previous |-> cache]]

\* What the checkbox and the menu of a TaskRow offer, and the tick of ListPage.
RowActions(t) ==
  CASE cache[t] = NULL -> {}
    [] cache[t] = "completed" -> {"reopen", "bulk"}
    [] OTHER -> {"complete", "snooze", "skip", "bulk"}

\* useOptimisticTaskUpdate.apply: the fetches are cancelled, the list patched.
BeginOptimistic(s, t) ==
  /\ \E kind \in Optimistic \cap RowActions(t) :
       /\ Begin(s, kind, {t})
       /\ cache' = [cache EXCEPT ![t] = PatchedStatus(kind)]
  /\ fetch' = NoFetch
  /\ UNCHANGED <<server, deletion, faults, unreconciled>>

\* useSkipTask (useCreateTask and useUpdateTask refetch in the same way) and
\* the bulk completion of ListPage: nothing is patched.
BeginPlain(s) ==
  /\ \/ \E t \in Tasks : "skip" \in RowActions(t) /\ Begin(s, "skip", {t})
     \/ \E ids \in SUBSET Shown : ids # {} /\ Begin(s, "bulk", ids)
  /\ UNCHANGED <<server, cache, fetch, deletion, faults, unreconciled>>

\* The row after the request; the successor of a skipped task falls on a later
\* day than the list shows.
StatusServed(kind) ==
  CASE kind = "skip" -> NULL [] kind = "bulk" -> "completed" [] OTHER -> PatchedStatus(kind)

\* The answer may be lost.  A row that is gone is a 404.
ServeMutation(s, t) ==
  /\ mut[s] # NULL /\ t \in mut[s].todo
  /\ \E answered \in BOOLEAN :
       /\ answered \/ faults < MaxFaults
       /\ faults' = IF answered THEN faults ELSE faults + 1
       /\ mut' = [mut EXCEPT ![s].todo = @ \ {t},
                             ![s].ok = @ /\ answered /\ server[t] # NULL]
  /\ server' = IF server[t] = NULL THEN server
               ELSE [server EXCEPT ![t] = StatusServed(mut[s].kind)]
  /\ UNCHANGED <<cache, fetch, deletion, starts, unreconciled>>

MutationLost(s, t) ==
  /\ mut[s] # NULL /\ t \in mut[s].todo
  /\ faults < MaxFaults /\ faults' = faults + 1
  /\ mut' = [mut EXCEPT ![s].todo = @ \ {t}, ![s].ok = FALSE]
  /\ UNCHANGED <<server, cache, fetch, deletion, starts, unreconciled>>

\* onError rolls back what was patched; onSettled refetches, and so does the
\* end of a bulk completion, but onSuccess only does when all went well.
Settle(s) ==
  /\ mut[s] # NULL /\ mut[s].todo = {}
  /\ mut' = [mut EXCEPT ![s] = NULL]
  /\ cache' = IF mut[s].kind \in Optimistic /\ ~mut[s].ok THEN mut[s].previous ELSE cache
  /\ IF mut[s].kind \in Optimistic \cup {"bulk"} \/ mut[s].ok
       THEN Invalidate
       ELSE unreconciled' = TRUE /\ UNCHANGED fetch
  /\ UNCHANGED <<server, deletion, starts, faults>>

-----------------------------------------------------------------------------
(***************************************************************************)
(* Delete with undo.                                                       *)
(***************************************************************************)
Without(list, gone) == [t \in Tasks |-> IF t \in gone THEN NULL ELSE list[t]]
Ahead(ids, i) == {ids[k] : k \in 1..(i - 1)}
IndexOf(ids, t) == CHOOSE i \in 1..Len(ids) : ids[i] = t
Elements(ids) == {ids[i] : i \in 1..Len(ids)}

\* The row of one task, or two rows in the order they were ticked.
Selections == {<<t>> : t \in Shown} \cup
  IF "bulk delete" \in Acts THEN {ids \in Shown \X Shown : ids[1] # ids[2]} ELSE {}

\* The number of the next timer of a task.
Unused(t) == CHOOSE n \in Order : timer[t][n] = Idle /\ \A k \in 1..(n - 1) : timer[t][k] # Idle

\* scheduleDelete for each id in turn: the second snapshot lacks the first task.
Delete(ids) ==
  /\ "delete" \in Acts
  /\ \A t \in Elements(ids) : \E n \in Order : timer[t][n] = Idle
  /\ timer' = [t \in Tasks |-> IF t \in Elements(ids)
                               THEN [timer[t] EXCEPT ![Unused(t)] = "waiting"]
                               ELSE timer[t]]
  /\ pendingTimer' = [t \in Tasks |-> IF t \in Elements(ids) THEN Unused(t) ELSE pendingTimer[t]]
  /\ snapshot' = [t \in Tasks |-> IF t \in Elements(ids)
                                  THEN Without(cache, Ahead(ids, IndexOf(ids, t)))
                                  ELSE snapshot[t]]
  /\ cache' = Without(cache, Elements(ids))
  /\ toasts' = toasts \cup {ids}
  /\ undone' = undone \ Elements(ids)
  /\ UNCHANGED <<server, fetch, mut, starts, faults, unreconciled>>

\* The window of the n-th deletion ends: whatever the maps hold goes.
Expire(t, n) ==
  /\ timer[t][n] = "waiting"
  /\ timer' = [timer EXCEPT ![t][n] = "sent"]
  /\ pendingTimer' = [pendingTimer EXCEPT ![t] = 0]
  /\ snapshot' = [snapshot EXCEPT ![t] = NULL]
  /\ UNCHANGED <<server, cache, fetch, mut, toasts, undone, starts, faults, unreconciled>>

ServeDelete(t, n) ==
  /\ timer[t][n] = "sent"
  /\ timer' = [timer EXCEPT ![t][n] = "answered"]
  /\ \/ server' = [server EXCEPT ![t] = NULL] /\ UNCHANGED faults
     \/ faults < MaxFaults /\ faults' = faults + 1 /\ UNCHANGED server
  /\ UNCHANGED <<cache, fetch, mut, pendingTimer, snapshot, toasts, undone, starts, unreconciled>>

SettleDelete(t, n) ==
  /\ timer[t][n] = "answered"
  /\ timer' = [timer EXCEPT ![t][n] = "done"]
  /\ Invalidate
  /\ UNCHANGED <<server, cache, mut, pendingTimer, snapshot, toasts, undone, starts, faults>>
Dismiss(ids) ==
  /\ toasts' = toasts \ {ids}
  /\ UNCHANGED <<server, cache, fetch, mut, timer, pendingTimer, snapshot, undone,
                 starts, faults, unreconciled>>

\* Mutant: the list is restored and the timer runs on.
CancelTimerNever(ids) == UNCHANGED <<timer, pendingTimer>>

CancelTimer(ids) ==
  /\ timer' = [t \in Tasks |-> IF t \in Elements(ids) /\ pendingTimer[t] # 0
                               THEN [timer[t] EXCEPT ![pendingTimer[t]] = "cancelled"]
                               ELSE timer[t]]
  /\ pendingTimer' = [t \in Tasks |-> IF t \in Elements(ids) THEN 0 ELSE pendingTimer[t]]

\* cancelDelete for each id in turn: the last snapshot is the list that stays.
\* The toast closes, and nothing is refetched.
Undo(ids) ==
  LET kept == {i \in 1..Len(ids) : snapshot[ids[i]] # NULL} IN
  /\ "undo" \in Acts
  /\ CancelTimer(ids)
  /\ cache' = IF kept = {} THEN cache
              ELSE snapshot[ids[CHOOSE i \in kept : \A k \in kept : k <= i]]
  /\ snapshot' = [t \in Tasks |-> IF t \in Elements(ids) THEN NULL ELSE snapshot[t]]
  /\ undone' = undone \cup {t \in Elements(ids) : pendingTimer[t] # 0}
  /\ toasts' = toasts \ {ids}
  /\ unreconciled' = TRUE
  /\ UNCHANGED <<server, fetch, mut, starts, faults>>

-----------------------------------------------------------------------------
Next ==
  \/ Focus \/ ServeFetch \/ FetchLost \/ ReceiveFetch
  \/ \E s \in Slots, t \in Tasks : BeginOptimistic(s, t) \/ ServeMutation(s, t) \/ MutationLost(s, t)
  \/ \E s \in Slots : BeginPlain(s) \/ Settle(s)
  \/ \E ids \in Selections : Delete(ids)
  \/ \E t \in Tasks, n \in Order : Expire(t, n) \/ ServeDelete(t, n) \/ SettleDelete(t, n)
  \/ \E ids \in toasts : Undo(ids) \/ Dismiss(ids)

Spec == Init /\ [][Next]_vars

-----------------------------------------------------------------------------
(***************************************************************************)
(* Once nothing is in flight the list is the server's: whatever the order  *)
(* in which overlapping mutations, roll-backs and refetches came back, the *)
(* last to write the list was read after the last change                   *)
(* (useOptimisticTaskUpdate "rolls back on error and reconciles with the   *)
(* server on settle"; the deletion's "finally" refetches).  A skip whose   *)
(* answer is lost is never refetched, and an undo restores a list as old   *)
(* as the deletion: after those the list agrees again with the next        *)
(* refetch anything asks for.                                              *)
(***************************************************************************)
Outstanding == \E t \in Tasks, n \in Order : timer[t][n] \in {"waiting", "sent", "answered"}

QuietAgrees ==
  (\A s \in Slots : mut[s] = NULL) /\ ~Outstanding /\ fetch.stage = Idle /\ ~unreconciled
    => cache = server

\* The types, and the list of a quiet page, after whatever mutations, roll-backs,
\* deletions and lost answers.
CacheInv == CacheTypeOK /\ QuietAgrees

(***************************************************************************)
(* A deletion that was undone within its window is not carried out, unless *)
(* it is asked for again (useUndoableDelete: "cancelling never has to      *)
(* un-delete anything server-side").  The exception is a deletion that     *)
(* another of the same task has followed: the second takes the place of    *)
(* the first timer in the map, and the first can no longer be cancelled.   *)
(***************************************************************************)
UndoneStays ==
  [][\A t \in undone, n \in Order :
       timer[t][n] = "waiting"
       => timer'[t][n] # "sent" \/ \E k \in Order : n < k /\ timer[t][k] # Idle]_vars

=============================================================================
