-------------------------- MODULE TaskCacheProofs ---------------------------
(***************************************************************************)
(* Proofs about TaskCache, for any tasks, mutations, deletions and faults: *)
(* a quiet page shows the server's list, and a deletion undone in time is  *)
(* not carried out.                                                        *)
(***************************************************************************)
EXTENDS TaskCache, TLAPS

-----------------------------------------------------------------------------
(***************************************************************************)
(* The inductive invariant.                                                *)
(***************************************************************************)

\* Something is under way, or was restored or left as it is, after which a
\* refetch is due or has not been asked for.
Unsettled == (\E s \in Slots : mut[s] # NULL) \/ Outstanding \/ unreconciled

\* The strengthening of QuietAgrees: a list that was fetched since the last
\* change of the server is the server's, in the answer and in the cache.
FetchAgrees ==
  \/ Unsettled
  \/ /\ fetch.stage = Idle => cache = server
     /\ fetch.stage = "answered" => fetch.data = server

\* A toast is of one task or of two.
Toasted == \A ids \in toasts : \E t, u \in Tasks : ids = <<t>> \/ ids = <<t, u>>

\* The deletions of a task are numbered in turn, so Unused finds the next.
UsedUpTo(t, u) == \A n \in Order : timer[t][n] = Idle <=> u < n
Numbered == \A t \in Tasks : \E u \in 0..MaxDeletes : UsedUpTo(t, u)

\* The map holds the timer of the last deletion, and what was undone has no
\* other timer that runs than those of deletions before the last.
PendingIsLast == \A t \in Tasks : pendingTimer[t] # 0 => UsedUpTo(t, pendingTimer[t])

UndoneHidden ==
  \A t \in undone, n \in Order :
    timer[t][n] = "waiting" => \E k \in Order : n < k /\ timer[t][k] # Idle

DeletionInv == Toasted /\ Numbered /\ PendingIsLast /\ UndoneHidden

PageInv == CacheTypeOK /\ FetchAgrees /\ DeletionInv

-----------------------------------------------------------------------------
(***************************************************************************)
(* The list and the server.                                                *)
(***************************************************************************)

LEMMA SendingTyped == Sending \in [stage : {Idle, "sent", "answered"}, data : List]
                      /\ NoFetch \in [stage : {Idle, "sent", "answered"}, data : List]
                      /\ Sending.stage = "sent" /\ NoFetch.stage = Idle
                      /\ Idle \notin {"sent", "answered"}
BY DEF Sending, NoFetch, List, Idle

\* A fetch that is on its way promises nothing yet.
LEMMA SentAgrees ==
  ASSUME fetch' = Sending
  PROVE  FetchAgrees'
BY SendingTyped DEF FetchAgrees

\* A mutation or a deletion that is under way.
LEMMA UnsettledAgrees ==
  ASSUME \/ \E s \in Slots : mut'[s] # NULL
         \/ \E t \in Tasks, n \in Order : timer'[t][n] \in {"waiting", "sent", "answered"}
         \/ unreconciled'
  PROVE  FetchAgrees'
BY DEF FetchAgrees, Unsettled, Outstanding

\* What the list query does.
LEMMA QueryAgrees ==
  ASSUME PageInv, Focus \/ ServeFetch \/ FetchLost \/ ReceiveFetch
  PROVE  FetchAgrees'
<1>1. CASE Focus
  BY <1>1, SentAgrees DEF Focus, Invalidate
<1>2. CASE ServeFetch
  <2>1. fetch' = [stage |-> "answered", data |-> server] /\ server' = server
    BY <1>2 DEF ServeFetch
  <2>2. fetch'.stage = "answered" /\ fetch'.data = server'
    BY <2>1
  <2>3. fetch'.stage # Idle
    BY <2>2, SendingTyped
  <2> QED
    BY <2>2, <2>3 DEF FetchAgrees
<1>3. CASE FetchLost
  BY <1>3, SentAgrees DEF FetchLost
<1>4. CASE ReceiveFetch
  <2>1. /\ fetch.stage = "answered" /\ cache' = fetch.data /\ fetch' = NoFetch
        /\ UNCHANGED <<server, mut, timer, unreconciled>>
    BY <1>4 DEF ReceiveFetch, deletion
  <2>2. Unsettled' <=> Unsettled
    BY <2>1 DEF Unsettled, Outstanding
  <2> QED
    BY <2>1, <2>2, SendingTyped DEF FetchAgrees, PageInv
<1> QED
  BY <1>1, <1>2, <1>3, <1>4

\* A mutation is under way before and after its request is served.
LEMMA BeginTyped ==
  ASSUME CacheTypeOK, NEW s \in Slots, NEW kind, NEW todo \in SUBSET Tasks,
         Begin(s, kind, todo),
         kind \in {"complete", "reopen", "snooze", "skip", "bulk"}
  PROVE  mut' \in [Slots -> Mutation \cup {NULL}] /\ mut'[s] # NULL
<1> DEFINE new == [kind |-> kind, todo |-> todo, ok |-> TRUE, previous |-> cache]
<1>1. new \in Mutation
  BY DEF Mutation, CacheTypeOK
<1>2. mut' = [mut EXCEPT ![s] = new]
  BY DEF Begin
<1> HIDE DEF new
<1> QED
  BY <1>1, <1>2, NullMutation DEF CacheTypeOK

LEMMA ServedTyped ==
  ASSUME CacheTypeOK, NEW s \in Slots, NEW t \in Tasks, NEW ok \in BOOLEAN,
         mut[s] # NULL,
         mut' = [mut EXCEPT ![s].todo = @ \ {t}, ![s].ok = ok]
  PROVE  mut' \in [Slots -> Mutation \cup {NULL}] /\ mut'[s] # NULL
<1> DEFINE new == [mut[s] EXCEPT !.todo = mut[s].todo \ {t}, !.ok = ok]
<1>1. mut[s] \in Mutation
  BY DEF CacheTypeOK
<1>2. new \in Mutation
  BY <1>1 DEF Mutation
<1>3. mut' = [mut EXCEPT ![s] = new]
  BY DEF CacheTypeOK
<1> HIDE DEF new
<1> QED
  BY <1>2, <1>3, NullMutation DEF CacheTypeOK

\* The kinds of mutations the four operations begin.
LEMMA Kinds ==
  Optimistic \subseteq {"complete", "reopen", "snooze", "skip", "bulk"}
BY DEF Optimistic

LEMMA PatchedTyped ==
  \A kind \in Optimistic : PatchedStatus(kind) \in Status
BY DEF Optimistic, PatchedStatus, Status

LEMMA ServedStatusTyped ==
  \A kind \in {"complete", "reopen", "snooze", "skip", "bulk"} :
    StatusServed(kind) \in Status \cup {NULL}
BY DEF StatusServed, PatchedStatus, Status

LEMMA ListPatched ==
  ASSUME NEW list \in List, NEW t \in Tasks, NEW status \in Status \cup {NULL}
  PROVE  [list EXCEPT ![t] = status] \in List
BY DEF List

\* A step that leaves the deletions alone and types the rest.
LEMMA RestTyped ==
  ASSUME CacheTypeOK, UNCHANGED deletion,
         server' \in List, cache' \in List,
         fetch' \in [stage : {Idle, "sent", "answered"}, data : List],
         mut' \in [Slots -> Mutation \cup {NULL}],
         unreconciled' \in BOOLEAN
  PROVE  CacheTypeOK'
BY DEF CacheTypeOK, deletion

\* A mutation begins or its request is served: its types, and it is under way.
LEMMA MutationInv ==
  ASSUME PageInv, NEW s \in Slots, NEW t \in Tasks,
         BeginOptimistic(s, t) \/ ServeMutation(s, t) \/ MutationLost(s, t)
  PROVE  CacheTypeOK' /\ FetchAgrees'
<1> USE DEF PageInv
<1>1. CASE BeginOptimistic(s, t)
  <2>1. PICK kind \in Optimistic : /\ Begin(s, kind, {t})
                                   /\ cache' = [cache EXCEPT ![t] = PatchedStatus(kind)]
    BY <1>1 DEF BeginOptimistic
  <2>2. mut' \in [Slots -> Mutation \cup {NULL}] /\ mut'[s] # NULL
    BY <2>1, BeginTyped, Kinds
  <2>3. cache' \in List
    BY <2>1, PatchedTyped, ListPatched DEF CacheTypeOK
  <2>4. fetch' = NoFetch /\ UNCHANGED <<server, deletion, unreconciled>>
    BY <1>1 DEF BeginOptimistic
  <2> QED
    BY <2>2, <2>3, <2>4, SendingTyped, RestTyped, UnsettledAgrees DEF CacheTypeOK
<1>2. CASE ServeMutation(s, t)
  <2>1. mut[s] # NULL /\ mut[s] \in Mutation
    BY <1>2 DEF ServeMutation, CacheTypeOK
  <2>2. PICK answered \in BOOLEAN :
          mut' = [mut EXCEPT ![s].todo = @ \ {t},
                             ![s].ok = @ /\ answered /\ server[t] # NULL]
    BY <1>2 DEF ServeMutation
  <2> DEFINE ok == mut[s].ok /\ answered /\ server[t] # NULL
  <2>3. ok \in BOOLEAN
    BY <2>1 DEF Mutation
  <2>4. mut' = [mut EXCEPT ![s].todo = @ \ {t}, ![s].ok = ok]
    BY <2>2 DEF CacheTypeOK
  <2>5. mut' \in [Slots -> Mutation \cup {NULL}] /\ mut'[s] # NULL
    <3> HIDE DEF ok
    <3> QED
      BY <2>1, <2>3, <2>4, ServedTyped
  <2>6. server' = IF server[t] = NULL THEN server
                  ELSE [server EXCEPT ![t] = StatusServed(mut[s].kind)]
    BY <1>2 DEF ServeMutation
  <2>7. StatusServed(mut[s].kind) \in Status \cup {NULL}
    BY <2>1, ServedStatusTyped DEF Mutation
  <2>8. server' \in List
    BY <2>6, <2>7, ListPatched DEF CacheTypeOK
  <2>9. UNCHANGED <<cache, fetch, deletion, unreconciled>>
    BY <1>2 DEF ServeMutation
  <2> QED
    BY <2>5, <2>8, <2>9, RestTyped, UnsettledAgrees DEF CacheTypeOK
<1>3. CASE MutationLost(s, t)
  <2>1. mut[s] # NULL /\ mut' = [mut EXCEPT ![s].todo = @ \ {t}, ![s].ok = FALSE]
    BY <1>3 DEF MutationLost
  <2>2. mut' \in [Slots -> Mutation \cup {NULL}] /\ mut'[s] # NULL
    BY <2>1, ServedTyped
  <2>3. UNCHANGED <<server, cache, fetch, deletion, unreconciled>>
    BY <1>3 DEF MutationLost
  <2> QED
    BY <2>2, <2>3, RestTyped, UnsettledAgrees DEF CacheTypeOK
<1> QED
  BY <1>1, <1>2, <1>3

LEMMA PlainInv ==
  ASSUME PageInv, NEW s \in Slots, BeginPlain(s)
  PROVE  CacheTypeOK' /\ FetchAgrees'
<1> USE DEF PageInv
<1>1. PICK kind \in {"skip", "bulk"}, todo \in SUBSET Tasks : Begin(s, kind, todo)
  <2>1. CASE \E u \in Tasks : "skip" \in RowActions(u) /\ Begin(s, "skip", {u})
    BY <2>1
  <2>2. CASE \E ids \in SUBSET Shown : ids # {} /\ Begin(s, "bulk", ids)
    BY <2>2 DEF Shown
  <2> QED
    BY <2>1, <2>2 DEF BeginPlain
<1>2. mut' \in [Slots -> Mutation \cup {NULL}] /\ mut'[s] # NULL
  BY <1>1, BeginTyped
<1>3. UNCHANGED <<server, cache, fetch, deletion, unreconciled>>
  BY DEF BeginPlain
<1> QED
  BY <1>2, <1>3, RestTyped, UnsettledAgrees DEF CacheTypeOK

\* The query's own steps, and their types.
LEMMA QueryInv ==
  ASSUME PageInv, Focus \/ ServeFetch \/ FetchLost \/ ReceiveFetch
  PROVE  CacheTypeOK' /\ FetchAgrees'
<1> USE DEF PageInv
<1>1. CASE Focus
  BY <1>1, QueryAgrees, RestTyped, SendingTyped DEF Focus, Invalidate, CacheTypeOK
<1>2. CASE ServeFetch
  <2>1. [stage |-> "answered", data |-> server]
           \in [stage : {Idle, "sent", "answered"}, data : List]
    BY DEF CacheTypeOK
  <2> QED
    BY <1>2, <2>1, QueryAgrees, RestTyped DEF ServeFetch, CacheTypeOK
<1>3. CASE FetchLost
  BY <1>3, QueryAgrees, RestTyped, SendingTyped DEF FetchLost, CacheTypeOK
<1>4. CASE ReceiveFetch
  <2>1. fetch.data \in List
    BY DEF CacheTypeOK
  <2> QED
    BY <1>4, <2>1, QueryAgrees, RestTyped, SendingTyped DEF ReceiveFetch, CacheTypeOK
<1> QED
  BY <1>1, <1>2, <1>3, <1>4

\* A mutation is settled: the lists are fetched again, or are known to be behind.
LEMMA SettleInv ==
  ASSUME PageInv, NEW s \in Slots, Settle(s)
  PROVE  CacheTypeOK' /\ FetchAgrees'
<1> USE DEF PageInv
<1>1. mut[s] # NULL /\ mut' = [mut EXCEPT ![s] = NULL] /\ UNCHANGED <<server, deletion>>
  BY DEF Settle
<1>2. mut[s].previous \in List
  BY <1>1 DEF CacheTypeOK, Mutation
<1>3. cache' \in List
  BY <1>2 DEF Settle, CacheTypeOK
<1>4. mut' \in [Slots -> Mutation \cup {NULL}]
  BY <1>1 DEF CacheTypeOK
<1>5. Invalidate \/ (unreconciled' = TRUE /\ UNCHANGED fetch)
  BY DEF Settle
<1>6. CASE Invalidate
  BY <1>1, <1>3, <1>4, <1>6, RestTyped, SendingTyped, SentAgrees DEF Invalidate, CacheTypeOK
<1>7. CASE unreconciled' = TRUE /\ UNCHANGED fetch
  BY <1>1, <1>3, <1>4, <1>7, RestTyped, UnsettledAgrees DEF CacheTypeOK
<1> QED
  BY <1>5, <1>6, <1>7

-----------------------------------------------------------------------------
(***************************************************************************)
(* The deletions.                                                          *)
(***************************************************************************)
TimerState == {Idle, "waiting", "cancelled", "sent", "answered", "done"}

TimersTyped == /\ timer' \in [Tasks -> [Order -> TimerState]]
               /\ pendingTimer' \in [Tasks -> 0..MaxDeletes]
               /\ \A t \in Tasks : snapshot'[t] \in List \cup {NULL}
               /\ \A ids \in toasts' : ids \in Seq(Tasks)
               /\ undone' \subseteq Tasks

\* A step that leaves the mutations alone and types the deletions.
LEMMA DeletionTyped ==
  ASSUME CacheTypeOK, TimersTyped, UNCHANGED mut,
         server' \in List, cache' \in List,
         fetch' \in [stage : {Idle, "sent", "answered"}, data : List],
         unreconciled' \in BOOLEAN
  PROVE  CacheTypeOK'
BY DEF CacheTypeOK, TimersTyped, TimerState

\* No timer is set, none is forgotten that runs, and none is put in the map.
LEMMA TimersRunOut ==
  ASSUME PageInv, toasts' \subseteq toasts,
         \A t \in Tasks, n \in Order : timer'[t][n] = Idle <=> timer[t][n] = Idle,
         \A t \in Tasks : pendingTimer'[t] \in {0, pendingTimer[t]}
  PROVE  Toasted' /\ Numbered' /\ PendingIsLast'
<1>1. Toasted'
  BY DEF PageInv, DeletionInv, Toasted
<1>2. Numbered'
  BY DEF PageInv, DeletionInv, Numbered, UsedUpTo
<1>3. PendingIsLast'
  BY DEF PageInv, DeletionInv, PendingIsLast, UsedUpTo
<1> QED
  BY <1>1, <1>2, <1>3

\* Nothing more is undone, and what runs has run before.
LEMMA NothingUndone ==
  ASSUME PageInv, toasts' \subseteq toasts, undone' = undone,
         \A t \in Tasks, n \in Order :
            /\ timer'[t][n] = Idle <=> timer[t][n] = Idle
            /\ timer'[t][n] = "waiting" => timer[t][n] = "waiting",
         \A t \in Tasks : pendingTimer'[t] \in {0, pendingTimer[t]}
  PROVE  DeletionInv'
<1>1. UndoneHidden'
  BY DEF PageInv, CacheTypeOK, DeletionInv, UndoneHidden
<1> QED
  BY <1>1, TimersRunOut DEF DeletionInv

LEMMA QuietDeletion ==
  ASSUME PageInv, UNCHANGED deletion
  PROVE  DeletionInv'
BY NothingUndone DEF deletion

\* One timer moves on.
LEMMA TimerMoves ==
  ASSUME CacheTypeOK, NEW t \in Tasks, NEW n \in Order, NEW value \in TimerState,
         timer[t][n] # Idle, value \notin {Idle, "waiting"},
         timer' = [timer EXCEPT ![t][n] = value]
  PROVE  /\ timer' \in [Tasks -> [Order -> TimerState]]
         /\ timer'[t][n] = value
         /\ \A u \in Tasks, k \in Order :
              /\ timer'[u][k] = Idle <=> timer[u][k] = Idle
              /\ timer'[u][k] = "waiting" => timer[u][k] = "waiting"
<1>1. timer \in [Tasks -> [Order -> TimerState]]
  BY DEF CacheTypeOK, TimerState
<1>2. [timer[t] EXCEPT ![n] = value] \in [Order -> TimerState]
  BY <1>1
<1>3. timer' \in [Tasks -> [Order -> TimerState]]
  BY <1>1, <1>2
<1>4. \A u \in Tasks, k \in Order :
        timer'[u][k] = IF u = t /\ k = n THEN value ELSE timer[u][k]
  BY <1>1
<1> QED
  BY <1>3, <1>4

\* The window of a deletion ends, its request is served, and its answer is
\* followed by a refetch.
LEMMA ExpireInv ==
  ASSUME PageInv, NEW t \in Tasks, NEW n \in Order, Expire(t, n)
  PROVE  PageInv'
<1> USE DEF PageInv
<1>1. /\ timer[t][n] = "waiting" /\ timer' = [timer EXCEPT ![t][n] = "sent"]
      /\ pendingTimer' = [pendingTimer EXCEPT ![t] = 0]
      /\ snapshot' = [snapshot EXCEPT ![t] = NULL]
      /\ UNCHANGED <<server, cache, fetch, mut, toasts, undone, unreconciled>>
  BY DEF Expire
<1>2. /\ timer' \in [Tasks -> [Order -> TimerState]] /\ timer'[t][n] = "sent"
      /\ \A u \in Tasks, k \in Order :
           /\ timer'[u][k] = Idle <=> timer[u][k] = Idle
           /\ timer'[u][k] = "waiting" => timer[u][k] = "waiting"
  BY <1>1, TimerMoves DEF TimerState, Idle
<1>3. /\ pendingTimer' \in [Tasks -> 0..MaxDeletes]
      /\ \A u \in Tasks : pendingTimer'[u] \in {0, pendingTimer[u]}
  <2>1. pendingTimer \in [Tasks -> 0..MaxDeletes] /\ 0 \in 0..MaxDeletes
    BY CacheConstants DEF CacheTypeOK
  <2> QED
    BY <1>1, <2>1
<1>4. TimersTyped
  BY <1>1, <1>2, <1>3 DEF TimersTyped, CacheTypeOK
<1>5. CacheTypeOK'
  BY <1>1, <1>4, DeletionTyped DEF CacheTypeOK
<1>6. FetchAgrees'
  BY <1>2, UnsettledAgrees
<1>7. DeletionInv'
  BY <1>1, <1>2, <1>3, NothingUndone
<1> QED
  BY <1>5, <1>6, <1>7

LEMMA ServeDeleteInv ==
  ASSUME PageInv, NEW t \in Tasks, NEW n \in Order, ServeDelete(t, n)
  PROVE  PageInv'
<1> USE DEF PageInv
<1>1. /\ timer[t][n] = "sent" /\ timer' = [timer EXCEPT ![t][n] = "answered"]
      /\ server' = [server EXCEPT ![t] = NULL] \/ UNCHANGED server
      /\ UNCHANGED <<cache, fetch, mut, pendingTimer, snapshot, toasts, undone, unreconciled>>
  BY DEF ServeDelete
<1>2. /\ timer' \in [Tasks -> [Order -> TimerState]] /\ timer'[t][n] = "answered"
      /\ \A u \in Tasks, k \in Order :
           /\ timer'[u][k] = Idle <=> timer[u][k] = Idle
           /\ timer'[u][k] = "waiting" => timer[u][k] = "waiting"
  BY <1>1, TimerMoves DEF TimerState, Idle
<1>3. server' \in List
  <2>1. server \in List /\ [server EXCEPT ![t] = NULL] \in List
    BY ListPatched DEF CacheTypeOK
  <2> QED
    BY <1>1, <2>1
<1>4. TimersTyped
  BY <1>1, <1>2 DEF TimersTyped, CacheTypeOK
<1>5. CacheTypeOK'
  BY <1>1, <1>3, <1>4, DeletionTyped DEF CacheTypeOK
<1>6. FetchAgrees'
  BY <1>2, UnsettledAgrees
<1>7. DeletionInv'
  BY <1>1, <1>2, NothingUndone
<1> QED
  BY <1>5, <1>6, <1>7

LEMMA SettleDeleteInv ==
  ASSUME PageInv, NEW t \in Tasks, NEW n \in Order, SettleDelete(t, n)
  PROVE  PageInv'
<1> USE DEF PageInv
<1>1. /\ timer[t][n] = "answered" /\ timer' = [timer EXCEPT ![t][n] = "done"]
      /\ fetch' = Sending /\ unreconciled' = FALSE
      /\ UNCHANGED <<server, cache, mut, pendingTimer, snapshot, toasts, undone>>
  BY DEF SettleDelete, Invalidate
<1>2. /\ timer' \in [Tasks -> [Order -> TimerState]]
      /\ \A u \in Tasks, k \in Order :
           /\ timer'[u][k] = Idle <=> timer[u][k] = Idle
           /\ timer'[u][k] = "waiting" => timer[u][k] = "waiting"
  BY <1>1, TimerMoves DEF TimerState, Idle
<1>3. TimersTyped
  BY <1>1, <1>2 DEF TimersTyped, CacheTypeOK
<1>4. CacheTypeOK'
  BY <1>1, <1>3, DeletionTyped, SendingTyped DEF CacheTypeOK
<1>5. FetchAgrees'
  BY <1>1, SentAgrees
<1>6. DeletionInv'
  BY <1>1, <1>2, NothingUndone
<1> QED
  BY <1>4, <1>5, <1>6

\* A toast is dismissed.
LEMMA DismissInv ==
  ASSUME PageInv, NEW ids \in toasts, Dismiss(ids)
  PROVE  PageInv'
<1> USE DEF PageInv
<1>1. /\ toasts' \subseteq toasts
      /\ UNCHANGED <<server, cache, fetch, mut, timer, pendingTimer, snapshot, undone,
                     unreconciled>>
  BY DEF Dismiss
<1>2. TimersTyped
  BY <1>1 DEF TimersTyped, CacheTypeOK, TimerState
<1>3. CacheTypeOK'
  BY <1>1, <1>2, DeletionTyped DEF CacheTypeOK
<1>4. FetchAgrees'
  BY <1>1 DEF FetchAgrees, Unsettled, Outstanding
<1>5. DeletionInv'
  BY <1>1, NothingUndone
<1> QED
  BY <1>3, <1>4, <1>5

\* A selection is of one task or of two of the list.
LEMMA SelectionTyped ==
  ASSUME NEW ids, \E t, u \in Tasks : ids = <<t>> \/ ids = <<t, u>>
  PROVE  /\ ids \in Seq(Tasks) /\ Len(ids) \in 1..2
         /\ \A i \in 1..Len(ids) : ids[i] \in Tasks
         /\ Elements(ids) \subseteq Tasks
         /\ \E t \in Tasks : t \in Elements(ids)
<1>1. ids \in Seq(Tasks) /\ Len(ids) \in 1..2
  <2>1. ASSUME NEW t \in Tasks, ids = <<t>> PROVE ids \in Seq(Tasks) /\ Len(ids) \in 1..2
    BY <2>1
  <2>2. ASSUME NEW t \in Tasks, NEW u \in Tasks, ids = <<t, u>>
        PROVE  ids \in Seq(Tasks) /\ Len(ids) \in 1..2
    BY <2>2
  <2> QED
    BY <2>1, <2>2
<1>2. \A i \in 1..Len(ids) : ids[i] \in Tasks
  BY <1>1
<1>3. ids[1] \in Elements(ids) /\ ids[1] \in Tasks
  BY <1>1, <1>2 DEF Elements
<1> QED
  BY <1>1, <1>2, <1>3 DEF Elements

LEMMA Selected ==
  ASSUME NEW ids \in Selections
  PROVE  \E t, u \in Tasks : ids = <<t>> \/ ids = <<t, u>>
<1>1. CASE \E t \in Shown : ids = <<t>>
  BY <1>1 DEF Shown
<1>2. CASE ids \in Shown \X Shown
  BY <1>2 DEF Shown
<1> QED
  BY <1>1, <1>2 DEF Selections

\* The next timer of a task comes after all that were used.
LEMMA UnusedIsNext ==
  ASSUME PageInv, NEW t \in Tasks, \E n \in Order : timer[t][n] = Idle
  PROVE  /\ Unused(t) \in Order
         /\ \A n \in Order : timer[t][n] = Idle <=> Unused(t) <= n
<1>1. PICK u \in 0..MaxDeletes : UsedUpTo(t, u)
  BY DEF PageInv, DeletionInv, Numbered
<1>2. MaxDeletes \in Nat /\ u \in Nat
  BY CacheConstants
<1>3. u + 1 \in Order
  BY <1>1, <1>2 DEF UsedUpTo, Order
<1>4. timer[t][u + 1] = Idle /\ \A k \in 1..u : timer[t][k] # Idle
  BY <1>1, <1>2, <1>3 DEF UsedUpTo, Order
<1>5. \A n \in Order :
        (timer[t][n] = Idle /\ \A k \in 1..(n - 1) : timer[t][k] # Idle) <=> n = u + 1
  <2> TAKE n \in Order
  <2>1. CASE n < u + 1
    BY <1>2, <1>4, <2>1 DEF Order
  <2>2. CASE n = u + 1
    BY <1>2, <1>4, <2>2
  <2>3. CASE u + 1 < n
    <3>1. u + 1 \in 1..(n - 1)
      BY <1>2, <2>3 DEF Order
    <3> QED
      BY <1>2, <1>4, <2>3, <3>1
  <2> QED
    BY <1>2, <2>1, <2>2, <2>3 DEF Order
<1>6. Unused(t) = u + 1
  BY <1>3, <1>5 DEF Unused
<1> QED
  BY <1>1, <1>2, <1>3, <1>6 DEF UsedUpTo, Order

LEMMA WithoutTyped ==
  ASSUME NEW list \in List, NEW gone
  PROVE  Without(list, gone) \in List
BY DEF Without, List

\* The rows of a selection are deleted: each gets the next of its timers.
LEMMA DeleteInv ==
  ASSUME PageInv, NEW ids \in Selections, Delete(ids)
  PROVE  PageInv'
<1> USE DEF PageInv
<1> DEFINE E == Elements(ids)
<1>1. /\ \A t \in E : \E n \in Order : timer[t][n] = Idle
      /\ timer' = [t \in Tasks |-> IF t \in E THEN [timer[t] EXCEPT ![Unused(t)] = "waiting"]
                                              ELSE timer[t]]
      /\ pendingTimer' = [t \in Tasks |-> IF t \in E THEN Unused(t) ELSE pendingTimer[t]]
      /\ snapshot' = [t \in Tasks |-> IF t \in E THEN Without(cache, Ahead(ids, IndexOf(ids, t)))
                                                 ELSE snapshot[t]]
      /\ cache' = Without(cache, E)
      /\ toasts' = toasts \cup {ids} /\ undone' = undone \ E
      /\ UNCHANGED <<server, fetch, mut, unreconciled>>
  BY DEF Delete
<1>2. PICK t0, u0 \in Tasks : ids = <<t0>> \/ ids = <<t0, u0>>
  BY Selected
<1>3. ids \in Seq(Tasks) /\ E \subseteq Tasks /\ \E t \in Tasks : t \in E
  BY <1>2, SelectionTyped
<1> HIDE DEF E
<1>4. \A t \in E : /\ Unused(t) \in Order
                   /\ \A n \in Order : timer[t][n] = Idle <=> Unused(t) <= n
  BY <1>1, <1>3, UnusedIsNext
<1>5. timer \in [Tasks -> [Order -> TimerState]] /\ cache \in List
      /\ pendingTimer \in [Tasks -> 0..MaxDeletes]
  BY DEF CacheTypeOK, TimerState
<1>6. /\ \A t \in E, n \in Order :
           timer'[t][n] = IF n = Unused(t) THEN "waiting" ELSE timer[t][n]
      /\ \A t \in Tasks : t \notin E => timer'[t] = timer[t]
  BY <1>1, <1>3, <1>4, <1>5
<1>7. timer' \in [Tasks -> [Order -> TimerState]]
  <2>1. \A t \in E : [timer[t] EXCEPT ![Unused(t)] = "waiting"] \in [Order -> TimerState]
    BY <1>3, <1>4, <1>5 DEF TimerState
  <2> QED
    BY <1>1, <1>5, <2>1
<1>8. pendingTimer' \in [Tasks -> 0..MaxDeletes]
  BY <1>1, <1>4, <1>5 DEF Order
<1>9. \A t \in Tasks : snapshot'[t] \in List \cup {NULL}
  BY <1>1, <1>5, WithoutTyped DEF CacheTypeOK
<1>10. cache' \in List
  BY <1>1, <1>5, WithoutTyped
<1>11. TimersTyped
  BY <1>1, <1>3, <1>7, <1>8, <1>9 DEF TimersTyped, CacheTypeOK
<1>12. CacheTypeOK'
  BY <1>1, <1>10, <1>11, DeletionTyped DEF CacheTypeOK
<1>13. FetchAgrees'
  BY <1>3, <1>4, <1>6, UnsettledAgrees
<1>14. Toasted'
  BY <1>1, <1>2 DEF Toasted, DeletionInv
<1>15. Numbered'
  <2> SUFFICES ASSUME NEW t \in Tasks PROVE \E u \in 0..MaxDeletes : UsedUpTo(t, u)'
    BY DEF Numbered
  <2>1. CASE t \in E
    <3>1. Unused(t) \in 0..MaxDeletes
      BY <1>4, <2>1 DEF Order
    <3>2. \A n \in Order : timer'[t][n] = Idle <=> Unused(t) < n
      BY <1>4, <1>6, <2>1 DEF Order, Idle
    <3> QED
      BY <3>1, <3>2 DEF UsedUpTo
  <2>2. CASE t \notin E
    BY <1>6, <2>2 DEF DeletionInv, Numbered, UsedUpTo
  <2> QED
    BY <2>1, <2>2
<1>16. PendingIsLast'
  <2> SUFFICES ASSUME NEW t \in Tasks, pendingTimer'[t] # 0
               PROVE  UsedUpTo(t, pendingTimer[t])'
    BY DEF PendingIsLast
  <2>1. CASE t \in E
    BY <1>1, <1>4, <1>6, <2>1 DEF UsedUpTo, Order, Idle
  <2>2. CASE t \notin E
    BY <1>1, <1>6, <2>2 DEF DeletionInv, PendingIsLast, UsedUpTo
  <2> QED
    BY <2>1, <2>2
<1>17. UndoneHidden'
  BY <1>1, <1>6 DEF DeletionInv, UndoneHidden, CacheTypeOK
<1> QED
  BY <1>12, <1>13, <1>14, <1>15, <1>16, <1>17 DEF DeletionInv

\* A selection is restored: the timers the map holds are cleared.
LEMMA UndoInv ==
  ASSUME PageInv, NEW ids \in toasts, Undo(ids)
  PROVE  PageInv'
<1> USE DEF PageInv
<1> DEFINE E == Elements(ids)
           kept == {i \in 1..Len(ids) : snapshot[ids[i]] # NULL}
           last == CHOOSE i \in kept : \A k \in kept : k <= i
<1>1. /\ timer' = [t \in Tasks |-> IF t \in E /\ pendingTimer[t] # 0
                                   THEN [timer[t] EXCEPT ![pendingTimer[t]] = "cancelled"]
                                   ELSE timer[t]]
      /\ pendingTimer' = [t \in Tasks |-> IF t \in E THEN 0 ELSE pendingTimer[t]]
      /\ snapshot' = [t \in Tasks |-> IF t \in E THEN NULL ELSE snapshot[t]]
      /\ undone' = undone \cup {t \in E : pendingTimer[t] # 0}
      /\ toasts' = toasts \ {ids}
      /\ unreconciled' = TRUE
      /\ UNCHANGED <<server, fetch, mut>>
  BY DEF Undo, CancelTimer
<1>2. cache' = IF kept = {} THEN cache ELSE snapshot[ids[last]]
  BY DEF Undo
<1>3. /\ Len(ids) \in 1..2 /\ E \subseteq Tasks
      /\ \A i \in 1..Len(ids) : ids[i] \in Tasks
  <2>1. \E t, u \in Tasks : ids = <<t>> \/ ids = <<t, u>>
    BY DEF DeletionInv, Toasted
  <2> QED
    BY <2>1, SelectionTyped
<1>4. cache' \in List
  <2>1. CASE kept = {}
    BY <1>2, <2>1 DEF CacheTypeOK
  <2>2. CASE kept # {}
    <3>1. \E i \in kept : \A k \in kept : k <= i
      <4>1. kept \subseteq {1, 2}
        BY <1>3
      <4> HIDE DEF kept
      <4>2. CASE 2 \in kept
        BY <4>1, <4>2
      <4>3. CASE kept = {1}
        BY <4>3
      <4> QED
        BY <2>2, <4>1, <4>2, <4>3
    <3>2. last \in kept
      <4> HIDE DEF kept
      <4> QED
        BY <3>1
    <3>3. snapshot[ids[last]] \in List \cup {NULL} /\ snapshot[ids[last]] # NULL
      <4>1. last \in 1..Len(ids) /\ snapshot[ids[last]] # NULL
        BY <3>2
      <4> HIDE DEF last
      <4> QED
        BY <1>3, <4>1 DEF CacheTypeOK
    <3> QED
      BY <1>2, <2>2, <3>3
  <2> QED
    BY <2>1, <2>2
<1> HIDE DEF E
<1>5. /\ timer \in [Tasks -> [Order -> TimerState]]
      /\ pendingTimer \in [Tasks -> 0..MaxDeletes] /\ 0 \in 0..MaxDeletes
  BY CacheConstants DEF CacheTypeOK, TimerState
<1>6. \A t \in Tasks : pendingTimer[t] # 0 => pendingTimer[t] \in Order
  BY <1>5 DEF Order
<1>7. \A t \in Tasks, n \in Order :
        timer'[t][n] = IF t \in E /\ pendingTimer[t] # 0 /\ n = pendingTimer[t]
                         THEN "cancelled" ELSE timer[t][n]
  BY <1>1, <1>5, <1>6
<1>8. timer' \in [Tasks -> [Order -> TimerState]]
  <2>1. \A t \in Tasks : pendingTimer[t] # 0 =>
          [timer[t] EXCEPT ![pendingTimer[t]] = "cancelled"] \in [Order -> TimerState]
    BY <1>5, <1>6 DEF TimerState
  <2> QED
    BY <1>1, <1>5, <2>1
<1>9. TimersTyped
  BY <1>1, <1>3, <1>5, <1>8 DEF TimersTyped, CacheTypeOK
<1>10. CacheTypeOK'
  BY <1>1, <1>4, <1>9, DeletionTyped DEF CacheTypeOK
<1>11. FetchAgrees'
  BY <1>1, UnsettledAgrees
<1>12. \A t \in Tasks, n \in Order : timer'[t][n] = Idle <=> timer[t][n] = Idle
  BY <1>6, <1>7 DEF DeletionInv, PendingIsLast, UsedUpTo, Order, Idle
<1>13. Toasted' /\ Numbered' /\ PendingIsLast'
  BY <1>1, <1>12, TimersRunOut
<1>14. UndoneHidden'
  <2> SUFFICES ASSUME NEW t \in undone', NEW n \in Order, timer'[t][n] = "waiting"
               PROVE  \E k \in Order : n < k /\ timer'[t][k] # Idle
    BY DEF UndoneHidden
  <2>1. t \in Tasks /\ timer[t][n] = "waiting"
    BY <1>1, <1>3, <1>7 DEF CacheTypeOK
  <2>2. CASE t \in undone
    BY <1>12, <2>1, <2>2 DEF DeletionInv, UndoneHidden
  <2>3. CASE t \notin undone
    <3>1. t \in E /\ pendingTimer[t] # 0 /\ pendingTimer[t] \in Order
      BY <1>1, <1>6, <2>1, <2>3
    <3>2. n # pendingTimer[t]
      BY <1>7, <2>1, <3>1
    <3>3. UsedUpTo(t, pendingTimer[t])
      BY <2>1, <3>1 DEF DeletionInv, PendingIsLast
    <3>4. n < pendingTimer[t]
      BY <2>1, <3>1, <3>2, <3>3 DEF UsedUpTo, Order, Idle
    <3>5. timer'[t][pendingTimer[t]] = "cancelled"
      BY <1>7, <2>1, <3>1
    <3> QED
      BY <3>1, <3>4, <3>5 DEF Idle
  <2> QED
    BY <2>2, <2>3
<1> QED
  BY <1>10, <1>11, <1>13, <1>14 DEF DeletionInv

-----------------------------------------------------------------------------
(***************************************************************************)
(* The theorems.                                                           *)
(***************************************************************************)
LEMMA PageInitially == Init => PageInv
<1> SUFFICES ASSUME Init PROVE PageInv
  OBVIOUS
<1>1. server \in List /\ cache = server /\ fetch = NoFetch
  BY DEF Init, List, Status
<1>2. CacheTypeOK
  <2>1. /\ timer \in [Tasks -> [Order -> TimerState]]
        /\ pendingTimer \in [Tasks -> 0..MaxDeletes]
        /\ mut \in [Slots -> Mutation \cup {NULL}]
    BY CacheConstants DEF Init, TimerState
  <2>2. /\ \A t \in Tasks : snapshot[t] \in List \cup {NULL}
        /\ toasts = {} /\ undone = {} /\ unreconciled = FALSE
    BY DEF Init
  <2> QED
    BY <1>1, <2>1, <2>2, SendingTyped DEF CacheTypeOK, TimerState
<1>3. FetchAgrees
  BY <1>1, SendingTyped DEF FetchAgrees
<1>4. Toasted /\ PendingIsLast /\ UndoneHidden
  BY DEF Init, Toasted, PendingIsLast, UndoneHidden
<1>5. Numbered
  <2>1. 0 \in 0..MaxDeletes
    BY CacheConstants
  <2>2. \A t \in Tasks : UsedUpTo(t, 0)
    BY DEF Init, UsedUpTo, Order
  <2> QED
    BY <2>1, <2>2 DEF Numbered
<1> QED
  BY <1>2, <1>3, <1>4, <1>5 DEF PageInv, DeletionInv

LEMMA NextKeepsPage ==
  ASSUME PageInv, [Next]_vars
  PROVE  PageInv'
<1>1. CASE Focus \/ ServeFetch \/ FetchLost \/ ReceiveFetch
  <2>1. UNCHANGED deletion
    BY <1>1 DEF Focus, ServeFetch, FetchLost, ReceiveFetch
  <2> QED
    BY <1>1, <2>1, QueryInv, QuietDeletion DEF PageInv
<1>2. ASSUME NEW s \in Slots, NEW t \in Tasks,
             BeginOptimistic(s, t) \/ ServeMutation(s, t) \/ MutationLost(s, t)
      PROVE  PageInv'
  <2>1. UNCHANGED deletion
    BY <1>2 DEF BeginOptimistic, ServeMutation, MutationLost
  <2> QED
    BY <1>2, <2>1, MutationInv, QuietDeletion DEF PageInv
<1>3. ASSUME NEW s \in Slots, BeginPlain(s) PROVE PageInv'
  <2>1. UNCHANGED deletion
    BY <1>3 DEF BeginPlain
  <2> QED
    BY <1>3, <2>1, PlainInv, QuietDeletion DEF PageInv
<1>4. ASSUME NEW s \in Slots, Settle(s) PROVE PageInv'
  <2>1. UNCHANGED deletion
    BY <1>4 DEF Settle
  <2> QED
    BY <1>4, <2>1, SettleInv, QuietDeletion DEF PageInv
<1>5. ASSUME NEW ids \in Selections, Delete(ids) PROVE PageInv'
  BY <1>5, DeleteInv
<1>6. ASSUME NEW t \in Tasks, NEW n \in Order,
             Expire(t, n) \/ ServeDelete(t, n) \/ SettleDelete(t, n)
      PROVE  PageInv'
  BY <1>6, ExpireInv, ServeDeleteInv, SettleDeleteInv
<1>7. ASSUME NEW ids \in toasts, Undo(ids) \/ Dismiss(ids) PROVE PageInv'
  BY <1>7, UndoInv, DismissInv
<1>8. CASE UNCHANGED vars
  <2>1. UNCHANGED <<server, cache, fetch, mut, deletion, timer, unreconciled>>
    BY <1>8 DEF vars, deletion
  <2>2. CacheTypeOK'
    BY <2>1, RestTyped DEF PageInv, CacheTypeOK
  <2>3. FetchAgrees'
    BY <2>1 DEF PageInv, FetchAgrees, Unsettled, Outstanding
  <2> QED
    BY <2>1, <2>2, <2>3, QuietDeletion DEF PageInv
<1> QED
  BY <1>1, <1>2, <1>3, <1>4, <1>5, <1>6, <1>7, <1>8 DEF Next

(***************************************************************************)
(* The types, the strengthening, and how deletions are numbered.           *)
(***************************************************************************)
THEOREM PageInvariance == Spec => []PageInv
BY PageInitially, NextKeepsPage, PTL DEF Spec

(***************************************************************************)
(* Once nothing is in flight and a refetch was asked for, the page shows   *)
(* the list of the server, whatever mutations, roll-backs, deletions,      *)
(* undos, refetches and lost answers overlapped before                     *)
(* (useOptimisticTaskUpdate's onSettled, deleteTask's finally).            *)
(***************************************************************************)
THEOREM QuietPageAgrees == Spec => []CacheInv
<1>1. PageInv => CacheInv
  <2> SUFFICES ASSUME PageInv PROVE QuietAgrees
    BY DEF PageInv, CacheInv
  <2> QED
    BY DEF PageInv, FetchAgrees, Unsettled, QuietAgrees
<1> QED
  BY <1>1, PageInvariance, PTL

(***************************************************************************)
(* A deletion undone within its window is not carried out, however often   *)
(* its task is deleted and restored, unless another deletion of the task   *)
(* followed before the undo (scheduleDelete, cancelDelete).                *)
(***************************************************************************)
THEOREM UndoneIsKept == Spec => UndoneStays
<1> DEFINE Stays == \A t \in undone, n \in Order :
                      timer[t][n] = "waiting"
                      => timer'[t][n] # "sent" \/ \E k \in Order : n < k /\ timer[t][k] # Idle
<1>1. PageInv => Stays
  BY DEF PageInv, DeletionInv, UndoneHidden
<1>2. UndoneStays <=> [][Stays]_vars
  BY PTL DEF UndoneStays
<1> HIDE DEF Stays
<1> QED
  BY <1>1, <1>2, PageInvariance, PTL
=============================================================================
