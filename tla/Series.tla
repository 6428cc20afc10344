------------------------------- MODULE Series -------------------------------
(***************************************************************************)
(* What a recurring task promises, whatever requests and jobs overlap, are *)
(* repeated or fail: from the creation of a series until the user ends it  *)
(* an occurrence is still to come.  An occurrence of a running series goes *)
(* only with the step that brings its successor, and the successor is of   *)
(* the same series.  A second occurrence beside it comes only of Repeat or *)
(* Resume.  TaskService and ReminderScheduler are shown to implement it.   *)
(***************************************************************************)
CONSTANTS Ids, NULL

VARIABLES
  unused,     \* ids not given out yet
  running,    \* series created and not ended by the user
  of          \* the series of each active occurrence, NULL for any other id

seriesVars == <<unused, running, of>>

Init ==
  /\ unused = Ids
  /\ running = {}
  /\ of = [t \in Ids |-> NULL]

Take(n) == n \in unused /\ unused' = unused \ {n}

\* A series carries the id of its first occurrence.
Start(s) ==
  /\ Take(s)
  /\ running' = running \cup {s}
  /\ of' = [of EXCEPT ![s] = s]

\* A task that is in no series.
Single(n) ==
  /\ Take(n)
  /\ UNCHANGED <<running, of>>

\* n follows t in series s.
Succeed(s, t, n) ==
  /\ Take(n)
  /\ s \notin unused /\ of[t] = s
  /\ of' = [of EXCEPT ![t] = NULL, ![n] = s]
  /\ UNCHANGED running

\* A completion is retried, or is of an occurrence that is over or was resumed
\* meanwhile: series s gains an occurrence and loses none.
Repeat(s, n) ==
  /\ Take(n)
  /\ s \notin unused
  /\ of' = [of EXCEPT ![n] = s]
  /\ UNCHANGED running

\* Occurrences that were over are to come again.
Resume ==
  /\ of' \in [Ids -> Ids \cup {NULL}]
  /\ \A t \in Ids : of'[t] # of[t] =>
       t \notin unused /\ of[t] = NULL /\ of'[t] \notin unused
  /\ UNCHANGED <<unused, running>>

\* The user ends a series, with an occurrence of it or not.
End(s) ==
  /\ s \in running
  /\ running' = running \ {s}
  /\ \/ of' = of
     \/ \E t \in Ids : of[t] = s /\ of' = [of EXCEPT ![t] = NULL]
  /\ UNCHANGED unused

\* What is left of a series that has ended goes without a successor.
Leave(t) ==
  /\ of[t] \notin running
  /\ of' = [of EXCEPT ![t] = NULL]
  /\ UNCHANGED <<unused, running>>

Next ==
  \/ \E s \in Ids : Start(s) \/ Single(s) \/ End(s) \/ Leave(s)
  \/ \E s, n \in Ids : Repeat(s, n) \/ \E t \in Ids : Succeed(s, t, n)
  \/ Resume

Spec == Init /\ [][Next]_seriesVars
=============================================================================
