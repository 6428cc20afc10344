--------------------------- MODULE MCTaskService ---------------------------
(***************************************************************************)
(* Small instances of TaskService: days are numbers, a daily task and an   *)
(* edit of its date and content.                                           *)
(***************************************************************************)
EXTENDS TaskService, TLC

MCNextDueDate(day, repeat) == day + (IF repeat = "weekly" THEN 7 ELSE 1)

Body(day, slot, repeat, template) ==
  [due_date |-> day, due_time |-> slot, repeat_type |-> repeat, template |-> template]

DailyTask  == {Body(0, 0, "daily", "original")}
ToToday    == {[fields |-> {"due_date", "template"}, due_date |-> 0, due_time |-> 0,
                repeat_type |-> "daily", template |-> "edited"]}

IdSymmetry == Permutations(TaskIds) \cup Permutations(Sessions)
=============================================================================
