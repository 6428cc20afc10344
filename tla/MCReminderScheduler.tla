------------------------ MODULE MCReminderScheduler ------------------------
(***************************************************************************)
(* Small instances of ReminderScheduler.                                   *)
(***************************************************************************)
EXTENDS ReminderScheduler, TLC

MCNextDueDate(day, repeat) == day + (IF repeat = "weekly" THEN 7 ELSE 1)

Body(day, slot, repeat, template) ==
  [due_date |-> day, due_time |-> slot, repeat_type |-> repeat, template |-> template]

DailyTask  == {Body(0, 0, "daily", "original")}
OneOffTask == {Body(0, 0, "none", "original")}
NoEdits    == {}
StopSeries == {[fields |-> {"repeat_type"}, due_date |-> 0, due_time |-> 0,
                repeat_type |-> "none", template |-> "original"]}

NoQuietHours == NULL
EveningHours == [start |-> 1, end |-> 0]

IdSymmetry == Permutations(TaskIds)
=============================================================================
