---------------------------- MODULE CalendarPages ----------------------------
(***************************************************************************)
(* The calendar of the backend beside that of the pages: a series that     *)
(* walks through the dates (Recurrence) and the pages that sort tasks by   *)
(* day (Overview).  They share the arithmetic of Calendar and no state.    *)
(***************************************************************************)
EXTENDS Recurrence, Overview

(***************************************************************************)
(* A due date is a date, and what the pages and the server hold is of its  *)
(* type (datetime.date raises on 31 June; complete_task dates what it      *)
(* completes).                                                             *)
(***************************************************************************)
CalendarTypeOK == DueTypeOK /\ OverviewTypeOK
=============================================================================
