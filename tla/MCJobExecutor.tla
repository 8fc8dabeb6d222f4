---------------------------- MODULE MCJobExecutor -----------------------------
(* Small instances of JobExecutor: the ids are model values.                *)
EXTENDS JobExecutor

AnyStop == AllStopModes
===============================================================================
