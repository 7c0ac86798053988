------------------------------- MODULE MCTasks -------------------------------
(* Tasks on small instances: rows that are their own indexed field, and     *)
(* tasks of which some are tied to one worker.                              *)
EXTENDS Tasks

CONSTANTS LocalTask, LocalWorker

MCHome == [t \in Thread |-> IF t \in LocalTask THEN LocalWorker ELSE None]
MCField == [i \in Index |-> [v \in Value |-> v]]
=============================================================================
