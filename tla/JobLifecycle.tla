---------------------------- MODULE JobLifecycle -----------------------------
(***************************************************************************)
(* The lifecycle of a job as a fold over its events                        *)
(* (crates/trellis/src/jobs/projection.rs, events.rs).  A job is its state *)
(* and its attempt counter; payload, result, logs, progress, errors and    *)
(* wait edges are data the fold copies and never tests.                    *)
(***************************************************************************)
EXTENDS Naturals

States ==
  {"Pending", "Active", "Retry", "Completed", "Failed", "Cancelled", "Expired",
   "Skipped", "Stale", "Dead", "Dismissed"}

Terminal == States \ {"Pending", "Active", "Retry"}

\* The state an event carries.
EventState ==
  [Created |-> "Pending", Started |-> "Active", Retry |-> "Retry", Progress |-> "Active",
   Heartbeat |-> "Active", Completed |-> "Completed", Failed |-> "Failed",
   Cancelled |-> "Cancelled", Expired |-> "Expired", Skipped |-> "Skipped",
   Stale |-> "Stale", Retried |-> "Pending", Dead |-> "Dead", Dismissed |-> "Dismissed"]

EventTypes == DOMAIN EventState

\* The states an event may leave.  Progress stands for Logged, Waiting and Resumed,
\* Heartbeat for StaleCompletionIgnored: the same guard, the same effect.
LegalFrom ==
  [Created |-> {}, Started |-> {"Pending", "Retry", "Active"}, Retry |-> {"Active"},
   Progress |-> {"Active"}, Heartbeat |-> {"Active"}, Completed |-> {"Active"},
   Failed |-> {"Active"}, Cancelled |-> {"Pending", "Retry", "Active"},
   Expired |-> {"Pending", "Retry", "Active"}, Skipped |-> {"Pending", "Retry"},
   Stale |-> {"Active", "Pending"}, Retried |-> {"Failed", "Dead"},
   Dead |-> {"Active", "Retry", "Failed", "Expired"}, Dismissed |-> {"Dead"}]

Absent == [state |-> "Absent", tries |-> 0]

Event(type, prev, tries) == [type |-> type, prev |-> prev, tries |-> tries]

IsLegalTransition(job, ev) ==
  /\ job.state \in LegalFrom[ev.type]
  /\ ev.prev = job.state
  /\ ev.type = "Stale" /\ job.state = "Pending" => job.tries = 0 /\ ev.tries = 0

Seed(ev) == [state |-> EventState[ev.type], tries |-> ev.tries]

ReduceJobEvent(job, ev) ==
  IF job = Absent THEN IF ev.type = "Created" THEN Seed(ev) ELSE Absent
  ELSE IF ~IsLegalTransition(job, ev) THEN job
  ELSE [state |-> EventState[ev.type], tries |-> IF ev.type = "Retried" THEN 0 ELSE ev.tries]
=============================================================================
