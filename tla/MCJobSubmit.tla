----------------------------- MODULE MCJobSubmit -----------------------------
(* Three submitters to a queue with one slot and no waiting places. *)
EXTENDS JobSubmit
=============================================================================
