--------------------------- MODULE MCJobsProjector ---------------------------
EXTENDS JobsProjector

\* A job that is created, then cancelled before it starts.
RunEvents == {Event("Created", "None", 0), Event("Cancelled", "Pending", 0)}
=============================================================================
