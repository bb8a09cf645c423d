---------------------------- MODULE MCOperations ----------------------------
EXTENDS Operations

\* A plain operation that is signalled; a stream and an upload that are started twice.
\* Each has the claims it needs to settle, a cancelled stream apart, which is claimed
\* again and again.
OperationLoads ==
  {[kind |-> "plain", starts |-> 1, signals |-> 1, claims |-> 4],
   [kind |-> "stream", starts |-> 2, signals |-> 0, claims |-> 3],
   [kind |-> "upload", starts |-> 2, signals |-> 0, claims |-> 7]}
=============================================================================
