------------------------------- MODULE JobKeys -------------------------------
(***************************************************************************)
(* The key coordinator as its callers see it: every operation on the       *)
(* record of a key is one atomic step, a reducer of JobKeyRecord applied   *)
(* to it.  JobKeysCas models how the coordinator keeps that promise with   *)
(* compare-and-set writes.                                                 *)
(***************************************************************************)
EXTENDS JobKeyRecord

CONSTANT MaxOpen      \* bound: replacing admissions that can be open at once

ASSUME BoundAssumption == MaxOpen \in Nat

VARIABLES
  key,        \* the key record
  owner,      \* the job each slot token was generated for
  replacing   \* <<replaced, replacement>>: admissions whose lifecycle events
              \* are not yet published and may still be rolled back

vars == <<key, owner, replacing>>

Init ==
  /\ key = NewKeyState
  /\ owner = [t \in Tokens |-> NoJob]
  /\ replacing = {}

Admit(j, whenFull) ==
  LET out == AdmitJob(key, whenFull, j)
  IN  /\ out.kind = "replaced" => Cardinality(replacing) < MaxOpen
      /\ key' = NextState(key, out)
      /\ replacing' = IF out.kind = "replaced"
                      THEN replacing \union {<<Head(key.queued), j>>} ELSE replacing
      /\ UNCHANGED owner

Acquire(j, t, at, lease) ==
  /\ owner[t] \in {NoJob, j}
  /\ at < lease
  /\ owner' = [owner EXCEPT ![t] = j]
  /\ key' = NextState(key, AcquireActiveSlot(key, [job |-> j, token |-> t, lease |-> lease], at))
  /\ UNCHANGED replacing

Renew(t, lease) ==
  /\ owner[t] # NoJob
  /\ key' = NextState(key,
              RenewActiveSlot(key, [job |-> owner[t], token |-> t, lease |-> lease]))
  /\ UNCHANGED <<owner, replacing>>

Release(t) ==
  /\ owner[t] # NoJob
  /\ key' = NextState(key, ReleaseActiveSlot(key, owner[t], t))
  /\ UNCHANGED <<owner, replacing>>

RemoveQueued(j) ==
  /\ key' = NextState(key, RemoveQueuedEntry(key, j))
  /\ UNCHANGED <<owner, replacing>>

\* The Skipped event of the replaced job could not be published.
Restore(pair) ==
  /\ pair \in replacing
  /\ key' = NextState(key, RestoreReplaced(key, pair[1], pair[2]))
  /\ replacing' = replacing \ {pair}
  /\ UNCHANGED owner

\* The Skipped event was published, or the rollback was given up.
Settle(pair) ==
  /\ pair \in replacing
  /\ replacing' = replacing \ {pair}
  /\ UNCHANGED <<key, owner>>

Cleanup(j) ==
  /\ key' = NextState(key, CleanupTerminal(key, j))
  /\ UNCHANGED <<owner, replacing>>

Next ==
  \/ \E j \in Jobs, w \in WhenFull : Admit(j, w)
  \/ \E j \in Jobs, t \in Tokens, at, lease \in Times : Acquire(j, t, at, lease)
  \/ \E t \in Tokens, lease \in Times : Renew(t, lease)
  \/ \E t \in Tokens : Release(t)
  \/ \E j \in Jobs : RemoveQueued(j) \/ Cleanup(j)
  \/ \E pair \in Jobs \X Jobs : Restore(pair) \/ Settle(pair)

Spec == Init /\ [][Next]_vars

-----------------------------------------------------------------------------
\* The shape of the record, of the token book and of the open replacements.
TypeOK ==
  /\ key \in KeyState
  /\ owner \in [Tokens -> Jobs \union {NoJob}]
  /\ replacing \subseteq Jobs \X Jobs

\* The concurrency limit: whatever the interleaving of admissions, takeovers,
\* renewals, releases and rollbacks, a key never has more than max_active slots.
SlotsBounded == Len(key.active) <= MaxActive

\* Fencing needs it: no job has two slots and no two slots carry one token, even
\* when a redelivered job takes over its own expired slot.
SlotsDistinct ==
  \A i, k \in DOMAIN key.active :
    i # k => /\ key.active[i].job # key.active[k].job
             /\ key.active[i].token # key.active[k].token

\* A slot carries a token that was generated for its own job: the token a worker
\* renews or releases with can only ever name a slot of the job it runs.
TokensOwned == \A i \in DOMAIN key.active : owner[key.active[i].token] = key.active[i].job

\* A job has at most one reservation, also after a replacement was rolled back
\* while the replaced or the replacing job had moved on.
QueuedOnce == \A i, k \in DOMAIN key.queued : i # k => key.queued[i] # key.queued[k]

\* A slot never disappears silently: it is released under its own token, its job
\* takes it over under a new token, its job was settled, or the displacing
\* acquisition leaves the displaced job's cleanup obligation in the record.
NoSilentDisplacement ==
  [][\A i \in DOMAIN key.active :
       LET slot == key.active[i]
       IN  \/ HoldsSlot(key', slot.job)
           \/ slot.job \in key'.cleanup
           \/ Release(slot.token) \/ Cleanup(slot.job)]_vars

\* Only the settlement of its own job removes a cleanup obligation.
ObligationKept ==
  [][\A j \in key.cleanup : j \in key'.cleanup \/ Cleanup(j)]_vars
=============================================================================
