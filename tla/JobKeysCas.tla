----------------------------- MODULE JobKeysCas ------------------------------
(***************************************************************************)
(* How the NATS key coordinator applies the reducers of JobKeys: a loop    *)
(* that reads the entry of the key, reduces it, and writes the result back *)
(* against the revision it read (NatsKeyCoordinator::update_key).  Clients *)
(* are the calls in progress of all submitters and workers.                *)
(***************************************************************************)
EXTENDS Integers, Sequences

CONSTANTS
  Jobs, Tokens, Times, MaxActive, MaxQueued, WhenFull, StalePolicy, NoJob, MaxOpen,
  Clients,        \* concurrent callers of update_key
  MaxRev          \* bound: writes to the entry

ASSUME NoJobAssumption == NoJob \notin Jobs

VARIABLES
  entry,          \* [rev, state] of the key; revision 0: not in the bucket
  call,           \* per client, the update_key call in progress
  owner,          \* as in JobKeys: the job a token was put to use for
  replacing       \* as in JobKeys: replacements that may be rolled back

vars == <<entry, call, owner, replacing>>

JK == INSTANCE JobKeys WITH key <- entry.state

-----------------------------------------------------------------------------
Requests ==
  [op : {"admit"}, job : Jobs, whenFull : WhenFull]
    \union [op : {"acquire"}, slot : JK!Slot, at : Times]
    \union [op : {"renew"}, slot : JK!Slot]
    \union [op : {"release"}, job : Jobs, token : Tokens]
    \union [op : {"remove_queued", "cleanup"}, job : Jobs]
    \union [op : {"restore"}, pair : Jobs \X Jobs]

Reduce(r, ks) ==
  CASE r.op = "admit" -> JK!AdmitJob(ks, r.whenFull, r.job)
    [] r.op = "acquire" -> JK!AcquireActiveSlot(ks, r.slot, r.at)
    [] r.op = "renew" -> JK!RenewActiveSlot(ks, r.slot)
    [] r.op = "release" -> JK!ReleaseActiveSlot(ks, r.job, r.token)
    [] r.op = "remove_queued" -> JK!RemoveQueuedEntry(ks, r.job)
    [] r.op = "cleanup" -> JK!CleanupTerminal(ks, r.job)
    [] r.op = "restore" -> JK!RestoreReplaced(ks, r.pair[1], r.pair[2])

Idle == [phase |-> "idle"]

Reading(r) == [phase |-> "read", req |-> r]

Writing(r, rev, out) == [phase |-> "write", req |-> r, rev |-> rev, out |-> out]

Init ==
  /\ entry = [rev |-> 0, state |-> JK!NewKeyState]
  /\ call = [c \in Clients |-> Idle]
  /\ owner = [t \in Tokens |-> NoJob]
  /\ replacing = {}

-----------------------------------------------------------------------------
(* What a caller may ask for. *)

Acquiring(c, t) ==
  call[c] # Idle /\ call[c].req.op = "acquire" /\ call[c].req.slot.token = t

Restoring(c, pair) ==
  call[c] # Idle /\ call[c].req.op = "restore" /\ call[c].req.pair = pair

\* A worker generates a token for every acquisition and reads its clock once,
\* before the loop; it renews and releases with the token it was granted.  One
\* submitter rolls a replacement back, once.
MayCall(r) ==
  CASE r.op = "acquire" -> /\ owner[r.slot.token] = NoJob
                           /\ \A c \in Clients : ~Acquiring(c, r.slot.token)
                           /\ r.at < r.slot.lease
    [] r.op = "renew" -> owner[r.slot.token] = r.slot.job
    [] r.op = "release" -> owner[r.token] = r.job
    [] r.op = "restore" -> r.pair \in replacing /\ \A c \in Clients : ~Restoring(c, r.pair)
    [] OTHER -> TRUE

Call(c, r) ==
  /\ call[c] = Idle
  /\ MayCall(r)
  /\ call' = [call EXCEPT ![c] = Reading(r)]
  /\ UNCHANGED <<entry, owner, replacing>>

-----------------------------------------------------------------------------
(* The loop. *)

\* The effect of request r on the entry, and on the two books of JobKeys.
Apply(r, out) ==
  /\ entry' = [rev |-> entry.rev + 1, state |-> out.state]
  /\ owner' = IF r.op = "acquire" THEN [owner EXCEPT ![r.slot.token] = r.slot.job] ELSE owner
  /\ replacing' = CASE r.op = "admit" /\ out.kind = "replaced" ->
                         replacing \union {<<Head(entry.state.queued), r.job>>}
                    [] r.op = "restore" -> replacing \ {r.pair}
                    [] OTHER -> replacing

\* Bounds of the model: the revision, and the replacements open at once.
MayApply(out) ==
  /\ entry.rev < MaxRev
  /\ out.kind = "replaced" => JK!Cardinality(replacing) < MaxOpen

\* Read the entry and reduce it.  An outcome without a next state is returned.
Read(c) ==
  /\ call[c].phase = "read"
  /\ LET r == call[c].req
         out == Reduce(r, entry.state)
     IN  call' = [call EXCEPT ![c] = IF out.kind \in JK!Persisted
                                     THEN Writing(r, entry.rev, out) ELSE Idle]
  /\ UNCHANGED <<entry, owner, replacing>>

\* Variant: the value is put without the revision it was computed from.
WritePut(c) ==
  /\ call[c].phase = "write"
  /\ MayApply(call[c].out)
  /\ Apply(call[c].req, call[c].out)
  /\ call' = [call EXCEPT ![c] = Idle]

\* The write goes through: update against the revision, or create.  Its
\* acknowledgement may be lost; the caller then gets an error for what was done.
Write(c) ==
  /\ call[c].phase = "write"
  /\ call[c].rev = entry.rev
  /\ MayApply(call[c].out)
  /\ Apply(call[c].req, call[c].out)
  /\ call' = [call EXCEPT ![c] = Idle]

\* Variant: a retry keeps the outcome that was computed before the conflict.
MismatchRebase(c) ==
  /\ call[c].phase = "write"
  /\ call[c].rev # entry.rev
  /\ call' = [call EXCEPT ![c].rev = entry.rev]
  /\ UNCHANGED <<entry, owner, replacing>>

\* A revision mismatch, or the key already exists: read again.
Mismatch(c) ==
  /\ call[c].phase = "write"
  /\ call[c].rev # entry.rev
  /\ call' = [call EXCEPT ![c] = Reading(call[c].req)]
  /\ UNCHANGED <<entry, owner, replacing>>

\* The read fails, the write fails without effect, or the retry window is over.
GiveUp(c) ==
  /\ call[c] # Idle
  /\ call' = [call EXCEPT ![c] = Idle]
  /\ UNCHANGED <<entry, owner, replacing>>

\* The submitter published the Skipped event or gave its rollback up.
Settle(pair) ==
  /\ pair \in replacing
  /\ \A c \in Clients : ~Restoring(c, pair)
  /\ replacing' = replacing \ {pair}
  /\ UNCHANGED <<entry, call, owner>>

Next ==
  \/ \E c \in Clients, r \in Requests : Call(c, r)
  \/ \E c \in Clients : Read(c) \/ Write(c) \/ Mismatch(c) \/ GiveUp(c)
  \/ \E pair \in Jobs \X Jobs : Settle(pair)

Spec == Init /\ [][Next]_vars

-----------------------------------------------------------------------------
\* The shape of the entry, of the calls and of the two books.
TypeOK ==
  /\ entry \in [rev : Nat, state : JK!KeyState]
  /\ DOMAIN call = Clients
  /\ \A c \in Clients :
       \/ call[c] = Idle
       \/ call[c].phase = "read" /\ call[c].req \in Requests
       \/ call[c].phase = "write" /\ call[c].req \in Requests /\ call[c].rev <= entry.rev
  /\ owner \in [Tokens -> Jobs \union {NoJob}]
  /\ replacing \subseteq Jobs \X Jobs

\* Why the loop is safe: a write that can still go through holds the reduction of
\* the record that is in the bucket now, whatever happened between read and write.
WritesFresh ==
  \A c \in Clients : call[c].phase = "write" /\ call[c].rev = entry.rev =>
    call[c].out = Reduce(call[c].req, entry.state)

\* The coordinator keeps its promise: with retries, lost acknowledgements and
\* failed calls, the record only ever changes by whole operations of JobKeys.
Atomic == JK!Spec
=============================================================================
