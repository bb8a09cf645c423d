---------------------------- MODULE JobsProjector ----------------------------
(***************************************************************************)
(* The Jobs projector (crates/jobs-runtime/src/projector.rs): a durable    *)
(* pull consumer over the lifecycle stream that folds batches of events    *)
(* into SQLite, moves a checkpoint, and acknowledges.  The broker          *)
(* redelivers what is not acknowledged in time, after newer messages if    *)
(* those are there to be delivered.                                        *)
(***************************************************************************)
EXTENDS JobLifecycle, Integers, Sequences, SequencesExt, FiniteSets, FiniteSetsExt

CONSTANTS
  Jobs,           \* job ids
  Alphabet,       \* lifecycle events that get published: JobLifecycle!Event records
  MaxEvents,      \* bound: length of the stream
  BatchSize,      \* PROJECTOR_BATCH_SIZE
  MaxFailures     \* bound: batches, pulls and processes that fail

ASSUME ProjectorAssumption ==
  /\ MaxEvents \in Nat
  /\ MaxFailures \in Nat
  /\ BatchSize \in Nat \ {0}

(***************************************************************************)
(* A message of the stream.  "owned" events project.  The others never do: *)
(* "junk" does not parse; "rejected" is outside its publisher's queue, or  *)
(* fails permanently and is rolled back alone.                             *)
(***************************************************************************)
Messages ==
  [kind : {"owned"}, job : Jobs, event : Alphabet] \union [kind : {"junk", "rejected"}]

VARIABLES
  stream,      \* the lifecycle stream: sequence number |-> message
  cursor,      \* broker: last sequence delivered for the first time
  unacked,     \* broker: delivered and not acknowledged
  inbox,       \* projector: pulled, not yet in a batch
  batch,       \* projector: the batch in hand
  horizon,     \* projector: greatest sequence of the batch, unprojectable ones included
  phase,       \* "collect", "project", "advance", "ack"
  job,         \* SQLite: the projected job
  rows,        \* SQLite: source sequences of the timeline rows, in projection order
  checkpoint,  \* SQLite: last_projected_sequence
  failures     \* failures so far

broker == <<stream, cursor, unacked>>
store == <<job, rows, checkpoint>>
projector == <<inbox, batch, horizon, phase>>
vars == <<broker, projector, store, failures>>

Init ==
  /\ stream = <<>> /\ cursor = 0 /\ unacked = {}
  /\ inbox = <<>> /\ batch = <<>> /\ horizon = 0 /\ phase = "collect"
  /\ job = [j \in Jobs |-> Absent] /\ rows = <<>> /\ checkpoint = 0
  /\ failures = 0

-----------------------------------------------------------------------------
(* The broker. *)

\* A worker, a submitter or an administrator publishes.
Publish(m) ==
  /\ Len(stream) < MaxEvents
  /\ stream' = Append(stream, m)
  /\ UNCHANGED <<cursor, unacked, projector, store, failures>>

\* Deliver the next message.
Deliver ==
  /\ cursor < Len(stream)
  /\ cursor' = cursor + 1
  /\ unacked' = unacked \union {cursor + 1}
  /\ inbox' = Append(inbox, cursor + 1)
  /\ UNCHANGED <<stream, batch, horizon, phase, store, failures>>

\* The acknowledgement wait of message s is over.
Redeliver(s) ==
  /\ s \in unacked
  /\ s \notin ToSet(inbox)
  /\ inbox' = Append(inbox, s)
  /\ UNCHANGED <<broker, batch, horizon, phase, store, failures>>

-----------------------------------------------------------------------------
(* The projector. *)

Collected(n) == SubSeq(inbox, 1, n)

\* Variant: acknowledges on receipt.
CollectAcking(n) ==
  /\ phase = "collect"
  /\ n \in 1..Len(inbox)
  /\ batch' = SelectSeq(Collected(n), LAMBDA s : stream[s].kind # "junk")
  /\ unacked' = unacked \ ToSet(Collected(n))
  /\ horizon' = Max(ToSet(Collected(n)))
  /\ inbox' = SubSeq(inbox, n + 1, Len(inbox))
  /\ phase' = "project"
  /\ UNCHANGED <<stream, cursor, store, failures>>

\* Take what is there, up to a batch.  What does not parse is acknowledged here.
Collect(n) ==
  /\ phase = "collect"
  /\ n \in 1..Len(inbox)
  /\ LET junk == {s \in ToSet(Collected(n)) : stream[s].kind = "junk"}
     IN  /\ batch' = SelectSeq(Collected(n), LAMBDA s : s \notin junk)
         /\ Len(batch') <= BatchSize
         /\ unacked' = unacked \ junk
  /\ horizon' = Max(ToSet(Collected(n)))
  /\ inbox' = SubSeq(inbox, n + 1, Len(inbox))
  /\ phase' = "project"
  /\ UNCHANGED <<stream, cursor, store, failures>>

\* Variant: the source sequence is not looked up.
ProjectEventUnseen(db, s) ==
  LET m == stream[s]
      cur == db.job[m.job]
      next == IF cur = Absent /\ EventState[m.event.type] \in Terminal
              THEN Seed(m.event) ELSE ReduceJobEvent(cur, m.event)
  IN  IF m.kind # "owned" THEN db
      ELSE [job |-> [db.job EXCEPT ![m.job] = next], rows |-> Append(db.rows, s)]

\* Each event in its own savepoint: the job and its timeline row, or nothing.
ProjectEvent(db, s) ==
  LET m == stream[s]
      j == m.job
      cur == db.job[j]
      next == IF cur = Absent /\ EventState[m.event.type] \in Terminal
              THEN Seed(m.event) ELSE ReduceJobEvent(cur, m.event)
  IN  IF s \in ToSet(db.rows) \/ m.kind # "owned" THEN db
      ELSE [job |-> [db.job EXCEPT ![j] = next], rows |-> Append(db.rows, s)]

\* Variant: an event that can never project fails its whole batch.
ProjectAllOrNothing ==
  /\ phase = "project"
  /\ IF \E s \in ToSet(batch) : stream[s].kind = "rejected"
     THEN batch' = <<>> /\ phase' = "collect" /\ UNCHANGED <<job, rows>>
     ELSE LET db == FoldLeft(ProjectEvent, [job |-> job, rows |-> rows], batch)
          IN  job' = db.job /\ rows' = db.rows /\ phase' = "advance" /\ batch' = batch
  /\ UNCHANGED <<broker, inbox, horizon, checkpoint, failures>>

\* One write transaction for the batch.
Project ==
  /\ phase = "project"
  /\ LET db == FoldLeft(ProjectEvent, [job |-> job, rows |-> rows], batch)
     IN  job' = db.job /\ rows' = db.rows
  /\ phase' = "advance"
  /\ UNCHANGED <<broker, inbox, batch, horizon, checkpoint, failures>>

AdvanceProjectedSequence ==
  /\ phase = "advance"
  /\ checkpoint' = Max({checkpoint, horizon})
  /\ phase' = "ack"
  /\ UNCHANGED <<broker, inbox, batch, horizon, job, rows, failures>>

\* Acknowledge the batch; an acknowledgement may be lost, its failure is ignored.
Ack(lost) ==
  /\ phase = "ack"
  /\ lost \subseteq ToSet(batch)
  /\ lost # {} => failures < MaxFailures
  /\ failures' = IF lost = {} THEN failures ELSE failures + 1
  /\ unacked' = unacked \ (ToSet(batch) \ lost)
  /\ batch' = <<>> /\ horizon' = 0 /\ phase' = "collect"
  /\ UNCHANGED <<stream, cursor, inbox, store>>

\* A crash, a transient store or Auth failure, a pull that is reopened: what the
\* projector holds is gone, what it committed stays.
Fail ==
  /\ failures < MaxFailures
  /\ failures' = failures + 1
  /\ inbox' = <<>> /\ batch' = <<>> /\ horizon' = 0 /\ phase' = "collect"
  /\ UNCHANGED <<broker, store>>

Next ==
  \/ \E m \in Messages : Publish(m)
  \/ Deliver
  \/ \E s \in 1..MaxEvents : Redeliver(s)
  \/ \E n \in 1..(2 * MaxEvents) : Collect(n)
  \/ Project \/ AdvanceProjectedSequence
  \/ \E lost \in SUBSET (1..MaxEvents) : Ack(lost)
  \/ Fail

\* The broker delivers and redelivers; the projector loop runs.
Fairness ==
  /\ WF_vars(Deliver)
  /\ \A s \in 1..MaxEvents : WF_vars(Redeliver(s))
  /\ WF_vars(\E n \in 1..(2 * MaxEvents) : Collect(n))
  /\ WF_vars(Project)
  /\ WF_vars(AdvanceProjectedSequence)
  /\ WF_vars(Ack({}))

Spec == Init /\ [][Next]_vars /\ Fairness

-----------------------------------------------------------------------------
\* The shape of the state: the projector and its checkpoint never mention a sequence
\* that the broker has not delivered.
TypeOK ==
  /\ stream \in Seq(Messages) /\ Len(stream) <= MaxEvents
  /\ cursor \in 0..Len(stream)
  /\ unacked \subseteq 1..cursor
  /\ ToSet(inbox) \union ToSet(batch) \union ToSet(rows) \subseteq 1..cursor
  /\ horizon \in 0..cursor /\ checkpoint \in 0..cursor
  /\ phase \in {"collect", "project", "advance", "ack"}
  /\ job \in [Jobs -> [state : States \union {"Absent"}, tries : Nat]]
  /\ failures \in 0..MaxFailures

\* Redelivery after a lost acknowledgement, a crash between commit and checkpoint or
\* a duplicate in one batch never folds an event twice.
ProjectedOnce == \A i, k \in DOMAIN rows : i # k => rows[i] # rows[k]

\* Confirmed means durable: what the broker will not deliver again has its row,
\* unless it can never be projected.
NothingLost ==
  \A s \in 1..cursor : s \in unacked \/ s \in ToSet(rows) \/ stream[s].kind # "owned"

\* However often batches fail, every event that can be projected is, in the end.
EventuallyProjected ==
  \A s \in 1..MaxEvents :
    (s <= Len(stream) /\ stream[s].kind = "owned") ~> (s \in ToSet(rows))
=============================================================================
