------------------------------ MODULE JobWorker ------------------------------
(***************************************************************************)
(* The workers of one queue (crates/trellis/src/jobs/runtime_worker.rs and *)
(* manager.rs): they pull work messages, resolve each against the          *)
(* lifecycle of its job, take a slot of the job's key, run the handler,    *)
(* publish what became of it and dispose of the message.  Every await of   *)
(* the code is a step boundary; the key coordinator's operations are       *)
(* atomic (JobKeysCas).                                                    *)
(*                                                                         *)
(* The lifecycle stream is kept as its fold: publishing an event applies   *)
(* the reducer.  Time is kept as what it has done: a lease is fresh or     *)
(* past, a deadline has passed or not.                                     *)
(***************************************************************************)
EXTENDS JobKeyRecord, JobLifecycle

CONSTANTS
  Workers,        \* worker processes, one job at a time each
  Keying,         \* whether the queue has a key_concurrency policy: a subset of BOOLEAN
  MaxTries,       \* ordinary attempts (max_deliver of the binding)
  Deadlines,      \* the jobs that have a deadline
  MaxRuns,        \* bound: Created and Retried events per job
  MaxCancels,     \* bound: cancellations
  Snapshots,      \* the job states a canceller may act on ("current": up to date)
  MaxFaults,      \* bound: crashes, shutdowns, failed heartbeats, failed cleanups, stalls
  MaxStalls,      \* bound: leases and acknowledgement waits that run out under a worker
  NoToken         \* not a slot token

ASSUME WorkerAssumption ==
  /\ NoToken \notin Tokens
  /\ Cardinality(Tokens) > MaxActive + Cardinality(Workers) + Cardinality(Jobs) + MaxCancels
  /\ Keying \subseteq BOOLEAN
  /\ MaxTries \in Nat \ {0}
  /\ Deadlines \subseteq Jobs
  /\ {0, 2, 4} \subseteq Times
  /\ {MaxRuns, MaxCancels, MaxFaults, MaxStalls} \subseteq Nat
  /\ Snapshots \subseteq {"current", "Pending", "Retry", "Active"}

Past == 0
Now == 2
Fresh == 4

VARIABLES
  keyed,       \* the queue has a key_concurrency policy
  life,        \* per job: the fold of its lifecycle events
  run,         \* per job: which of its opening events opened the current run
  opened,      \* per job: opening events (Created, Retried) published
  started,     \* per job: slot token in the last accepted Started event
  work,        \* work messages not acknowledged: <<job, opening event>>
  ready,       \* those that can be delivered
  key,         \* the key record
  worker,      \* per worker: its progress
  pending,     \* cancellations the host noted for jobs no worker was running
  notices,     \* cancellation messages under way to the host
  cancels,     \* cancellations published whose key cleanup is to come
  late,        \* jobs whose deadline has passed
  asked,       \* cancellations so far
  faults,      \* faults so far
  stalls,      \* stalls so far
  ignored,     \* history: jobs with a Cancelled event the reducer ignored
  entries      \* history, per job: handler entries of this run without a reason to stop

lifecycle == <<life, run, opened, started>>
broker == <<work, ready>>
admin == <<cancels, asked, notices, pending, ignored>>
mishaps == <<faults, stalls>>
vars == <<keyed, lifecycle, broker, key, worker, admin, late, mishaps, entries>>

Idle ==
  [pc |-> "idle", job |-> NoJob, run |-> 0, snap |-> Absent, token |-> NoToken,
   deferred |-> FALSE, why |-> "none", plan |-> "none", then |-> "none"]

\* Every job is admitted and created, in some order; nothing has been delivered.
Init ==
  /\ keyed \in Keying
  /\ life = [j \in Jobs |-> Seed(Event("Created", "None", 0))]
  /\ run = [j \in Jobs |-> 1] /\ opened = [j \in Jobs |-> 1]
  /\ started = [j \in Jobs |-> NoToken]
  /\ work = {<<j, 1>> : j \in Jobs} /\ ready = work
  /\ key \in {[NewKeyState EXCEPT !.queued = q] : q \in IF keyed THEN SetToSeqs(Jobs) ELSE {<<>>}}
  /\ worker = [w \in Workers |-> Idle]
  /\ pending = {} /\ notices = {} /\ cancels = {} /\ asked = 0
  /\ late = {} /\ faults = 0 /\ stalls = 0 /\ ignored = {} /\ entries = [j \in Jobs |-> 0]

-----------------------------------------------------------------------------
(* The cancellation token: which reason replaces which. *)

Cancelled(why, reason) ==
  CASE reason = "lost" -> "lost"
    [] reason = "shutdown" -> IF why = "lost" THEN why ELSE reason
    [] reason = "requested" -> IF why \in {"lost", "shutdown"} THEN why ELSE reason
    [] OTHER -> IF why = "none" THEN reason ELSE why

Reconciling == {"deadline", "exhausted", "stale"}

Leaving == {"lost", "shutdown"}

-----------------------------------------------------------------------------
(* Helpers of the steps. *)

Step(w, pc) == worker' = [worker EXCEPT ![w].pc = pc]

\* What is left to do no longer depends on the attempt.
Close(w, pc) ==
  worker' = [worker EXCEPT ![w] = [Idle EXCEPT !.pc = pc, !.job = worker[w].job,
                                               !.run = worker[w].run]]

\* The worker releases its slot, then disposes of the message.
ReleaseThen(w, then) ==
  worker' = [worker EXCEPT ![w] = [Idle EXCEPT !.pc = "release", !.job = worker[w].job,
                                     !.run = worker[w].run, !.token = worker[w].token,
                                     !.then = then]]

\* Variant: the event's state is taken as it comes.
PublishUnchecked(j, ev) ==
  /\ life' = [life EXCEPT ![j] = Seed(ev)]
  /\ UNCHANGED <<run, opened>>

Publish(j, ev) ==
  /\ life' = [life EXCEPT ![j] = ReduceJobEvent(@, ev)]
  /\ UNCHANGED <<run, opened>>

\* The ULID of an acquisition attempt: a token that no slot, no worker and no
\* lifecycle event mentions.
NewToken ==
  CHOOSE t \in Tokens :
    /\ \A i \in DOMAIN key.active : key.active[i].token # t
    /\ \A w \in Workers : worker[w].token # t
    /\ \A j \in Jobs : started[j] # t
    /\ \A c \in cancels : c.token # t

NewSlot(j) == [job |-> j, token |-> NewToken, lease |-> Fresh]

Fault == faults + stalls < MaxFaults /\ faults' = faults + 1 /\ UNCHANGED stalls

Stall ==
  /\ stalls < MaxStalls /\ faults + stalls < MaxFaults
  /\ stalls' = stalls + 1 /\ UNCHANGED faults

-----------------------------------------------------------------------------
(* Intake. *)

Receive(w, m) ==
  /\ worker[w].pc = "idle"
  /\ m \in ready
  /\ ready' = ready \ {m}
  /\ worker' = [worker EXCEPT ![w] = [Idle EXCEPT !.pc = "read", !.job = m[1], !.run = m[2]]]
  /\ UNCHANGED <<lifecycle, work, key, admin, late, mishaps, entries>>

\* stream_work_decision: an older run is acknowledged, settled work is cleaned up
\* and acknowledged, the rest registers for cancellation and goes on.
Read(w) ==
  LET j == worker[w].job
      process == run[j] = worker[w].run /\ life[j].state \notin Terminal
  IN  /\ worker[w].pc = "read"
      /\ IF process
         THEN /\ worker' = [worker EXCEPT ![w].pc = "acquire", ![w].snap = life[j],
                              ![w].why = IF j \in pending THEN Cancelled(@, "requested") ELSE @]
              /\ pending' = pending \ {j}
         ELSE /\ Close(w, IF run[j] = worker[w].run THEN "skip" ELSE "retire")
              /\ UNCHANGED pending
      /\ UNCHANGED <<lifecycle, broker, key, cancels, asked, notices, ignored, late, mishaps, entries>>

\* Variant: settled work is acknowledged without a look at its key.
SkipAcking(w) ==
  /\ worker[w].pc = "skip"
  /\ pending' = pending \ {worker[w].job}
  /\ Step(w, "retire")
  /\ UNCHANGED <<lifecycle, broker, key, cancels, asked, notices, ignored, late, mishaps, entries>>

\* cleanup_queued_key_for_terminal on work that is already settled.
Skip(w) ==
  /\ worker[w].pc = "skip"
  /\ key' = IF keyed THEN CleanupTerminal(key, worker[w].job).state ELSE key
  /\ pending' = pending \ {worker[w].job}
  /\ Step(w, "retire")
  /\ UNCHANGED <<lifecycle, broker, cancels, asked, notices, ignored, late, mishaps, entries>>

\* Variant: the outcome of the acquisition is not looked at.
AcquireAnyway(w) ==
  LET j == worker[w].job
      out == AcquireActiveSlot(key, NewSlot(j), Now)
  IN  /\ worker[w].pc = "acquire"
      /\ keyed
      /\ key' = NextState(key, out)
      /\ worker' = [worker EXCEPT ![w].pc = "begin", ![w].token = NewToken]
      /\ UNCHANGED <<lifecycle, broker, admin, late, mishaps, entries>>

\* One turn of the acquisition loop.  A blocked worker keeps its snapshot, reports
\* progress to the broker and tries again.
Acquire(w) ==
  LET j == worker[w].job
      out == AcquireActiveSlot(key, NewSlot(j), Now)
  IN  /\ worker[w].pc = "acquire"
      /\ keyed
      /\ out.kind = "acquired"
      /\ key' = out.state
      /\ worker' = [worker EXCEPT ![w].pc = "begin", ![w].token = NewToken,
                                  ![w].why = IF j \in out.state.cleanup
                                             THEN Cancelled(@, "stale") ELSE @]
      /\ UNCHANGED <<lifecycle, broker, admin, late, mishaps, entries>>

AcquireBlocked(w) ==
  /\ worker[w].pc = "acquire"
  /\ keyed
  /\ AcquireActiveSlot(key, NewSlot(worker[w].job), Now).kind = "blocked"
  /\ worker' = [worker EXCEPT ![w].deferred = TRUE]
  /\ UNCHANGED <<lifecycle, broker, key, admin, late, mishaps, entries>>

\* A worker that waits for capacity hands its message back when the host stops.
GiveBack(w) ==
  /\ worker[w].pc = "acquire" /\ worker[w].deferred
  /\ worker[w].why = "shutdown"
  /\ pending' = pending \ {worker[w].job}
  /\ Step(w, "nak")
  /\ UNCHANGED <<lifecycle, broker, key, cancels, asked, notices, ignored, late, mishaps, entries>>

AcquireUnkeyed(w) ==
  /\ worker[w].pc = "acquire"
  /\ ~keyed
  /\ Step(w, "begin")
  /\ UNCHANGED <<lifecycle, broker, key, admin, late, mishaps, entries>>

-----------------------------------------------------------------------------
(* process_with_heartbeat_and_terminal_hooks. *)

NeverStarted(w) ==
  /\ worker[w].snap.tries = 0
  /\ worker[w].why = "stale" \/ (worker[w].job \in late /\ worker[w].why = "none")

\* Never-started work that was displaced or is late settles without its handler.
BeginSettling(w) ==
  /\ worker[w].pc = "begin"
  /\ NeverStarted(w)
  /\ worker' = [worker EXCEPT ![w].pc = "guard",
                  ![w].plan = IF worker[w].why = "stale" THEN "stale" ELSE "expired"]
  /\ UNCHANGED <<lifecycle, broker, key, admin, late, mishaps, entries>>

\* Variant: the budget is compared with > instead of >=.
BeginOverBudget(w) ==
  LET j == worker[w].job
      ev == Event("Started", worker[w].snap.state, worker[w].snap.tries + 1)
  IN  /\ worker[w].pc = "begin"
      /\ ~NeverStarted(w)
      /\ Publish(j, ev)
      /\ started' = IF IsLegalTransition(life[j], ev)
                    THEN [started EXCEPT ![j] = worker[w].token] ELSE started
      /\ worker' = [worker EXCEPT ![w].pc = "run",
                      ![w].why = IF j \in late THEN Cancelled(@, "deadline")
                                 ELSE IF worker[w].snap.tries > MaxTries
                                 THEN Cancelled(@, "exhausted") ELSE @]
      /\ entries' = [entries EXCEPT ![j] = IF worker'[w].why = "none" THEN @ + 1 ELSE @]
      /\ UNCHANGED <<broker, key, admin, late, mishaps>>

\* Publish Started, then run the handler, with a reason to stop if it may only clean up.
BeginHandler(w) ==
  LET j == worker[w].job
      ev == Event("Started", worker[w].snap.state, worker[w].snap.tries + 1)
  IN  /\ worker[w].pc = "begin"
      /\ ~NeverStarted(w)
      /\ Publish(j, ev)
      /\ started' = IF IsLegalTransition(life[j], ev)
                    THEN [started EXCEPT ![j] = worker[w].token] ELSE started
      /\ worker' = [worker EXCEPT ![w].pc = "run",
                      ![w].why = IF j \in late THEN Cancelled(@, "deadline")
                                 ELSE IF worker[w].snap.tries >= MaxTries
                                 THEN Cancelled(@, "exhausted") ELSE @]
      /\ entries' = [entries EXCEPT ![j] = IF worker'[w].why = "none" THEN @ + 1 ELSE @]
      /\ UNCHANGED <<broker, key, admin, late, mishaps>>

\* Variant: an interrupted attempt is acknowledged.
FinishAcking(w, result) ==
  /\ worker[w].pc = "run"
  /\ IF worker[w].why = "none"
     THEN worker' = [worker EXCEPT ![w].pc = "guard", ![w].plan = result]
     ELSE ReleaseThen(w, "ack")
  /\ UNCHANGED <<lifecycle, broker, key, admin, late, mishaps, entries>>

\* The handler returns.  A reconciling handler that fails counts as a fault.
Finish(w, result) ==
  LET why == worker[w].why
      kept == why = "none" \/ (why \in Reconciling /\ result = "ok")
  IN  /\ worker[w].pc = "run"
      /\ IF why \in Reconciling /\ result # "ok" THEN Fault ELSE UNCHANGED mishaps
      /\ IF kept
         THEN worker' = [worker EXCEPT ![w].pc = "guard",
                           ![w].plan = IF why = "none" THEN result ELSE "reconcile"]
         ELSE ReleaseThen(w, IF why = "requested" THEN "ack" ELSE "nak")
      /\ UNCHANGED <<lifecycle, broker, key, admin, late, entries>>

\* The terminal guard renews the lease.  A lost slot is reported and the message
\* goes back; nothing is released.
Guard(w) ==
  LET out == RenewActiveSlot(key, [job |-> worker[w].job, token |-> worker[w].token,
                                   lease |-> Fresh])
  IN  /\ worker[w].pc = "guard"
      /\ key' = IF keyed THEN NextState(key, out) ELSE key
      /\ IF keyed /\ out.kind = "lost" THEN Close(w, "nak") ELSE Step(w, "publish")
      /\ UNCHANGED <<lifecycle, broker, admin, late, mishaps, entries>>

\* The terminal event, by what the attempt came to or by why it was stopped.
TerminalType(w) ==
  [ok |-> "Completed", retryable |-> "Retry", failed |-> "Failed", stale |-> "Stale",
   expired |-> "Expired", deadline |-> "Expired", exhausted |-> "Dead"]
    [IF worker[w].plan = "reconcile" THEN worker[w].why ELSE worker[w].plan]

\* A reconciling worker that was told to leave or to cancel meanwhile does not settle.
PublishTerminal(w) ==
  LET j == worker[w].job
      why == worker[w].why
      type == TerminalType(w)
      unstarted == worker[w].plan \in {"stale", "expired"}
  IN  /\ worker[w].pc = "publish"
      /\ IF worker[w].plan = "reconcile" /\ why \notin Reconciling
         THEN /\ ReleaseThen(w, IF why = "requested" THEN "ack" ELSE "nak")
              /\ UNCHANGED lifecycle
         ELSE /\ Publish(j, Event(type, IF unstarted THEN worker[w].snap.state ELSE "Active",
                                  IF unstarted THEN 0 ELSE worker[w].snap.tries + 1))
              /\ ReleaseThen(w, IF type = "Retry" THEN "nak"
                                ELSE IF type \in {"Stale", "Expired", "Dead"} THEN "cleanup"
                                ELSE "ack")
              /\ UNCHANGED started
      /\ UNCHANGED <<broker, key, admin, late, mishaps, entries>>

Release(w) ==
  /\ worker[w].pc = "release"
  /\ key' = IF keyed THEN NextState(key, ReleaseActiveSlot(key, worker[w].job, worker[w].token))
            ELSE key
  /\ Close(w, worker[w].then)
  /\ UNCHANGED <<lifecycle, broker, admin, late, mishaps, entries>>

\* Variant: the reservation goes, the obligation stays.
CleanupKeeping(w) ==
  /\ worker[w].pc = "cleanup"
  /\ key' = NextState(key, RemoveQueuedEntry(key, worker[w].job))
  /\ Step(w, "ack")
  /\ UNCHANGED <<lifecycle, broker, admin, late, mishaps, entries>>

Cleanup(w) ==
  /\ worker[w].pc = "cleanup"
  /\ key' = IF keyed THEN CleanupTerminal(key, worker[w].job).state ELSE key
  /\ Step(w, "ack")
  /\ UNCHANGED <<lifecycle, broker, admin, late, mishaps, entries>>

\* Dispose of the message: gone for good, or delivered again after a delay.
Dispose(w) ==
  LET m == <<worker[w].job, worker[w].run>>
  IN  /\ worker[w].pc \in {"ack", "retire", "nak"}
      /\ work' = IF worker[w].pc = "nak" THEN work ELSE work \ {m}
      /\ ready' = IF worker[w].pc = "nak" THEN ready \union ({m} \intersect work) ELSE ready \ {m}
      /\ worker' = [worker EXCEPT ![w] = Idle]
      /\ UNCHANGED <<lifecycle, key, admin, late, mishaps, entries>>

-----------------------------------------------------------------------------
(* What happens beside the worker loop. *)

\* The cancellation token of the attempt is registered and still looked at.
Attempting(w) == worker[w].pc \in {"acquire", "begin", "run", "guard", "publish"}

\* It is registered until the message is disposed of; work that is retired at once
\* never registers.
Registered(w) == Attempting(w) \/ worker[w].pc \in {"release", "cleanup", "ack", "nak"}

\* The renewal task, while the attempt holds a slot.
KeyHeartbeat(w) ==
  LET out == RenewActiveSlot(key, [job |-> worker[w].job, token |-> worker[w].token,
                                   lease |-> Fresh])
  IN  /\ Attempting(w) /\ worker[w].pc # "acquire"
      /\ keyed
      /\ key' = NextState(key, out)
      /\ worker' = [worker EXCEPT ![w].why = IF out.kind = "lost" THEN Cancelled(@, "lost") ELSE @]
      /\ UNCHANGED <<lifecycle, broker, admin, late, mishaps, entries>>

\* The cancellation listener of the host.
Notice(j) ==
  /\ j \in notices
  /\ notices' = notices \ {j}
  /\ worker' = [w \in Workers |->
                  IF Attempting(w) /\ worker[w].job = j
                  THEN [worker[w] EXCEPT !.why = Cancelled(@, "requested")] ELSE worker[w]]
  /\ pending' = IF \E w \in Workers : Registered(w) /\ worker[w].job = j
                THEN pending ELSE pending \union {j}
  /\ UNCHANGED <<lifecycle, broker, key, cancels, asked, ignored, late, mishaps, entries>>

\* The deadline of j passes; a handler that runs is told.
DeadlinePasses(j) ==
  /\ j \in Deadlines \ late
  /\ late' = late \union {j}
  /\ worker' = [w \in Workers |->
                  IF worker[w].pc = "run" /\ worker[w].job = j
                  THEN [worker[w] EXCEPT !.why = Cancelled(@, "deadline")] ELSE worker[w]]
  /\ UNCHANGED <<lifecycle, broker, key, admin, mishaps, entries>>

\* A worker is alive and renewing the lease of slot i.
Tended(i) == \E w \in Workers : worker[w].token = key.active[i].token

\* A lease runs out: nobody renews it, or its worker has stalled.
LeaseLapses(i) ==
  /\ i \in DOMAIN key.active
  /\ key.active[i].lease # Past
  /\ key' = [key EXCEPT !.active[i].lease = Past]
  /\ IF Tended(i) THEN Stall ELSE UNCHANGED mishaps
  /\ UNCHANGED <<lifecycle, broker, worker, admin, late, entries>>

\* The acknowledgement wait of a message runs out: its worker is gone or has stalled.
AckWaitLapses(m) ==
  /\ m \in work \ ready
  /\ ready' = ready \union {m}
  /\ IF \E w \in Workers : worker[w].job = m[1] /\ worker[w].run = m[2]
     THEN Stall ELSE UNCHANGED mishaps
  /\ UNCHANGED <<lifecycle, work, key, worker, admin, late, entries>>

\* A worker dies: its loop ends with an error of the publication, the coordinator or
\* the broker, or its thread is gone.
Crash(w) ==
  /\ worker[w].pc # "idle"
  /\ Fault
  /\ worker' = [worker EXCEPT ![w] = Idle]
  /\ UNCHANGED <<lifecycle, broker, key, admin, late, entries>>

\* The host stops, or a heartbeat fails: the attempt is told to leave.
Interrupt(w, reason) ==
  /\ worker[w].pc = "read" \/ Attempting(w)
  /\ reason \in Leaving
  /\ Fault
  /\ worker' = [worker EXCEPT ![w].why = Cancelled(@, reason)]
  /\ UNCHANGED <<lifecycle, broker, key, admin, late, entries>>

-----------------------------------------------------------------------------
(* Cancellation and replay from outside. *)

\* JobManager::cancel and Jobs.Cancel: the caller acts on the state it last saw.
Cancel(j, seen) ==
  LET state == IF seen = "current" THEN life[j].state ELSE seen
  IN  /\ asked < MaxCancels
      /\ state \in {"Pending", "Retry", "Active"}
      /\ Publish(j, Event("Cancelled", state, life[j].tries))
      /\ notices' = notices \union {j}
      /\ cancels' = cancels \union {[job |-> j, seen |-> state, token |-> started[j]]}
      /\ asked' = asked + 1
      /\ ignored' = IF life[j].state = state THEN ignored ELSE ignored \union {j}
      /\ UNCHANGED <<started, broker, key, worker, pending, late, mishaps, entries>>

\* cleanup_cancelled_keyed_job; Jobs.Cancel, or a caller that dies, leaves it out.
CancelCleanup(c, done) ==
  /\ c \in cancels
  /\ cancels' = cancels \ {c}
  /\ key' = IF ~done \/ ~keyed THEN key
            ELSE NextState(key, IF c.seen = "Active" THEN ReleaseActiveSlot(key, c.job, c.token)
                                ELSE RemoveQueuedEntry(key, c.job))
  /\ UNCHANGED <<lifecycle, broker, worker, asked, notices, pending, ignored, late, mishaps, entries>>

\* Jobs.Retry and Jobs.ReplayDLQ: a work message of its own and, if the caller is
\* not late, a new run.
Replay(j) ==
  LET ev == Event("Retried", life[j].state, 0)
      legal == life[j].state \in {"Failed", "Dead"}
      n == opened[j] + 1
  IN  /\ legal \/ opened[j] > 1
      /\ opened[j] < MaxRuns
      /\ life' = [life EXCEPT ![j] = ReduceJobEvent(@, ev)]
      /\ opened' = [opened EXCEPT ![j] = n]
      /\ run' = IF legal THEN [run EXCEPT ![j] = n] ELSE run
      /\ started' = IF legal THEN [started EXCEPT ![j] = NoToken] ELSE started
      /\ entries' = IF legal THEN [entries EXCEPT ![j] = 0] ELSE entries
      /\ work' = work \union {<<j, n>>}
      /\ ready' = ready \union {<<j, n>>}
      /\ UNCHANGED <<key, worker, admin, late, mishaps>>

\* Jobs.DismissDLQ.
Dismiss(j) ==
  /\ life[j].state = "Dead"
  /\ Publish(j, Event("Dismissed", "Dead", life[j].tries))
  /\ UNCHANGED <<started, broker, key, worker, admin, late, mishaps, entries>>

-----------------------------------------------------------------------------
Loop(w) ==
  \/ \E m \in ready : Receive(w, m)
  \/ Read(w) \/ Skip(w)
  \/ Acquire(w) \/ AcquireBlocked(w) \/ GiveBack(w) \/ AcquireUnkeyed(w)
  \/ BeginSettling(w) \/ BeginHandler(w)
  \/ \E result \in {"ok", "retryable", "failed"} : Finish(w, result)
  \/ Guard(w) \/ PublishTerminal(w) \/ Release(w) \/ Cleanup(w) \/ Dispose(w)

Beside ==
  \/ \E w \in Workers : KeyHeartbeat(w) \/ Crash(w)
  \/ \E w \in Workers, reason \in Leaving : Interrupt(w, reason)
  \/ \E j \in Jobs : Notice(j) \/ DeadlinePasses(j)
  \/ \E i \in 1..MaxActive : LeaseLapses(i)
  \/ \E m \in work : AckWaitLapses(m)

Outside ==
  \/ \E j \in Jobs, seen \in Snapshots : Cancel(j, seen)
  \/ \E c \in cancels, done \in BOOLEAN : CancelCleanup(c, done)
  \/ \E j \in Jobs : Replay(j) \/ Dismiss(j)

Next ==
  /\ (\E w \in Workers : Loop(w)) \/ Beside \/ Outside
  /\ UNCHANGED keyed

\* The worker loops run, handlers return, the broker redelivers, leases lapse.
Fairness ==
  /\ \A w \in Workers : WF_vars(Loop(w) /\ UNCHANGED keyed)
  /\ \A m \in Jobs \X (1..MaxRuns) : WF_vars(AckWaitLapses(m) /\ UNCHANGED <<stalls, keyed>>)
  /\ \A i \in 1..MaxActive : WF_vars(LeaseLapses(i) /\ UNCHANGED <<stalls, keyed>>)

Spec == Init /\ [][Next]_vars

FairSpec == Spec /\ Fairness

-----------------------------------------------------------------------------
\* The shape of the state; a worker that is not idle has a job.
TypeOK ==
  /\ life \in [Jobs -> [state : States, tries : Nat]]
  /\ key \in KeyState
  /\ ready \subseteq work /\ work \subseteq Jobs \X (1..MaxRuns)
  /\ \A w \in Workers : worker[w].pc # "idle" => worker[w].job \in Jobs
  /\ faults \in 0..MaxFaults /\ stalls \in 0..MaxStalls /\ asked \in 0..MaxCancels

\* No worker has stalled so far: every lease and every acknowledgement wait that ran
\* out belonged to a worker that was gone.
Steady == stalls = 0

\* Work is acknowledged only when its run is over.  A job that is not settled still
\* has its message, through crashes, shutdowns, failed cleanups and replays, unless
\* a cancellation that the lifecycle ignored stopped its worker.
WorkSettled ==
  Steady => \A j \in Jobs \ ignored : life[j].state \notin Terminal => <<j, run[j]>> \in work

\* The retry budget: a run of a job enters its handler without a reason to stop at
\* most MaxTries times; interrupted and crashed attempts count.
BudgetKept == Steady => \A j \in Jobs : entries[j] <= MaxTries

\* The concurrency limit holds for the handlers themselves, not only in the record:
\* at most MaxActive of them run on behalf of jobs that are not settled, until a job
\* is replayed: a worker with a settled run may then remove the slot of the new run.
HandlersBounded ==
  Steady /\ keyed /\ (\A j \in Jobs : run[j] = 1) =>
    Cardinality({w \in Workers : /\ worker[w].pc = "run"
                                 /\ worker[w].job \notin ignored
                                 /\ life[worker[w].job].state \notin Terminal}) <= MaxActive

\* A slot always has somebody to give it back: a worker that attempts the job, or a
\* message whose redelivery will.
NoOrphanSlot ==
  Steady => \A i \in DOMAIN key.active :
    LET slot == key.active[i]
    IN  \/ \E n \in 1..MaxRuns : <<slot.job, n>> \in work
        \/ \E w \in Workers : worker[w].token = slot.token

\* A job displaced from its slot owes a cleanup run, and its message stays until the
\* obligation is settled, through crashes and replays, as long as nobody cancels.
ObligationServed ==
  Steady /\ asked = 0 => \A j \in key.cleanup : <<j, run[j]>> \in work

\* What a worker publishes never changes a settled job: attempts that overlap, are
\* late or were cancelled lose against the first settlement.
SettlementKept ==
  [][\A j \in Jobs : life[j].state \in Terminal /\ life'[j] # life[j] =>
       Replay(j) \/ Dismiss(j)]_vars

\* Every job settles in the end: through crashes, deadlines, exhausted budgets, failed
\* cleanups and waits for a slot, as long as no ignored cancellation interferes.
EventuallySettled ==
  \A j \in Jobs :
    (life[j].state \notin Terminal /\ j \notin ignored) ~> (life[j].state \in Terminal)

-----------------------------------------------------------------------------
(* What the documents promise and the code does not keep. *)

\* "Expect a short delay before the state transitions to `cancelled`": a job whose
\* cancellation was published settles.
CancelTakesEffect == \A j \in Jobs : (j \in notices) ~> (life[j].state \in Terminal)
=============================================================================
