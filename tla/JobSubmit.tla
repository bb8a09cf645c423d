------------------------------ MODULE JobSubmit ------------------------------
(***************************************************************************)
(* Submission to a keyed queue (JobManager::submit_inner, manager.rs): a   *)
(* submitter reserves a place in the key record, publishes Skipped for the *)
(* job it replaced, publishes Created, and undoes the reservation when a   *)
(* publication fails.  Submitters run beside each other and beside the     *)
(* workers, which are reduced here to what meets a submission: JobWorker   *)
(* has them in full.  Two folds of the lifecycle stream are kept, the      *)
(* workers' and the projector's, and for some jobs the events themselves,  *)
(* which whoever holds the reference to the job waits on (JobRef::wait,    *)
(* NatsJobWaiter, runtime_ref.rs).                                         *)
(***************************************************************************)
EXTENDS JobKeyRecord, JobLifecycle, SequencesExt

CONSTANTS
  Awaited,        \* jobs whose submitter may wait for the outcome
  MaxFaults,      \* bound: failed calls and submitters that die
  MaxWaitFaults   \* the same bound where somebody waits

ASSUME SubmitAssumption ==
  /\ {MaxFaults, MaxWaitFaults} \subseteq Nat
  /\ Awaited \subseteq Jobs
  /\ {2, 4} \subseteq Times
  /\ Cardinality(Tokens) > MaxActive

Now == 2
Fresh == 4

VARIABLES
  life,       \* per job: the workers' fold of its lifecycle events
  shown,      \* per job: the projector's fold of the same events
  key,        \* the key record
  log,        \* per awaited job: its lifecycle events, if somebody waits
  wait,       \* per awaited job: the progress of JobRef::wait
  sub,        \* per job: its submitter's progress
  work,       \* jobs with a work message that is not acknowledged
  hand,       \* per job: the progress of the worker that has its message
  faults,     \* faults so far
  whenFull    \* the when_full policy of the queue; it never changes

views == <<life, shown, log>>
vars == <<views, key, sub, work, hand, wait, faults, whenFull>>

Init ==
  /\ life = [j \in Jobs |-> Absent] /\ shown = life
  /\ key = NewKeyState
  /\ sub = [j \in Jobs |-> [pc |-> "idle", replaced |-> NoJob]]
  /\ work = {} /\ hand = [j \in Jobs |-> "none"]
  /\ log = [j \in Awaited |-> <<>>]
  /\ wait \in [Awaited -> {[pc |-> "idle"], [pc |-> "never"]}]
  /\ faults = 0
  /\ whenFull \in WhenFull

-----------------------------------------------------------------------------
Waits(j) == wait[j].pc # "never"

Fault ==
  /\ faults < IF \E j \in Awaited : Waits(j) THEN MaxWaitFaults ELSE MaxFaults
  /\ faults' = faults + 1

\* The projector takes a terminal event for a job it has not seen as the job.
Shown(job, ev) ==
  IF job = Absent /\ EventState[ev.type] \in Terminal THEN Seed(ev) ELSE ReduceJobEvent(job, ev)

\* The stream takes the event.
Publish(j, ev) ==
  /\ life' = [life EXCEPT ![j] = ReduceJobEvent(@, ev)]
  /\ shown' = [shown EXCEPT ![j] = Shown(@, ev)]
  /\ log' = [k \in Awaited |-> IF k = j /\ Waits(k) THEN Append(log[k], ev) ELSE log[k]]

(***************************************************************************)
(* A confirmed publication: it succeeds, it fails, or the stream takes the *)
(* event and the confirmation is lost.                                     *)
(***************************************************************************)
Results == {"ok", "failed", "unconfirmed"}

Confirmed(result, j, ev) ==
  /\ IF result = "ok" THEN UNCHANGED faults ELSE Fault
  /\ IF result = "failed" THEN UNCHANGED views ELSE Publish(j, ev)

Goto(j, pc) == sub' = [sub EXCEPT ![j].pc = pc]

-----------------------------------------------------------------------------
(* submit_inner *)

Admit(j) ==
  LET out == AdmitJob(key, whenFull, j)
  IN  /\ sub[j].pc = "idle"
      /\ key' = NextState(key, out)
      /\ sub' = [sub EXCEPT ![j] =
           CASE out.kind = "accepted" -> [@ EXCEPT !.pc = "create"]
             [] out.kind = "replaced" -> [pc |-> "skip", replaced |-> Head(key.queued)]
             [] OTHER -> [@ EXCEPT !.pc = "refused"]]
      /\ UNCHANGED <<views, work, hand, faults, wait, whenFull>>

\* The write is made and its answer lost: the submitter gives up.
AdmitUnconfirmed(j) ==
  /\ sub[j].pc = "idle"
  /\ Fault
  /\ key' = NextState(key, AdmitJob(key, whenFull, j))
  /\ Goto(j, "error")
  /\ UNCHANGED <<views, work, hand, wait, whenFull>>

\* Variant: Skipped is published for the job that replaces.
PublishSkippedSelf(j, result) ==
  /\ sub[j].pc = "skip"
  /\ Confirmed(result, j, Event("Skipped", "Pending", 0))
  /\ Goto(j, IF result = "ok" THEN "create" ELSE "restore")
  /\ UNCHANGED <<key, work, hand, wait, whenFull>>

PublishSkipped(j, result) ==
  /\ sub[j].pc = "skip"
  /\ Confirmed(result, sub[j].replaced, Event("Skipped", "Pending", 0))
  /\ Goto(j, IF result = "ok" THEN "create" ELSE "restore")
  /\ UNCHANGED <<key, work, hand, wait, whenFull>>

\* The stream the workers consume is sourced from the lifecycle stream.
PublishCreated(j, result) ==
  /\ sub[j].pc = "create"
  /\ Confirmed(result, j, Event("Created", "None", 0))
  /\ work' = IF result = "failed" THEN work ELSE work \union {j}
  /\ Goto(j, IF result = "ok" THEN "accepted" ELSE "remove")
  /\ UNCHANGED <<key, hand, wait, whenFull>>

\* Variant: the replacement stays where it is.
RestoreBeside(j, done) ==
  /\ sub[j].pc = "restore"
  /\ done
  /\ key' = NextState(key, RestoreReplaced(key, sub[j].replaced, sub[j].replaced))
  /\ Goto(j, "error")
  /\ UNCHANGED <<views, work, hand, faults, wait, whenFull>>

\* restore_replaced_admission; a failure is not looked at.
Restore(j, done) ==
  /\ sub[j].pc = "restore"
  /\ key' = IF done THEN NextState(key, RestoreReplaced(key, sub[j].replaced, j)) ELSE key
  /\ IF done THEN UNCHANGED faults ELSE Fault
  /\ Goto(j, "error")
  /\ UNCHANGED <<views, work, hand, wait, whenFull>>

\* cleanup_queued_admission; a failure is not looked at.
Withdraw(j, done) ==
  /\ sub[j].pc = "remove"
  /\ key' = IF done THEN NextState(key, RemoveQueuedEntry(key, j)) ELSE key
  /\ IF done THEN UNCHANGED faults ELSE Fault
  /\ Goto(j, "error")
  /\ UNCHANGED <<views, work, hand, wait, whenFull>>

Submitting(j) == sub[j].pc \in {"skip", "create", "restore", "remove"}

Die(j) ==
  /\ Submitting(j)
  /\ Fault
  /\ Goto(j, "error")
  /\ UNCHANGED <<views, key, work, hand, wait, whenFull>>

-----------------------------------------------------------------------------
(* The workers, one at a time per message, without crashes or lapsed leases. *)

\* stream_work_decision; work that is settled is cleaned up and acknowledged.
Receive(j) ==
  /\ j \in work /\ hand[j] = "none"
  /\ IF life[j].state \in Terminal
     THEN /\ key' = CleanupTerminal(key, j).state
          /\ work' = work \ {j}
          /\ UNCHANGED hand
     ELSE /\ hand' = [hand EXCEPT ![j] = "acquire"]
          /\ UNCHANGED <<key, work>>
  /\ UNCHANGED <<views, sub, faults, wait, whenFull>>

\* Variant: only a job that is still in the queue may have a slot.
AcquireReserved(j) ==
  LET t == CHOOSE t \in Tokens : \A i \in DOMAIN key.active : key.active[i].token # t
      out == AcquireActiveSlot(key, [job |-> j, token |-> t, lease |-> Fresh], Now)
  IN  /\ hand[j] = "acquire" /\ IsQueued(key, j)
      /\ out.kind = "acquired"
      /\ key' = out.state
      /\ Publish(j, Event("Started", "Pending", 1))
      /\ hand' = [hand EXCEPT ![j] = "run"]
      /\ UNCHANGED <<sub, work, faults, wait, whenFull>>

\* The token tells a slot from the other slots, which is all that is asked of it here.
Acquire(j) ==
  LET t == CHOOSE t \in Tokens : \A i \in DOMAIN key.active : key.active[i].token # t
      out == AcquireActiveSlot(key, [job |-> j, token |-> t, lease |-> Fresh], Now)
  IN  /\ hand[j] = "acquire"
      /\ out.kind = "acquired"
      /\ key' = out.state
      /\ Publish(j, Event("Started", "Pending", 1))
      /\ hand' = [hand EXCEPT ![j] = "run"]
      /\ UNCHANGED <<sub, work, faults, wait, whenFull>>

\* The handler returns: Completed is published, the slot released, the message acknowledged.
Finish(j) ==
  /\ hand[j] = "run"
  /\ Publish(j, Event("Completed", "Active", 1))
  /\ key' = DropSlot(key, j)
  /\ work' = work \ {j}
  /\ hand' = [hand EXCEPT ![j] = "none"]
  /\ UNCHANGED <<sub, faults, wait, whenFull>>

-----------------------------------------------------------------------------
(***************************************************************************)
(* JobRef::wait: subscribe to the events of the job, look for a terminal   *)
(* event that is already in the stream, follow the subscription until one  *)
(* arrives, and return what the history says by then.                      *)
(***************************************************************************)

\* The job that submit returned.
Submitted == Seed(Event("Created", "None", 0))

\* apply_lifecycle_event: a terminal event counts also where the reducer rejects it.
ApplyLifecycleEvent(job, ev) ==
  LET next == ReduceJobEvent(job, ev)
  IN  IF next.state = job.state /\ EventState[ev.type] \in Terminal THEN Seed(ev) ELSE next

\* The subjects of latest_terminal_message in the order they are read, without those
\* that nobody here publishes to: reading them changes nothing.
TerminalTypes == <<"Completed", "Skipped">>

\* direct_get_last_for_subject: where in the stream the last such event is, 0 for none.
LastOf(events, type) ==
  Max({0} \union {i \in DOMAIN events : events[i].type = type})

Subscribe(j) ==
  /\ sub[j].pc = "accepted" /\ wait[j].pc = "idle"
  /\ wait' = [wait EXCEPT ![j] =
       [pc |-> "read", heard |-> Len(log[j]), subject |-> 1, latest |-> 0]]
  /\ UNCHANGED <<views, key, sub, work, hand, faults, whenFull>>

\* Variant: the subscription is made after the stream was read.
ReadTerminalFirst(j) ==
  LET w == wait[j]
      latest == Max({w.latest, LastOf(log[j], TerminalTypes[w.subject])})
  IN  /\ w.pc = "read"
      /\ wait' = [wait EXCEPT ![j] =
           IF w.subject < Len(TerminalTypes)
           THEN [w EXCEPT !.subject = @ + 1, !.latest = latest]
           ELSE IF latest > 0 THEN [pc |-> "get"]
           ELSE [pc |-> "live", heard |-> Len(log[j]), job |-> Submitted]]
      /\ UNCHANGED <<views, key, sub, work, hand, faults, whenFull>>

\* One read per subject; the events published meanwhile wait in the subscription.
ReadTerminal(j) ==
  LET w == wait[j]
      latest == Max({w.latest, LastOf(log[j], TerminalTypes[w.subject])})
  IN  /\ w.pc = "read"
      /\ wait' = [wait EXCEPT ![j] =
           IF w.subject < Len(TerminalTypes)
           THEN [w EXCEPT !.subject = @ + 1, !.latest = latest]
           ELSE IF latest > 0 THEN [pc |-> "get"]
           ELSE [pc |-> "live", heard |-> w.heard, job |-> Submitted]]
      /\ UNCHANGED <<views, key, sub, work, hand, faults, whenFull>>

\* Variant: any change of the state ends the wait.
FollowAny(j) ==
  LET w == wait[j]
      job == ApplyLifecycleEvent(w.job, log[j][w.heard + 1])
  IN  /\ w.pc = "live" /\ w.heard < Len(log[j])
      /\ wait' = [wait EXCEPT ![j] =
           IF job # w.job THEN [pc |-> "get"] ELSE [w EXCEPT !.heard = @ + 1]]
      /\ UNCHANGED <<views, key, sub, work, hand, faults, whenFull>>

Follow(j) ==
  LET w == wait[j]
      job == ApplyLifecycleEvent(w.job, log[j][w.heard + 1])
  IN  /\ w.pc = "live" /\ w.heard < Len(log[j])
      /\ wait' = [wait EXCEPT ![j] =
           IF job.state \in Terminal THEN [pc |-> "get"]
           ELSE [w EXCEPT !.heard = @ + 1, !.job = job]]
      /\ UNCHANGED <<views, key, sub, work, hand, faults, whenFull>>

TimeOut(j) ==
  /\ wait[j].pc = "live"
  /\ wait' = [wait EXCEPT ![j] = [pc |-> "timed out"]]
  /\ UNCHANGED <<views, key, sub, work, hand, faults, whenFull>>

\* NatsJobWaiter::get folds the history at one watermark of the stream.
Get(j) ==
  /\ wait[j].pc = "get"
  /\ wait' = [wait EXCEPT ![j] =
       [pc |-> "done", state |-> FoldLeft(ApplyLifecycleEvent, Submitted, log[j]).state]]
  /\ UNCHANGED <<views, key, sub, work, hand, faults, whenFull>>

-----------------------------------------------------------------------------
Submit(j) ==
  \/ \E result \in Results : PublishSkipped(j, result) \/ PublishCreated(j, result)
  \/ \E done \in BOOLEAN : Restore(j, done) \/ Withdraw(j, done)

Work(j) == Receive(j) \/ Acquire(j) \/ Finish(j)

Awaits(j) == ReadTerminal(j) \/ Follow(j) \/ Get(j)

Next ==
  \E j \in Jobs :
    \/ Admit(j) \/ AdmitUnconfirmed(j)
    \/ Submit(j) \/ Die(j)
    \/ Work(j)
    \/ j \in Awaited /\ (Subscribe(j) \/ Awaits(j) \/ TimeOut(j))

\* A submitter goes on once it has begun; messages are delivered and handlers return;
\* a subscription delivers what was published after it.
Fairness ==
  /\ \A j \in Jobs : WF_vars(Submit(j)) /\ WF_vars(Work(j))
  /\ \A j \in Awaited : WF_vars(Awaits(j))

Spec == Init /\ [][Next]_vars /\ Fairness

-----------------------------------------------------------------------------
\* The shape of the state.
TypeOK ==
  /\ key \in KeyState
  /\ \A j \in Jobs : life[j] = Absent \/ life[j].state \in States
  /\ \A j \in Jobs : sub[j].pc \in {"skip", "restore"} => sub[j].replaced \in Jobs
  /\ work \subseteq Jobs
  /\ \A j \in Awaited : wait[j].pc = "read" => wait[j].subject \in DOMAIN TerminalTypes
  /\ faults \in 0..Max({MaxFaults, MaxWaitFaults})

\* Somebody will remove j from the queue: its submitter, or the worker of its message.
Owned(j) == Submitting(j) \/ j \in work

\* A failed call or a dead submitter leaves at most one place in the queue that nobody
\* will ever give back, whatever replaced what and whatever ran meanwhile.
LeaksBounded == Cardinality({j \in Jobs : IsQueued(key, j) /\ ~Owned(j)}) <= faults

\* Every job that was let in settles, also one that was taken out of the queue again
\* while its Skipped event got lost, came before its Created event, or came too late.
AcceptedSettles ==
  \A j \in Jobs : []<>(sub[j].pc = "accepted" => life[j].state \in Terminal)

\* The projected view of a job departs from the state the workers act on only by calling
\* a replaced job skipped: its Skipped event came before its Created event, which the
\* projector takes for the whole job and the workers ignore.
ViewHonest ==
  \A j \in Jobs : life[j] # Absent /\ shown[j].state # life[j].state =>
    shown[j].state = "Skipped" /\ \E k \in Jobs : sub[k].replaced = j

\* What JobRef::wait returns is the state the job has settled in.  Only the reference of
\* a replaced job may say otherwise: the Skipped event of a job and the events of the
\* worker that has it meet in the stream, the workers heed the first and the reference
\* the last that is terminal.
WaitHonest ==
  \A j \in Awaited : wait[j].pc = "done" =>
    /\ wait[j].state \in Terminal
    /\ wait[j].state # life[j].state => \E k \in Jobs : sub[k].replaced = j

\* No terminal event falls between the reads of the stream and the subscription:
\* whoever waits for an accepted job is answered, though nobody publishes again.
WaitAnswered == \A j \in Awaited : []<>(wait[j].pc \in {"never", "idle", "done", "timed out"})
=============================================================================
