------------------------------ MODULE Operations ------------------------------
(***************************************************************************)
(* A durable operation of a service with several replicas                  *)
(* (crates/trellis/src/service/operations.rs, operation_repository.rs):    *)
(* callers start, cancel and signal it, a replica claims it for one owner  *)
(* epoch, runs the handler under a renewed lease and settles it, and any   *)
(* replica recovers it when its lease has expired.                         *)
(*                                                                         *)
(* One invocation is followed.  Its record is in a KV bucket whose updates *)
(* compare revisions.  The revision itself is not kept: an execution that  *)
(* has read the record keeps whether anything was written since (fresh).   *)
(* Time is kept as the set of replicas whose clock has passed the expiry   *)
(* of the lease; their clocks need not agree.                              *)
(***************************************************************************)
EXTENDS Integers, FiniteSets

CONSTANTS
  Executors,    \* the replicas of the service
  Loads,        \* the operations and their callers: records of the kind of operation and of
                \* the bounds on start requests, repeated ones included, signals and claims
  MaxFaults     \* bound: crashes, stalls, failed or unanswered storage requests,
                \* handlers that fail to clean up or forget to settle

ASSUME OperationsAssumption ==
  /\ Loads \subseteq [kind : {"plain", "upload", "stream"}, starts : Nat, signals : Nat, claims : Nat]
  /\ MaxFaults \in Nat

VARIABLES
  load,       \* the kind of the operation (its descriptor) and its callers: chosen once
  record,     \* the durable record, NoRecord before the first start
  expired,    \* replicas that see the lease expired
  exec,       \* per epoch: the execution that claimed it
  starters,   \* replicas that answer a start request, before their claim
  listed,     \* replicas whose recovery loop has listed the operation
  staged,     \* staging keys with an object
  starts,     \* start requests so far
  faults      \* faults so far

vars == <<load, record, expired, exec, starters, listed, staged, starts, faults>>

Epochs == 1..load.claims
kind == load.kind
NoKey == -1

Terminal == {"Completed", "Failed", "Cancelled"}
States == {"Pending", "Running"} \union Terminal

NoRecord ==
  [state |-> "none", epoch |-> 0, cancel |-> FALSE, upload |-> "none", key |-> 0,
   signals |-> 0, acked |-> 0]

NoExec == [pc |-> "none", host |-> CHOOSE e \in Executors : TRUE, write |-> "none",
           fresh |-> FALSE, key |-> NoKey, old |-> NoKey, wit |-> FALSE, retired |-> FALSE]

Init ==
  /\ load \in Loads
  /\ record = NoRecord /\ expired = {}
  /\ exec = [n \in Epochs |-> NoExec]
  /\ starters = {} /\ listed = {} /\ staged = {} /\ starts = 0 /\ faults = 0

-----------------------------------------------------------------------------
(* The record and its fence. *)

Exists == record.state # "none"
Live == Exists /\ record.state \notin Terminal

\* OwnerFence::matches, on the record as it is and the clock of the execution's replica.
Owned(n) ==
  /\ ~exec[n].retired
  /\ record.epoch = n
  /\ exec[n].host \notin expired

\* The provider's mutation gate: one at a time reads, checks and writes.
GateFree(e) ==
  \A n \in Epochs :
    exec[n].host = e => /\ exec[n].write \in {"none", "uploading"}
                        /\ exec[n].pc # "removing"

Fault == faults < MaxFaults /\ faults' = faults + 1

\* A write of the record: what was read before is outdated.
Put(r, x) ==
  /\ record' = r
  /\ exec' = [n \in Epochs |-> [x[n] EXCEPT !.fresh = FALSE]]

Goto(n, pc) == exec' = [exec EXCEPT ![n].pc = pc]

\* An execution that has ended keeps nothing.
Gone == [NoExec EXCEPT !.pc = "gone"]

End(n) == exec' = [exec EXCEPT ![n] = Gone]

Continue(n, pc) == IF pc = "gone" THEN End(n) ELSE Goto(n, pc)

-----------------------------------------------------------------------------
(* Callers: start, cancel, signal. *)

NewRecord(cancelled) ==
  [NoRecord EXCEPT !.state = "Pending", !.cancel = cancelled,
     !.upload = IF cancelled \/ kind = "plain" THEN "none"
                ELSE IF kind = "stream" THEN "streaming" ELSE "pending"]

\* start_invocation up to repository.create: the first start creates the record, a
\* repeated one finds it; a cancelled admission adds the cancellation.
Create(e, cancelled) ==
  /\ starts < load.starts /\ starts' = starts + 1
  /\ e \notin starters /\ starters' = starters \union {e}
  /\ IF ~Exists
     THEN record' = NewRecord(cancelled) /\ UNCHANGED exec
     ELSE IF cancelled /\ ~record.cancel /\ Live
          THEN Put([record EXCEPT !.cancel = TRUE], exec)
          ELSE UNCHANGED <<record, exec>>
  /\ UNCHANGED <<load, expired, listed, staged, faults>>

\* cancel: the intent is recorded by revision; a lost race is an error to the caller.
Cancel(e) ==
  /\ Live /\ ~record.cancel /\ GateFree(e)
  /\ Put([record EXCEPT !.cancel = TRUE], exec)
  /\ UNCHANGED <<load, expired, starters, listed, staged, starts, faults>>

\* Variant: the state of the operation is not looked at.
SignalAnyState(e) ==
  /\ Exists /\ GateFree(e)
  /\ record.signals < load.signals
  /\ Put([record EXCEPT !.signals = @ + 1], exec)
  /\ UNCHANGED <<load, expired, starters, listed, staged, starts, faults>>

\* signal: appended under the next sequence number.
Signal(e) ==
  /\ Live /\ GateFree(e)
  /\ record.signals < load.signals
  /\ Put([record EXCEPT !.signals = @ + 1], exec)
  /\ UNCHANGED <<load, expired, starters, listed, staged, starts, faults>>

-----------------------------------------------------------------------------
(* Claims. *)

Claimable(e) == Live /\ (record.epoch = 0 \/ e \in expired) /\ record.epoch < load.claims

\* Where a claim by a start request goes on.
StartPc ==
  IF record.cancel THEN "admit"
  ELSE CASE kind = "plain" -> "run"
         [] kind = "stream" ->
              IF record.epoch > 0 \/ record.upload # "streaming" THEN "interrupt" ELSE "run"
         [] OTHER -> IF record.upload = "committed" THEN "run" ELSE "stage"

\* Variant: an interrupted stream is run again.
RecoverPcAgain ==
  CASE kind # "upload" \/ record.upload = "none" -> "admit"
    [] record.upload = "committed" -> "verify"
    [] OTHER -> "settle"

\* Where a claim by the recovery loop goes on.  A stream is an upload too: a cancelled
\* one has a transfer to settle, unless it was cancelled on admission.
RecoverPc ==
  CASE kind = "stream" /\ ~record.cancel -> "interrupt"
    [] kind = "plain" \/ record.upload = "none" -> "admit"
    [] record.upload = "committed" -> "verify"
    [] OTHER -> "settle"

\* The execution a claim creates, with the record it has just written.
Claimed(e, pc) ==
  IF pc = "gone" THEN Gone
  ELSE [NoExec EXCEPT !.pc = pc, !.host = e, !.fresh = (pc = "stage"),
     !.write = IF pc = "stage" THEN "uploading" ELSE "none",
     !.key = IF pc \in {"stage", "settle"} THEN record.key ELSE NoKey]

\* claim_for_connection: the next epoch, a new lease.
Claim(e, pc) ==
  LET n == record.epoch + 1
  IN /\ record' = [record EXCEPT !.epoch = n]
     /\ expired' = {}
     /\ exec' = [m \in Epochs |-> IF m = n THEN Claimed(e, pc)
                                  ELSE [exec[m] EXCEPT !.fresh = FALSE]]

\* A start request claims, or reports the operation as accepted if somebody else has it.
StartClaim(e) ==
  /\ e \in starters /\ starters' = starters \ {e}
  /\ IF Claimable(e) THEN Claim(e, StartPc) ELSE UNCHANGED <<record, expired, exec>>
  /\ UNCHANGED <<load, listed, staged, starts, faults>>

\* Variant: a failed upload waits for its caller also when it is cancelled.
ListValid(e) ==
  /\ e \notin listed /\ Claimable(e)
  /\ ~(kind = "upload" /\ record.upload = "invalid")
  /\ listed' = listed \union {e}
  /\ UNCHANGED <<load, record, expired, exec, starters, staged, starts, faults>>

\* The recovery loop lists the operations whose lease has expired; an upload that
\* failed waits for its caller.
List(e) ==
  /\ e \notin listed /\ Claimable(e)
  /\ ~(kind = "upload" /\ ~record.cancel /\ record.upload = "invalid")
  /\ listed' = listed \union {e}
  /\ UNCHANGED <<load, record, expired, exec, starters, staged, starts, faults>>

RecoverClaim(e) ==
  /\ e \in listed /\ listed' = listed \ {e}
  /\ IF Claimable(e) THEN Claim(e, RecoverPc) ELSE UNCHANGED <<record, expired, exec>>
  /\ UNCHANGED <<load, starters, staged, starts, faults>>

\* The claim is written and its answer lost: the next try finds an active lease.
ClaimLost(e) ==
  /\ Fault /\ Claimable(e)
  /\ \/ e \in starters /\ starters' = starters \ {e} /\ UNCHANGED listed
     \/ e \in listed /\ listed' = listed \ {e} /\ UNCHANGED starters
  /\ Claim(e, "gone")
  /\ UNCHANGED <<load, staged, starts>>

-----------------------------------------------------------------------------
(* Fenced writes: read and check under the gate, then compare and exchange. *)

\* Variant: a requested cancellation does not stop other writes.
AdmissibleCancelled(n, write) ==
  /\ Owned(n) /\ Live
  /\ write = "Cancelled" => record.cancel

\* What the read must show, and compare_exchange checks again: only a cancellation may
\* follow a request for it.
Admissible(n, write) ==
  /\ Owned(n) /\ Live
  /\ (write = "Cancelled") = record.cancel

Begin(n, write) ==
  /\ exec[n].write = "none" /\ GateFree(exec[n].host)
  /\ Admissible(n, write)
  /\ exec' = [exec EXCEPT ![n].write = write, ![n].fresh = TRUE]

\* The record an execution of epoch n writes.
Updated(n) ==
  LET write == exec[n].write
  IN CASE write = "request" -> [record EXCEPT !.cancel = TRUE]
       [] write = "ack" -> [record EXCEPT !.acked = @ + 1]
       [] write = "checkpoint" -> record
       [] write = "committed" ->
            [record EXCEPT !.state = "Running",
               !.upload = IF kind = "stream" THEN "streamed" ELSE "committed"]
       [] write = "uploading" ->
            [record EXCEPT !.upload = "uploading",
               !.key = IF record.upload = "pending" THEN @ ELSE n]
       [] write = "invalid" -> [record EXCEPT !.upload = "invalid"]
       [] OTHER -> [record EXCEPT !.state = write]

\* Where the execution goes on when its write succeeded, or failed.
After(n, ok) ==
  CASE exec[n].pc = "run" -> IF ok THEN "admit" ELSE "refused"
    [] exec[n].pc = "stage" ->
         IF ~ok THEN "gone" ELSE IF record.upload = "pending" THEN "upload" ELSE "replace"
    [] exec[n].pc = "upload" -> IF ok THEN "upload" ELSE "settle"
    [] exec[n].pc = "stored" -> "settle"
    [] exec[n].pc = "cleanup" -> IF ok THEN "gone" ELSE "recheck"
    [] exec[n].pc \in {"interrupt", "settle", "failing", "cleanup2"} -> "gone"
    [] OTHER -> exec[n].pc

Answered(n, ok) ==
  LET pc == After(n, ok)
  IN [exec EXCEPT ![n] =
        IF pc = "gone" THEN Gone
        ELSE [@ EXCEPT !.pc = pc, !.write = "none", !.fresh = FALSE,
                !.wit = @ \/ (ok /\ exec[n].write \in Terminal),
                !.key = IF pc = "replace" THEN n ELSE @,
                !.old = IF pc = "replace" THEN record.key ELSE @]]

\* Variant: the write does not compare the revision it was read at.
ExchangeBlind(n) ==
  /\ exec[n].write # "none"
  /\ Put(Updated(n), Answered(n, TRUE))
  /\ expired' = IF exec[n].write = "invalid" THEN expired \union {exec[n].host} ELSE expired
  /\ UNCHANGED <<load, starters, listed, staged, starts, faults>>

\* compare_exchange succeeds if nothing was written since the read.  An upload that is
\* given up ends its lease at once.
Exchange(n) ==
  /\ exec[n].write # "none" /\ exec[n].fresh
  /\ Put(Updated(n), Answered(n, TRUE))
  /\ expired' = IF exec[n].write = "invalid" THEN expired \union {exec[n].host} ELSE expired
  /\ UNCHANGED <<load, starters, listed, staged, starts, faults>>

\* It fails if the record was written or, to this replica, the lease has expired.
ExchangeFails(n) ==
  /\ exec[n].write # "none"
  /\ ~exec[n].fresh \/ exec[n].host \in expired
  /\ exec' = Answered(n, FALSE)
  /\ UNCHANGED <<load, record, expired, starters, listed, staged, starts, faults>>

\* The write is applied and its answer lost.
ExchangeLost(n) ==
  /\ Fault
  /\ exec[n].write # "none" /\ exec[n].fresh
  /\ Put(Updated(n), Answered(n, FALSE))
  /\ expired' = IF exec[n].write = "invalid" THEN expired \union {exec[n].host} ELSE expired
  /\ UNCHANGED <<load, starters, listed, staged, starts>>

-----------------------------------------------------------------------------
(* From the claim to the handler. *)

\* The writes that the steps of an execution make: durable_snapshot_update,
\* fail_interrupted_stream and finalize_cancellation.
OwnWrite(n) ==
  CASE exec[n].pc = "run" -> "Running"
    [] exec[n].pc \in {"interrupt", "failing"} -> "Failed"
    [] OTHER -> "Cancelled"

Writing == {"run", "interrupt", "failing", "cleanup", "cleanup2"}

Update(n) ==
  /\ exec[n].pc \in Writing
  /\ exec[n].write = "none" /\ GateFree(exec[n].host)
  /\ IF Admissible(n, OwnWrite(n)) THEN Begin(n, OwnWrite(n)) ELSE exec' = Answered(n, FALSE)
  /\ UNCHANGED <<load, record, expired, starters, listed, staged, starts, faults>>

\* A plain start goes on although it could not set Running, if that is because of a
\* cancellation; otherwise the caller gets the error.
Refused(n) ==
  /\ exec[n].pc = "refused"
  /\ Continue(n, IF kind = "plain" /\ record.cancel /\ Owned(n) THEN "admit" ELSE "gone")
  /\ UNCHANGED <<load, record, expired, starters, listed, staged, starts, faults>>

\* Recovery of a committed upload compares the record with the staged object.
Verify(n) ==
  /\ exec[n].pc = "verify"
  /\ Continue(n, IF record.key \in staged THEN "admit" ELSE "gone")
  /\ UNCHANGED <<load, record, expired, starters, listed, staged, starts, faults>>

\* resume, admit_operation_execution: the fence is checked before the setup and, in the
\* spawned task, again before the handler.  A refused upload gives its lease back.
Admit(n) ==
  /\ exec[n].pc \in {"admit", "admitUpload", "enter"}
  /\ GateFree(exec[n].host)
  /\ Continue(n, IF ~(Owned(n) /\ Live) THEN IF exec[n].pc = "admitUpload" THEN "release" ELSE "gone"
                 ELSE IF exec[n].pc = "enter" THEN "handler" ELSE "enter")
  /\ UNCHANGED <<load, record, expired, starters, listed, staged, starts, faults>>

\* The setup between the two fails.
SetupFails(n) ==
  /\ Fault
  /\ exec[n].pc \in {"admit", "admitUpload"}
  /\ Continue(n, IF exec[n].pc = "admitUpload" THEN "release" ELSE "gone")
  /\ UNCHANGED <<load, record, expired, starters, listed, staged, starts>>

\* The lease is renewed to end in a millisecond.
Release(n) ==
  /\ exec[n].pc = "release" /\ GateFree(exec[n].host)
  /\ IF Owned(n) /\ Live
     THEN Put(record, [exec EXCEPT ![n] = Gone]) /\ expired' = Executors
     ELSE End(n) /\ UNCHANGED <<record, expired>>
  /\ UNCHANGED <<load, starters, listed, staged, starts, faults>>

-----------------------------------------------------------------------------
(* Uploads. *)

\* The attempt has a key of its own; the object of the one before is removed.
Replace(n) ==
  /\ exec[n].pc = "replace"
  /\ staged' = staged \ {exec[n].old}
  /\ exec' = [exec EXCEPT ![n].pc = "upload", ![n].old = NoKey]
  /\ UNCHANGED <<load, record, expired, starters, listed, starts, faults>>

\* coalesce_operation_upload_progress records how far the transfer is; where it may
\* not, the transfer fails.
Checkpoint(n) ==
  /\ exec[n].pc = "upload" /\ Begin(n, "checkpoint")
  /\ UNCHANGED <<load, record, expired, starters, listed, staged, starts, faults>>

\* The endpoint has received and stored the object ...
Store(n) ==
  /\ exec[n].pc = "upload" /\ exec[n].write = "none"
  /\ staged' = staged \union {exec[n].key}
  /\ Goto(n, "stored")
  /\ UNCHANGED <<load, record, expired, starters, listed, starts, faults>>

\* ... and persist_operation_upload records it.
Persist(n) ==
  /\ exec[n].pc = "stored" /\ exec[n].write = "none" /\ GateFree(exec[n].host)
  /\ IF Admissible(n, "committed") THEN Begin(n, "committed") ELSE Goto(n, "settle")
  /\ UNCHANGED <<load, record, expired, starters, listed, staged, starts, faults>>

\* The transfer fails, or is stopped for a cancellation or a lost fence; the object may
\* have been stored.
TransferFails(n) ==
  /\ exec[n].pc \in {"upload", "stored"} /\ exec[n].write = "none"
  /\ Goto(n, "settle")
  /\ UNCHANGED <<load, record, expired, starters, listed, staged, starts, faults>>

\* settle_operation_upload, the first read: a committed upload is run.  A stream has no
\* staging key, and the object store refuses a request without one.
Settle(n) ==
  /\ exec[n].pc = "settle" /\ exec[n].write = "none" /\ GateFree(exec[n].host)
  /\ IF record.upload = "committed" /\ record.key = exec[n].key
     THEN Continue(n, IF Owned(n) /\ Live THEN "admitUpload" ELSE "gone")
     ELSE Continue(n, IF kind = "stream" THEN "gone" ELSE "removing")
  /\ UNCHANGED <<load, record, expired, starters, listed, staged, starts, faults>>

\* Any other upload has its object removed; then, after the second read, a cancelled
\* operation is run for its cleanup and an upload that is still this one is given up.
Remove(n) ==
  /\ exec[n].pc = "removing"
  /\ staged' = staged \ {exec[n].key}
  /\ IF ~(Owned(n) /\ Live /\ record.key = exec[n].key) THEN End(n)
     ELSE IF record.cancel THEN Goto(n, "admitUpload")
     ELSE exec' = [exec EXCEPT ![n].pc = "settle", ![n].write = "invalid", ![n].fresh = TRUE]
  /\ UNCHANGED <<load, record, expired, starters, listed, starts, faults>>

-----------------------------------------------------------------------------
(* The handler and its supervision. *)

Running(n) == exec[n].pc \in {"handler", "draining"}

\* The handler reports progress, settles the operation, requests its cancellation or
\* acknowledges a signal; beside it the end of a stream is recorded.
HandlerCall(n, write) ==
  /\ Running(n)
  /\ write = "ack" => record.acked < record.signals
  /\ write = "committed" => kind = "stream" /\ record.upload = "streaming"
  /\ Begin(n, write)
  /\ UNCHANGED <<load, record, expired, starters, listed, staged, starts, faults>>

\* The lease is renewed every ten seconds while the handler is attended, or the upload
\* goes on.
Renewing(n) ==
  exec[n].pc \in {"handler", "upload", "stored", "settle", "removing", "admitUpload"}

Renew(n) ==
  /\ Renewing(n) /\ GateFree(exec[n].host)
  /\ Owned(n) /\ Live /\ expired # {}
  /\ Put(record, exec) /\ expired' = {}
  /\ UNCHANGED <<load, starters, listed, staged, starts, faults>>

\* The watch or a renewal shows that the fence no longer holds, or the operation is
\* settled: the handler is told and only waited for.
Drain(n) ==
  /\ exec[n].pc = "handler" /\ ~(Owned(n) /\ Live)
  /\ Goto(n, "draining")
  /\ UNCHANGED <<load, record, expired, starters, listed, staged, starts, faults>>

\* The watch fails or ends.
WatchFails(n) ==
  /\ Fault
  /\ exec[n].pc = "handler" /\ Goto(n, "draining")
  /\ UNCHANGED <<load, record, expired, starters, listed, staged, starts>>

\* The handler returns Ok when it has settled the operation or was told to stop.
ReturnOk(n) ==
  /\ Running(n) /\ exec[n].write = "none"
  /\ exec[n].wit \/ record.cancel \/ exec[n].pc = "draining"
  /\ Continue(n, IF exec[n].pc = "draining" THEN "gone" ELSE "returned")
  /\ UNCHANGED <<load, record, expired, starters, listed, staged, starts, faults>>

\* It returns an error.
ReturnErr(n) ==
  /\ Running(n) /\ exec[n].write = "none" /\ ~record.cancel
  /\ Continue(n, IF exec[n].pc = "draining" THEN "gone" ELSE "failed")
  /\ UNCHANGED <<load, record, expired, starters, listed, staged, starts, faults>>

\* It returns Ok with the operation unsettled, or an error where it was to clean up.
ReturnBadly(n) ==
  /\ Fault
  /\ exec[n].pc = "handler" /\ exec[n].write = "none"
  /\ Goto(n, IF record.cancel THEN "failed" ELSE "returned")
  /\ UNCHANGED <<load, record, expired, starters, listed, staged, starts>>

\* After the handler: a read decides whether a cancellation is to be settled, the
\* handler's error recorded, or nothing done; a failed cleanup leaves the request.
Returned(n) ==
  /\ exec[n].pc \in {"returned", "failed"}
  /\ Continue(n, CASE exec[n].pc = "returned" -> IF record.cancel THEN "cleanup" ELSE "recheck"
                   [] OTHER -> IF record.cancel THEN "gone" ELSE "failing")
  /\ UNCHANGED <<load, record, expired, starters, listed, staged, starts, faults>>

\* A cancellation may have come after that read.
Recheck(n) ==
  /\ exec[n].pc = "recheck"
  /\ Continue(n, IF ~exec[n].wit /\ record.cancel THEN "cleanup2" ELSE "gone")
  /\ UNCHANGED <<load, record, expired, starters, listed, staged, starts, faults>>

-----------------------------------------------------------------------------
(* Faults and time. *)

\* A read of the record fails.  Behind the fence (OwnerFence::read) it retires the fence:
\* nothing is written with it any more.  The reads after the handler count as no
\* cancellation.
ReadFails(n) ==
  /\ Fault
  /\ exec[n].write = "none" /\ GateFree(exec[n].host)
  /\ CASE Running(n) -> exec' = [exec EXCEPT ![n].retired = TRUE]
       [] exec[n].pc \in Writing ->
            exec' = [Answered(n, FALSE) EXCEPT ![n].retired = After(n, FALSE) # "gone"]
       [] exec[n].pc = "returned" -> Goto(n, "recheck")
       [] exec[n].pc = "failed" -> Goto(n, "failing")
       [] exec[n].pc \in {"admit", "admitUpload", "enter", "settle", "recheck"} -> End(n)
       [] OTHER -> FALSE
  /\ UNCHANGED <<load, record, expired, starters, listed, staged, starts>>

\* A replica dies with everything it runs, and is started again.
Crash(e) ==
  /\ Fault
  /\ exec' = [n \in Epochs |-> IF exec[n].host = e /\ exec[n].pc # "none" THEN Gone ELSE exec[n]]
  /\ starters' = starters \ {e} /\ listed' = listed \ {e}
  /\ UNCHANGED <<load, record, expired, staged, starts>>

\* The clock of e passes the expiry of the lease, which nobody renews any more ...
Expire(e) ==
  /\ Live /\ record.epoch > 0 /\ e \notin expired
  /\ exec[record.epoch].pc \in {"gone", "draining"}
  /\ expired' = expired \union {e}
  /\ UNCHANGED <<load, record, exec, starters, listed, staged, starts, faults>>

\* ... or whose owner is too slow, or behind.
Stall(e) ==
  /\ Fault
  /\ Live /\ record.epoch > 0 /\ e \notin expired
  /\ exec[record.epoch].pc \notin {"gone", "draining"}
  /\ expired' = expired \union {e}
  /\ UNCHANGED <<load, record, exec, starters, listed, staged, starts>>

-----------------------------------------------------------------------------
Call(e) == (\E c \in BOOLEAN : Create(e, c)) \/ Cancel(e) \/ Signal(e)

Take(e) == StartClaim(e) \/ List(e) \/ RecoverClaim(e)

\* The steps an execution takes without its handler.
Proceed(n) ==
  \/ Exchange(n) \/ ExchangeFails(n)
  \/ Update(n) \/ Refused(n) \/ Verify(n) \/ Admit(n) \/ Release(n)
  \/ Replace(n) \/ Store(n) \/ Persist(n) \/ TransferFails(n) \/ Settle(n) \/ Remove(n)
  \/ Drain(n) \/ Returned(n) \/ Recheck(n)

Return(n) == ReturnOk(n) \/ ReturnErr(n)

Handler(n) ==
  \/ Return(n) \/ Checkpoint(n) \/ Renew(n)
  \/ \E w \in {"Running", "Completed", "Failed", "request", "ack", "committed"} : HandlerCall(n, w)

Mishap ==
  \/ \E e \in Executors : Crash(e) \/ Stall(e) \/ ClaimLost(e)
  \/ \E n \in Epochs : ExchangeLost(n) \/ SetupFails(n) \/ WatchFails(n) \/ ReturnBadly(n) \/ ReadFails(n)

Next ==
  \/ \E e \in Executors : Call(e) \/ Take(e) \/ Expire(e)
  \/ \E n \in Epochs : Proceed(n) \/ Handler(n)
  \/ Mishap

Spec == Init /\ [][Next]_vars

Advance ==
  \/ \E e \in Executors : Take(e) \/ Expire(e)
  \/ \E n \in Epochs : Proceed(n)

\* Replicas keep looking for operations to recover, tasks and clocks go on, handlers
\* return (between calls of their own).  Callers need do nothing.
Fairness == WF_vars(Advance) /\ SF_vars(\E n \in Epochs : Return(n))

FairSpec == Spec /\ Fairness

-----------------------------------------------------------------------------
(* Properties. *)

\* The record, the executions and the staging store have their types.
TypeOK ==
  /\ record.state \in States \union {"none"} /\ record.epoch \in 0..load.claims
  /\ record.cancel \in BOOLEAN /\ record.key \in 0..load.claims
  /\ record.upload \in {"none", "pending", "uploading", "committed", "invalid", "streaming", "streamed"}
  /\ record.acked \in 0..record.signals
  /\ \A n \in Epochs : (exec[n].pc = "none") = (n > record.epoch)
  /\ \A e \in Executors : Cardinality({n \in Epochs : exec[n].host = e /\ exec[n].write \notin {"none", "uploading"}}) <= 1
  /\ expired \subseteq Executors /\ staged \subseteq 0..load.claims

\* The record of a settled operation is never written again, by its owner, an earlier
\* owner, a recovering replica or a caller, whatever they had read before.
TerminalFinal == [][record.state \in Terminal => UNCHANGED record]_vars

\* Once a cancellation is recorded the operation ends as cancelled and in no other way,
\* also when its handler completes at the same time; and it ends so only on request.
CancelWins ==
  /\ record.cancel => record.state \notin {"Completed", "Failed"}
  /\ record.state = "Cancelled" => record.cancel

\* An execution that was superseded changes nothing: the write of an execution takes
\* effect only while the record has its epoch.
Superseded ==
  [][\A n \in Epochs :
       exec[n].write # "none" /\ exec'[n].write = "none" /\ record' # record => record.epoch = n]_vars

\* The handler of an operation that is not cancelled is entered only with its input
\* whole: a staged upload committed and there, a stream by the execution that receives it.
EntryReady ==
  [][\A n \in Epochs :
       exec[n].pc = "enter" /\ exec'[n].pc = "handler" /\ ~record.cancel =>
         CASE kind = "upload" -> record.upload = "committed" /\ (record.key # 0 => record.key \in staged)
           [] kind = "stream" -> n = 1
           [] OTHER -> TRUE]_vars

\* A cancelled stream that a recovery has given up.
Stranded ==
  /\ kind = "stream" /\ record.cancel /\ record.upload # "none"
  /\ record.epoch > 1 /\ exec[record.epoch].pc = "gone"

\* An operation whose input is there settles, and so does a cancelled one, through
\* crashed owners, lost answers and expired leases: some replica recovers it.  Two cases
\* may stay unsettled, in the code as here.  A committed upload whose object was removed:
\* a superseded replica removes its first attempt, whose key the next start uses again.
\* And a cancelled stream whose execution is lost: every recovery of it fails in
\* settle_operation_upload, so that only a new start of its caller settles it.
Settles ==
  (Exists /\ (kind # "upload" \/ record.cancel \/ record.upload = "committed"))
    ~> \/ record.state \in Terminal
       \/ record.upload = "committed" /\ record.key \notin staged
       \/ Stranded
=============================================================================
