---------------------------- MODULE JobKeyRecord -----------------------------
(***************************************************************************)
(* Keyed job concurrency: the record the Jobs SDK keeps for one            *)
(* concurrency key, and the reducers of crates/trellis/src/jobs/keys.rs    *)
(* that its submitters and workers apply to it.                            *)
(***************************************************************************)
EXTENDS Integers, Sequences, FiniteSets, SequencesExt

CONSTANTS
  Jobs,           \* job ids that share the key
  Tokens,         \* slot tokens (one ULID per acquisition attempt)
  Times,          \* clock readings (see LexRank)
  MaxActive,      \* JobKeyPolicy.max_active
  MaxQueued,      \* JobKeyPolicy.max_queued_per_key
  WhenFull,       \* the when_full policies a submitter may carry
  StalePolicy,    \* JobKeyPolicy.stale_policy
  NoJob           \* not a job id

ASSUME PolicyAssumption ==
  /\ MaxActive \in Nat \ {0}
  /\ MaxQueued \in Nat
  /\ Times \subseteq Int
  /\ WhenFull \subseteq {"reject", "coalesce", "replace-oldest"}
  /\ StalePolicy \in {"fail-stale", "block"}
  /\ NoJob \notin Jobs

-----------------------------------------------------------------------------
(***************************************************************************)
(* The key record.  active and queued keep the order of the code's         *)
(* vectors; cleanup_pending is only tested for membership.  An entry that  *)
(* is absent from the bucket behaves as an empty record in every reducer.  *)
(***************************************************************************)
Slot == [job : Jobs, token : Tokens, lease : Times]

KeyState == [active : Seq(Slot), queued : Seq(Jobs), cleanup : SUBSET Jobs]

NewKeyState == [active |-> <<>>, queued |-> <<>>, cleanup |-> {}]

(***************************************************************************)
(* Leases are RFC 3339 strings and are compared as strings.  The formatter *)
(* drops a zero fraction, so within one second "05.5Z" sorts before "05Z". *)
(* A clock reading counts half seconds: even readings have no fraction.    *)
(***************************************************************************)
LexRank(t) == IF t % 2 = 0 THEN t + 1 ELSE t - 1

LeaseExpired(slot, at) == LexRank(slot.lease) <= LexRank(at)

HoldsSlot(ks, j) == \E i \in DOMAIN ks.active : ks.active[i].job = j

HoldsSlotAs(ks, j, t) ==
  \E i \in DOMAIN ks.active : ks.active[i].job = j /\ ks.active[i].token = t

IsQueued(ks, j) == \E i \in DOMAIN ks.queued : ks.queued[i] = j

(***************************************************************************)
(* Vec::retain by job id: a job has at most one slot and at most one place *)
(* in the queue (SlotsDistinct, QueuedOnce), so one removal is a retain.   *)
(***************************************************************************)
SlotIndex(ks, j) == CHOOSE i \in DOMAIN ks.active : ks.active[i].job = j

DropSlot(ks, j) ==
  IF HoldsSlot(ks, j) THEN [ks EXCEPT !.active = RemoveAt(@, SlotIndex(ks, j))] ELSE ks

QueueIndex(ks, j) == CHOOSE i \in DOMAIN ks.queued : ks.queued[i] = j

Dequeue(ks, j) ==
  IF IsQueued(ks, j) THEN [ks EXCEPT !.queued = RemoveAt(@, QueueIndex(ks, j))] ELSE ks

Outcome(kind, ks) == [kind |-> kind, state |-> ks]

-----------------------------------------------------------------------------
(* admit_job *)

QueueLimit(ks) ==
  MaxQueued + (IF Len(ks.active) < MaxActive THEN MaxActive - Len(ks.active) ELSE 0)

QueueFull(ks) == Len(ks.queued) >= QueueLimit(ks)

AdmitJob(ks, whenFull, j) ==
  CASE HoldsSlot(ks, j) \/ IsQueued(ks, j) -> Outcome("accepted", ks)
    [] ~HoldsSlot(ks, j) /\ ~IsQueued(ks, j) /\ ~QueueFull(ks) ->
         Outcome("accepted", [ks EXCEPT !.queued = Append(@, j)])
    [] OTHER ->
         IF whenFull = "coalesce" THEN Outcome("coalesced", ks)
         ELSE IF whenFull = "replace-oldest" /\ ks.queued # <<>>
         THEN Outcome("replaced", [ks EXCEPT !.queued = Append(Tail(@), j)])
         ELSE Outcome("rejected", ks)

-----------------------------------------------------------------------------
(* acquire_active_slot *)

FirstExpired(ks, at) ==
  CHOOSE i \in DOMAIN ks.active :
    /\ LeaseExpired(ks.active[i], at)
    /\ \A k \in 1..(i - 1) : ~LeaseExpired(ks.active[k], at)

SomeExpired(ks, at) == \E i \in DOMAIN ks.active : LeaseExpired(ks.active[i], at)

PushSlot(ks, slot) == [ks EXCEPT !.active = Append(@, slot)]

\* Variant: room is tested with <= instead of <.
TakeSlotOffByOne(ks, slot, at) ==
  IF Len(ks.active) <= MaxActive THEN Outcome("acquired", PushSlot(ks, slot))
  ELSE Outcome("blocked", ks)

\* Variant: the displaced job is not recorded for cleanup.
TakeSlotForgetting(ks, slot, at) ==
  IF Len(ks.active) < MaxActive THEN Outcome("acquired", PushSlot(ks, slot))
  ELSE IF SomeExpired(ks, at) /\ StalePolicy = "fail-stale"
  THEN Outcome("acquired",
         PushSlot([ks EXCEPT !.active = RemoveAt(@, FirstExpired(ks, at))], slot))
  ELSE Outcome("blocked", ks)

\* Variant: whoever gets a slot again is taken to have settled its obligation.
TakeSlotSettling(ks, slot, at) ==
  LET settled == PushSlot([ks EXCEPT !.cleanup = @ \ {slot.job}], slot)
      i == FirstExpired(ks, at)
  IN  IF Len(ks.active) < MaxActive THEN Outcome("acquired", settled)
      ELSE IF SomeExpired(ks, at)
      THEN Outcome("acquired", [settled EXCEPT !.active = RemoveAt(@, i),
                                               !.cleanup = @ \union {ks.active[i].job}])
      ELSE Outcome("blocked", ks)

\* A full key: displace the first expired slot, or leave the caller blocked.
TakeSlot(ks, slot, at) ==
  IF Len(ks.active) < MaxActive THEN Outcome("acquired", PushSlot(ks, slot))
  ELSE IF SomeExpired(ks, at) /\ StalePolicy = "fail-stale"
  THEN LET i == FirstExpired(ks, at)
       IN  Outcome("acquired",
             PushSlot([ks EXCEPT !.active = RemoveAt(@, i),
                                 !.cleanup = @ \union {ks.active[i].job}], slot))
  ELSE Outcome("blocked", ks)

\* Variant: a redelivery leaves its own expired slot behind.
AcquireBesideStale(ks, slot, at) ==
  IF HoldsSlotAs(ks, slot.job, slot.token)
  THEN Outcome("acquired", Dequeue(ks, slot.job))
  ELSE TakeSlot(Dequeue(ks, slot.job), slot, at)

\* Variant: a redelivery does not resume its own expired slot.
AcquireOnce(ks, slot, at) ==
  IF HoldsSlot(ks, slot.job) THEN Outcome("blocked", ks)
  ELSE TakeSlot(Dequeue(ks, slot.job), slot, at)

AcquireActiveSlot(ks, slot, at) ==
  LET held == HoldsSlot(ks, slot.job)
      same == HoldsSlotAs(ks, slot.job, slot.token)
      stale == held /\ LeaseExpired(ks.active[SlotIndex(ks, slot.job)], at)
  IN  CASE same /\ ~stale -> Outcome("acquired", Dequeue(ks, slot.job))
        [] held /\ (same <=> stale) -> Outcome("blocked", ks)
        \* A redelivery resumes its own expired slot under a fresh token.
        [] OTHER -> TakeSlot(DropSlot(Dequeue(ks, slot.job), slot.job), slot, at)

-----------------------------------------------------------------------------
(* renew_active_slot, release_active_slot *)

RenewActiveSlot(ks, slot) ==
  IF HoldsSlotAs(ks, slot.job, slot.token)
  THEN Outcome("renewed", [ks EXCEPT !.active[SlotIndex(ks, slot.job)] = slot])
  ELSE Outcome("lost", ks)

ReleaseActiveSlot(ks, j, t) ==
  IF HoldsSlotAs(ks, j, t) THEN Outcome("released", DropSlot(ks, j)) ELSE Outcome("lost", ks)

-----------------------------------------------------------------------------
(* remove_queued_entry, restore_replaced_queued_entry and the worker's     *)
(* cleanup of settled work, cleanup_queued_key_for_terminal                *)

RemoveQueuedEntry(ks, j) ==
  IF IsQueued(ks, j) THEN Outcome("removed", Dequeue(ks, j)) ELSE Outcome("missing", ks)

RestoreReplaced(ks, replaced, replacement) ==
  Outcome("restored",
    [ks EXCEPT !.queued = <<replaced>> \o Dequeue(Dequeue(ks, replacement), replaced).queued])

CleanupTerminal(ks, j) ==
  Outcome("removed", [DropSlot(Dequeue(ks, j), j) EXCEPT !.cleanup = @ \ {j}])

\* update_key writes the next state of these outcomes and of no other.
Persisted == {"accepted", "replaced", "acquired", "renewed", "released", "removed", "restored"}

NextState(ks, out) == IF out.kind \in Persisted THEN out.state ELSE ks
=============================================================================
