-------------------------- MODULE RuntimeOwnership --------------------------
(* Singleton ownership of the runtime's subsystems: each runtime process       *)
(* acquires one key of a lease bucket per selected owner group, verifies them,  *)
(* starts its subsystems, and renews every lease in a task of its own until it  *)
(* stops or a renewal fails (crates/runtime/src/leases/mod.rs, ownership.rs,    *)
(* supervisor.rs).                                                              *)
(*                                                                              *)
(* Time is discrete.  A request is prompt (served and answered before the next  *)
(* tick) or slow; a slow one is served at any later time, even after its sender *)
(* has given up, and may be answered late, with an error, or never.  A member   *)
(* of Runtimes is one process run: its owner id carries a fresh ULID.           *)
EXTENDS Integers, Sequences, FiniteSets

CONSTANTS Runtimes,   \* process runs
          Groups,     \* owner groups: platform, jobs, health, events
          Selected,   \* OwnerGroup::for_mode: the groups of each runtime, in order
          Ttl,        \* max_age of the lease bucket
          Renew,      \* renewal period
          Jitter,     \* renewal_jitter of each runtime's owner id
          ReleaseWait,\* OWNERSHIP_SHUTDOWN_TIMEOUT
          JoinWait,   \* SUBSYSTEM_SHUTDOWN_TIMEOUT
          MaxWrites,  \* bound: bucket writes before the clock stops
          MaxFaults,  \* bound: slow requests, slow starts and crashes
          NoOwner

\* LeasesConfig::resolve accepts a renewal period of at most a third of the ttl;
\* the jitter is at most a fifth of the period.
ASSUME LeaseAssumption ==
    /\ Ttl \in Nat /\ Renew \in Nat \ {0} /\ 3 * Renew <= Ttl
    /\ Jitter \in [Runtimes -> Nat]
    /\ \A p \in Runtimes : 5 * Jitter[p] <= Renew
    /\ Selected \in [Runtimes -> Seq(Groups)]
    /\ ReleaseWait \in Nat /\ JoinWait \in Nat
    /\ MaxWrites \in Nat /\ MaxFaults \in Nat
    /\ NoOwner \notin Runtimes

VARIABLES
    entry,   \* the bucket: owner, revision and remaining age of each key
    seq,     \* last revision the bucket assigned
    rt,      \* each runtime's supervisor: phase and a clock for that phase
    lease,   \* each runtime's guard and renewal task, per group
    wire,    \* requests the bucket has not served
    faults

vars == <<entry, seq, rt, lease, wire, faults>>

----------------------------------------------------------------------------
NoReply == -1
Refusal == 0                       \* WrongLastRevision; revisions start at 1

NoEntry == [owner |-> NoOwner, rev |-> 0, left |-> 0]
NoLease == [pc |-> "none", rev |-> 0, due |-> 0, timer |-> 0,
            reply |-> NoReply, slow |-> FALSE, late |-> FALSE]

Init == /\ entry = [g \in Groups |-> NoEntry]
        /\ seq = 0
        /\ rt = [p \in Runtimes |-> [pc |-> "off", clock |-> 0, slow |-> FALSE]]
        /\ lease = [p \in Runtimes |-> [g \in Groups |-> NoLease]]
        /\ wire = {}
        /\ faults = 0

\* Variant: the jitter is not counted.
RenewalTimeoutUnjittered(p) == Ttl - Renew

\* renewal_timeout: what is left of the ttl after the period and the jitter.
RenewalTimeout(p) == Ttl - (Renew + Jitter[p])

\* The selected groups whose lease task is in one of the states pcs.
In(p, pcs) == {g \in Groups : lease[p][g].pc \in pcs}

\* The subsystems of the selected groups run.
Running(p) == rt[p].pc \in {"starting", "serving", "stopping"}

Request(p, g, op) == [from |-> p, group |-> g, op |-> op, rev |-> lease[p][g].rev]

\* A request may be slow, at the price of a fault.
Spend(n) == /\ faults + n <= MaxFaults
            /\ faults' = faults + n

Phase(p, pc, clock) == rt' = [rt EXCEPT ![p] = [pc |-> pc, clock |-> clock, slow |-> FALSE]]

----------------------------------------------------------------------------
(* RuntimeOwnership::acquire: the groups in order, then one verifying renewal   *)
(* of all of them.                                                              *)

Begin(p, slow) ==
    /\ rt[p].pc = "off"
    /\ Spend(IF slow THEN 1 ELSE 0)
    /\ rt' = [rt EXCEPT ![p] = [pc |-> "acquiring", clock |-> 0, slow |-> slow]]
    /\ UNCHANGED <<entry, seq, lease, wire>>

\* The next group of the mode's order.
Wanted(p) == {Selected[p][i] : i \in {j \in 1..Len(Selected[p]) :
                                        j = Cardinality(In(p, {"held"})) + 1}}

\* LeaseManager::acquire creates the key, which must not exist.
Create(p, g) ==
    /\ entry[g].owner = NoOwner
    /\ seq' = seq + 1
    /\ entry' = [entry EXCEPT ![g] = [owner |-> p, rev |-> seq + 1, left |-> Ttl]]

\* Variant: the groups are acquired in no particular order.
AcquireAnyOrder(p, g) ==
    /\ rt[p].pc = "acquiring"
    /\ g \in {Selected[p][i] : i \in 1..Len(Selected[p])} \ In(p, {"held"})
    /\ Create(p, g)
    /\ lease' = [lease EXCEPT ![p][g].pc = "held", ![p][g].rev = seq + 1]
    /\ UNCHANGED <<rt, wire, faults>>

Acquire(p, g) ==
    /\ rt[p].pc = "acquiring" /\ g \in Wanted(p)
    /\ Create(p, g)
    /\ lease' = [lease EXCEPT ![p][g].pc = "held", ![p][g].rev = seq + 1]
    /\ UNCHANGED <<rt, wire, faults>>

\* The key is held, or the create failed without a known effect: what was
\* acquired is released again.
AcquireFails(p, g) ==
    /\ rt[p].pc = "acquiring" /\ g \in Wanted(p)
    /\ \/ entry[g].owner # NoOwner /\ UNCHANGED <<entry, seq, faults>>
       \/ Spend(1) /\ UNCHANGED <<entry, seq>>
       \/ Spend(1) /\ Create(p, g)
    /\ Phase(p, "refusing", 0)
    /\ UNCHANGED <<lease, wire>>

\* verify_held renews every lease at once.
Verify(p, slow) ==
    /\ rt[p].pc = "acquiring" /\ Wanted(p) = {}
    /\ slow \subseteq In(p, {"held"})
    /\ Spend(Cardinality(slow))
    /\ wire' = wire \cup {Request(p, g, "renew") : g \in In(p, {"held"})}
    /\ lease' = [lease EXCEPT ![p] = [g \in Groups |->
                    IF g \in In(p, {"held"})
                    THEN [lease[p][g] EXCEPT !.pc = "verifying", !.slow = (g \in slow),
                                             !.timer = RenewalTimeout(p)]
                    ELSE lease[p][g]]]
    /\ Phase(p, "verifying", 0)
    /\ UNCHANGED <<entry, seq>>

\* A verified runtime spawns the lease tasks, their first deadline anchored to the
\* start of the verification, and starts its subsystems.
Verified(p) ==
    /\ rt[p].pc = "verifying" /\ In(p, {"verifying"}) = {}
    /\ lease' = [lease EXCEPT ![p] = [g \in Groups |->
                    IF lease[p][g].pc = "verified"
                    THEN [lease[p][g] EXCEPT !.pc = "waiting",
                                             !.due = Renew + Jitter[p] - rt[p].clock]
                    ELSE lease[p][g]]]
    /\ Phase(p, "starting", 0)
    /\ UNCHANGED <<entry, seq, wire, faults>>

----------------------------------------------------------------------------
(* LeaseManager::renew and release against the bucket.                          *)

Awaits(p, g, op) ==
    /\ lease[p][g].pc \in (IF op = "renew" THEN {"verifying", "renewing"} ELSE {"releasing"})
    /\ lease[p][g].reply = NoReply

\* The bucket serves a request: an update or a delete that expects the revision it
\* names.  The answer reaches the sender if it still waits for it.
ServeIf(r, fresh) ==
    /\ r \in wire
    /\ wire' = wire \ {r}
    /\ seq' = IF fresh THEN seq + 1 ELSE seq
    /\ entry' = IF ~ fresh THEN entry
                ELSE [entry EXCEPT ![r.group] =
                        [owner |-> IF r.op = "renew" THEN r.from ELSE NoOwner,
                         rev |-> seq + 1,
                         left |-> Ttl]]
    /\ lease' = IF Awaits(r.from, r.group, r.op)
                THEN [lease EXCEPT ![r.from][r.group].reply =
                        IF fresh THEN seq + 1 ELSE Refusal]
                ELSE lease
    /\ UNCHANGED <<rt, faults>>

\* Variant: renewals and releases expect no revision.
ServeAnyRevision(r) == ServeIf(r, TRUE)

Serve(r) == ServeIf(r, entry[r.group].rev = r.rev)

\* A failed renewal ends the task after one attempt to release the lease; a failed
\* verification abandons the other renewals and releases what is held.
Fail(p, g, slow) ==
    \/ /\ lease[p][g].pc = "renewing"
       /\ lease' = [lease EXCEPT ![p][g].pc = "releasing", ![p][g].timer = ReleaseWait,
                                 ![p][g].reply = NoReply, ![p][g].slow = slow]
       /\ wire' = wire \cup {Request(p, g, "release")}
       /\ UNCHANGED rt
    \/ /\ lease[p][g].pc = "verifying" /\ ~ slow
       /\ lease' = [lease EXCEPT ![p] = [h \in Groups |->
                       IF lease[p][h].pc \in {"verifying", "verified"}
                       THEN [lease[p][h] EXCEPT !.pc = "held", !.reply = NoReply]
                       ELSE lease[p][h]]]
       /\ Phase(p, "refusing", 0)
       /\ UNCHANGED wire

\* The guard takes the revision; the next renewal is due one period after the last
\* one was.
Adopt(p, g, rev) ==
    /\ lease' = [lease EXCEPT ![p][g].rev = rev, ![p][g].reply = NoReply,
                              ![p][g].pc = IF @ = "verifying" THEN "verified" ELSE "waiting",
                              ![p][g].due = @ + Renew]
    /\ UNCHANGED <<rt, wire>>

\* The entry proves ownership under a later revision than the guard's.
Advanced(p, g) == entry[g].owner = p /\ entry[g].rev > lease[p][g].rev

\* The update was answered with its revision; or it was refused, or the client's own
\* timeout made it ambiguous, and the entry is inspected.
Answered(p, g, slow) ==
    /\ lease[p][g].pc \in {"verifying", "renewing"}
    /\ \/ /\ lease[p][g].reply \notin {NoReply, Refusal} /\ ~ slow
          /\ Adopt(p, g, lease[p][g].reply)
       \/ /\ lease[p][g].reply = Refusal \/ lease[p][g].slow
          /\ Advanced(p, g) /\ ~ slow
          /\ Adopt(p, g, entry[g].rev)
       \/ /\ lease[p][g].reply = Refusal \/ lease[p][g].slow
          /\ ~ Advanced(p, g)
          /\ Fail(p, g, slow)
    /\ Spend(IF slow THEN 1 ELSE 0)
    /\ UNCHANGED <<entry, seq>>

\* A slow renewal fails outright or exceeds renewal_timeout.
Overrun(p, g, slow) ==
    /\ lease[p][g].pc \in {"verifying", "renewing"} /\ lease[p][g].slow
    /\ Fail(p, g, slow)
    /\ Spend(IF slow THEN 1 ELSE 0)
    /\ UNCHANGED <<entry, seq>>

\* run_owned_lease: the next renewal is due, or overdue.
RenewalDue(p, g, slow) ==
    /\ lease[p][g].pc = "waiting" /\ lease[p][g].due <= 0
    /\ Spend(IF slow THEN 1 ELSE 0)
    /\ lease' = [lease EXCEPT ![p][g].pc = "renewing", ![p][g].timer = RenewalTimeout(p),
                              ![p][g].slow = slow, ![p][g].late = lease[p][g].due < 0]
    /\ wire' = wire \cup {Request(p, g, "renew")}
    /\ UNCHANGED <<entry, seq, rt>>

\* run_owned_lease after stop, and release_held, which releases the leases of a
\* refused runtime one by one in reverse order.
LastHeld(p) == {g \in In(p, {"held"}) :
                  /\ In(p, {"releasing"}) = {}
                  /\ \E i \in 1..Len(Selected[p]) :
                       /\ Selected[p][i] = g
                       /\ \A j \in i + 1..Len(Selected[p]) :
                             Selected[p][j] \notin In(p, {"held"})}

Release(p, g, slow) ==
    /\ \/ rt[p].pc = "ending" /\ lease[p][g].pc = "waiting"
       \/ rt[p].pc = "refusing" /\ g \in LastHeld(p)
    /\ Spend(IF slow THEN 1 ELSE 0)
    /\ lease' = [lease EXCEPT ![p][g].pc = "releasing", ![p][g].timer = ReleaseWait,
                              ![p][g].slow = slow]
    /\ wire' = wire \cup {Request(p, g, "release")}
    /\ UNCHANGED <<entry, seq, rt>>

\* The release was answered, or release_one gave up on it.
Released(p, g) ==
    /\ lease[p][g].pc = "releasing"
    /\ lease[p][g].reply # NoReply \/ lease[p][g].slow
    /\ lease' = [lease EXCEPT ![p][g] = [NoLease EXCEPT !.pc = "ended"]]
    /\ UNCHANGED <<entry, seq, rt, wire, faults>>

----------------------------------------------------------------------------
(* The supervisor.                                                              *)

\* Partial ownership has been released: the process exits with the first error.
Refused(p) ==
    /\ rt[p].pc = "refusing" /\ In(p, {"held", "releasing"}) = {}
    /\ Phase(p, "refused", 0)
    /\ UNCHANGED <<entry, seq, lease, wire, faults>>

\* The built-in providers have bootstrapped: lease failures are now watched.
Serving(p) ==
    /\ rt[p].pc = "starting"
    /\ Phase(p, "serving", 0)
    /\ UNCHANGED <<entry, seq, lease, wire, faults>>

\* A signal, a failed start, the listener's end or a failed subsystem: subsystems are
\* told to stop.  A lost lease is looked at first.
Stop(p) ==
    /\ \/ rt[p].pc = "starting"
       \/ rt[p].pc = "serving" /\ In(p, {"ended"}) = {}
    /\ Phase(p, "stopping", JoinWait)
    /\ UNCHANGED <<entry, seq, lease, wire, faults>>

\* wait_for_renewal_failure has an ended task: the subsystems are aborted.
OwnershipLost(p) ==
    /\ rt[p].pc = "serving" /\ In(p, {"ended"}) # {}
    /\ Phase(p, "closing", 0)
    /\ UNCHANGED <<entry, seq, lease, wire, faults>>

\* join_subsystems: they have stopped, or are aborted at the deadline.
Joined(p) ==
    /\ rt[p].pc = "stopping"
    /\ Phase(p, "closing", 0)
    /\ UNCHANGED <<entry, seq, lease, wire, faults>>

\* Variant: the leases are released while the subsystems are still being joined.
CloseEarly(p) ==
    /\ rt[p].pc \in {"closing", "stopping"}
    /\ lease' = [lease EXCEPT ![p] = [g \in Groups |->
                    IF lease[p][g].pc = "waiting" THEN [NoLease EXCEPT !.pc = "ended"]
                                                  ELSE lease[p][g]]]
    /\ wire' = wire \cup {Request(p, g, "release") : g \in In(p, {"waiting"})}
    /\ rt' = [rt EXCEPT ![p].pc = IF @ = "closing" THEN "ending" ELSE @]
    /\ UNCHANGED <<entry, seq, faults>>

\* The providers are closed; RuntimeOwnership::shutdown stops the lease tasks.
Close(p) ==
    /\ rt[p].pc = "closing"
    /\ Phase(p, "ending", ReleaseWait)
    /\ UNCHANGED <<entry, seq, lease, wire, faults>>

\* Every task has ended, or the tasks left at the deadline are aborted.
Ended(p) ==
    /\ rt[p].pc = "ending"
    /\ In(p, {"waiting", "renewing", "releasing"}) = {} \/ rt[p].clock = 0
    /\ Phase(p, "gone", 0)
    /\ lease' = [lease EXCEPT ![p] = [g \in Groups |-> NoLease]]
    /\ UNCHANGED <<entry, seq, wire, faults>>

\* The process dies; its leases stay until they expire.
Crash(p) ==
    /\ rt[p].pc \notin {"off", "refused", "gone"}
    /\ Spend(1)
    /\ Phase(p, "gone", 0)
    /\ lease' = [lease EXCEPT ![p] = [g \in Groups |-> NoLease]]
    /\ UNCHANGED <<entry, seq, wire>>

----------------------------------------------------------------------------
Pending == {"verifying", "renewing", "releasing"}

\* Steps that take no time come first: prompt requests and starts, due renewals,
\* exceeded deadlines, the supervisor's reaction to a lost lease.
Idle(p) ==
    /\ rt[p].pc = "acquiring" => rt[p].slow
    /\ rt[p].pc = "verifying" => In(p, {"verifying"}) # {}
    /\ rt[p].pc = "refusing" => In(p, {"releasing"}) # {}
    /\ rt[p].pc = "serving" => In(p, {"ended"}) = {}
    /\ rt[p].pc = "ending" => In(p, {"waiting"}) = {} /\ In(p, Pending) # {}
    /\ rt[p].pc \in {"stopping", "ending"} => rt[p].clock > 0
    /\ \A g \in Groups :
          /\ lease[p][g].pc = "waiting" => lease[p][g].due > 0
          /\ lease[p][g].pc \in Pending => lease[p][g].slow /\ lease[p][g].timer > 0

\* A key is gone once it has been in the bucket for longer than its max_age.
Tick ==
    /\ seq < MaxWrites
    /\ \A p \in Runtimes : Idle(p)
    /\ entry' = [g \in Groups |-> IF entry[g].left = 0 THEN NoEntry
                                  ELSE [entry[g] EXCEPT !.left = @ - 1]]
    /\ rt' = [p \in Runtimes |->
                [rt[p] EXCEPT !.clock = CASE rt[p].pc = "verifying" -> @ + 1
                                          [] rt[p].pc \in {"stopping", "ending"} -> @ - 1
                                          [] OTHER -> @]]
    /\ lease' = [p \in Runtimes |-> [g \in Groups |->
                   [lease[p][g] EXCEPT
                      !.due = IF lease[p][g].pc \in {"waiting", "renewing"} THEN @ - 1 ELSE @,
                      !.timer = IF lease[p][g].pc \in Pending THEN @ - 1 ELSE @]]]
    /\ UNCHANGED <<seq, wire, faults>>

Leases(p, g) ==
    \/ Acquire(p, g)
    \/ AcquireFails(p, g)
    \/ Released(p, g)
    \/ \E slow \in BOOLEAN : \/ Answered(p, g, slow)
                              \/ Overrun(p, g, slow)
                              \/ RenewalDue(p, g, slow)
                              \/ Release(p, g, slow)

Supervisor(p) ==
    \/ \E slow \in BOOLEAN : Begin(p, slow)
    \/ \E slow \in SUBSET Groups : Verify(p, slow)
    \/ Verified(p) \/ Refused(p) \/ Serving(p) \/ Stop(p) \/ OwnershipLost(p)
    \/ Joined(p) \/ Close(p) \/ Ended(p) \/ Crash(p)

Next == \/ Tick
        \/ \E r \in wire : Serve(r)
        \/ \E p \in Runtimes : Supervisor(p) \/ \E g \in Groups : Leases(p, g)

Spec == Init /\ [][Next]_vars

----------------------------------------------------------------------------
(* Properties.                                                                  *)

\* Types, and: a runtime whose subsystems run holds a guard or has ended the task of
\* every selected group, and a guard's revision is one the bucket assigned.
TypeOK ==
    /\ entry \in [Groups -> [owner : Runtimes \cup {NoOwner}, rev : 0..seq, left : 0..Ttl]]
    /\ seq \in Nat /\ faults \in 0..MaxFaults
    /\ rt \in [Runtimes ->
               [pc : {"off", "acquiring", "verifying", "refusing", "refused", "starting",
                      "serving", "stopping", "closing", "ending", "gone"},
                clock : Nat, slow : BOOLEAN]]
    /\ lease \in [Runtimes -> [Groups ->
               [pc : Pending \cup {"none", "held", "verified", "waiting", "ended"},
                rev : 0..seq, due : Int, timer : Nat, reply : {NoReply} \cup 0..seq,
                slow : BOOLEAN, late : BOOLEAN]]]
    /\ wire \subseteq [from : Runtimes, group : Groups, op : {"renew", "release"}, rev : 1..seq]
    /\ \A p \in Runtimes : \A i \in 1..Len(Selected[p]) :
          Running(p) => lease[p][Selected[p][i]].pc
                          \in {"waiting", "renewing", "releasing", "ended"}

\* "Revision checks make a stale guard fail instead of renewing or deleting another
\* owner's lease" (LeaseGuard): however late the bucket serves a renewal or a release,
\* it changes the key only while the key is its sender's.
LeaseFenced ==
    [][\A r \in wire \ wire' :
          entry'[r.group] # entry[r.group] => entry[r.group].owner = r.from]_vars

\* The renewal schedule: a lease task that sent its last renewal on time, and has not
\* given up, owns its key, whatever was slow.  A round that times out does so before
\* the key can have expired.  (A round that starts late, because the one before it was
\* answered late, still gets the full timeout and is not covered.)
TtlCovers ==
    \A p \in Runtimes, g \in Groups :
        lease[p][g].pc \in {"waiting", "renewing"} /\ ~ lease[p][g].late
            => entry[g].owner = p

\* Without faults the handover is ordered: a subsystem runs only while its lease is its
\* runtime's own, because a stopping runtime joins its subsystems before it stops the
\* lease tasks.
HandedOver ==
    faults = 0 => \A p \in Runtimes : \A i \in 1..Len(Selected[p]) :
                      Running(p) => entry[Selected[p][i]].owner = p

\* Runtimes acquire groups in one order, so without faults they cannot all refuse each
\* other: some runtime is not refused.
SomeoneServes == faults = 0 => \E p \in Runtimes : rt[p].pc # "refused"
=============================================================================
